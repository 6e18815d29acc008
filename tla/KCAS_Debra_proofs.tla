-------------------------- MODULE KCAS_Debra_proofs --------------------------
(***************************************************************************)
(* Proofs about what the list of assignment 5 and the tree of assignment 6 *)
(* stand on.                                                               *)
(*                                                                         *)
(* First the multi-word compare-and-swap (module KCAS): it succeeds only   *)
(* while it holds all of its words, for any number of threads, of words    *)
(* and of entries, whatever the threads that help it meet and however      *)
(* often its descriptors are reused.                                       *)
(*                                                                         *)
(* Then the reclamation of nodes (module Debra, as D of MC_Debra): no operation        *)
(* advances past one change of the epoch, and none can use a deleted node, *)
(* for any number of threads, of nodes and of bags of which at least five  *)
(* are kept and one is empty.                                              *)
(***************************************************************************)
EXTENDS KCAS, MC_Debra, FiniteSetTheorems, SequenceTheorems, WellFoundedInduction, TLAPS

-----------------------------------------------------------------------------
(* Sorting changes only the order of the entries. *)
LEMMA IndicesOf ==
  ASSUME NEW es \in Seq(Entries)
  PROVE  /\ Len(es) \in Nat /\ DOMAIN es = 1 .. Len(es)
         /\ \A n \in 1 .. Len(es) : /\ es[n] \in Entries
                                    /\ es[n].addr \in Words /\ es[n].addr \in Int
         /\ es # <<>> => Len(es) > 0
<1>1. Len(es) \in Nat /\ DOMAIN es = 1 .. Len(es)
      /\ \A n \in 1 .. Len(es) : es[n] \in Entries
  BY LenProperties
<1>2. es # <<>> => Len(es) > 0
  BY <1>1, EmptySeq
<1>3. \A e \in Entries : e.addr \in Words
  BY DEF Entries
<1>4. \A a \in Words : a \in Int
  BY KCASAssumption DEF Words
<1> QED
  BY <1>1, <1>2, <1>3, <1>4

LEMMA IndicesFinite ==
  ASSUME NEW n \in Nat
  PROVE  IsFiniteSet(1 .. n) /\ Cardinality(1 .. n) = n
<1>1. 1 \in Int /\ n \in Int
  OBVIOUS
<1> QED
  BY <1>1, FS_Interval

LEMMA PlaceType ==
  ASSUME NEW es \in Seq(Entries), NEW n \in DOMAIN es
  PROVE  Place(es, n) \in 1 .. Len(es)
<1> DEFINE S == {m \in DOMAIN es : Before(es, m, n)}
<1>1. DOMAIN es = 1 .. Len(es) /\ Len(es) \in Nat
  OBVIOUS
<1>2. IsFiniteSet(DOMAIN es) /\ Cardinality(DOMAIN es) = Len(es)
  BY <1>1, IndicesFinite
<1>3. IsFiniteSet(S) /\ Cardinality(S) <= Len(es) /\ Cardinality(S) \in Nat
  BY <1>2, FS_Subset, FS_CardinalityType
<1>4. n \in S
  BY <1>1 DEF Before
<1>5. Cardinality(S) # 0
  BY <1>3, <1>4, FS_EmptySet
<1> QED
  BY <1>1, <1>3, <1>5 DEF Place

LEMMA PlaceApart ==
  ASSUME NEW es \in Seq(Entries), NEW m \in DOMAIN es, NEW n \in DOMAIN es,
         Before(es, m, n), m # n
  PROVE  Place(es, m) # Place(es, n)
<1> DEFINE S(k) == {i \in DOMAIN es : Before(es, i, k)}
<1>1. DOMAIN es = 1 .. Len(es) /\ Len(es) \in Nat
  OBVIOUS
<1>2. IsFiniteSet(DOMAIN es)
  BY <1>1, IndicesFinite
<1>3. IsFiniteSet(S(n))
  BY <1>2, FS_Subset
<1>4. \A i \in DOMAIN es : es[i].addr \in Int
  BY IndicesOf
<1>5. S(m) \subseteq S(n)
  BY <1>1, <1>4 DEF Before
<1>6. n \in S(n) /\ n \notin S(m)
  BY <1>1, <1>4 DEF Before
<1>7. Cardinality(S(m)) # Cardinality(S(n))
  BY <1>3, <1>5, <1>6, FS_Subset
<1> QED
  BY <1>7 DEF Place

LEMMA SortedType ==
  ASSUME NEW es \in Seq(Entries)
  PROVE  /\ Sorted(es) \in Seq(Entries) /\ Len(Sorted(es)) = Len(es)
         /\ \A i \in DOMAIN es : \E n \in DOMAIN es : Place(es, n) = i /\ Sorted(es)[i] = es[n]
<1> DEFINE Is == DOMAIN es
           f == [n \in Is |-> Place(es, n)]
<1>1. Is = 1 .. Len(es) /\ Len(es) \in Nat
  OBVIOUS
<1>2. IsFiniteSet(Is)
  BY <1>1, IndicesFinite
<1>3. \A n \in Is : Place(es, n) \in Is
  BY <1>1, PlaceType
<1>4. \A m, n \in Is : m # n => Place(es, m) # Place(es, n)
  <2> SUFFICES ASSUME NEW m \in Is, NEW n \in Is, m # n
               PROVE  Place(es, m) # Place(es, n)
    OBVIOUS
  <2>1. es[m].addr \in Int /\ es[n].addr \in Int
    BY IndicesOf
  <2>2. Before(es, m, n) \/ Before(es, n, m)
    BY <1>1, <2>1 DEF Before
  <2> QED
    BY <2>2, PlaceApart
<1>5. f \in Injection(Is, Is)
  BY <1>3, <1>4 DEF Injection, IsInjective
<1>6. f \in Surjection(Is, Is)
  BY <1>2, <1>5, FS_Injection
<1>7. \A i \in Is : \E n \in Is : Place(es, n) = i
  BY <1>6 DEF Surjection
<1>8. \A i \in Is : /\ Sorted(es)[i] \in Entries
                    /\ \E n \in Is : Place(es, n) = i /\ Sorted(es)[i] = es[n]
  <2> SUFFICES ASSUME NEW i \in Is
               PROVE  /\ Sorted(es)[i] \in Entries
                      /\ \E n \in Is : Place(es, n) = i /\ Sorted(es)[i] = es[n]
    OBVIOUS
  <2>1. \E n \in Is : Place(es, n) = i
    BY <1>7
  <2>2. PICK c : c = CHOOSE n \in Is : Place(es, n) = i
    OBVIOUS
  <2>3. c \in Is /\ Place(es, c) = i
    BY <2>1, <2>2
  <2>4. Sorted(es)[i] = es[c]
    BY <2>2 DEF Sorted
  <2>5. es[c] \in Entries
    BY <1>1, <2>3, IndicesOf
  <2> QED
    BY <2>3, <2>4, <2>5
<1>9. Sorted(es) \in [1 .. Len(es) -> Entries]
  BY <1>1, <1>8 DEF Sorted
<1> QED
  BY <1>1, <1>8, <1>9

-----------------------------------------------------------------------------
Numbers == {n \in Nat : n > 1}
RTags == [is : {"rdcss"}, by : Threads, seq : Numbers]
KTags == [is : {"kcas"}, by : Threads, seq : Numbers]
Vals == [is : {"value"}, val : Values]

Frames == [tag : KTags, entries : Seq(Entries) \ {<<>>}, i : Nat \ {0},
           verdict : {"succeeded", "failed"}]

Rdcsses == [by : RTags, addr : Words, new : Vals \cup KTags, of : KTags]

KPlaces == {"idle", "new", "read", "helpOther", "help", "prepare", "lock",
            "rdcssHelpOther", "rdcssHelp", "rdcssSwap", "decide", "finish", "unlock"}

KType ==
  /\ mem \in [Words -> Vals \cup RTags \cup KTags]
  /\ kdesc \in [Threads -> [seq : Nat \ {0}, state : {"undecided", "succeeded", "failed"},
                            entries : Seq(Entries)]]
  /\ rdesc \in [Threads -> [seq : Nat \ {0}, addr : Words \cup {0}, old : Values,
                            of : KTags \cup {NoTag}]]
  /\ pc \in [Threads -> KPlaces]
  /\ stack \in [Threads -> Seq(Frames)]
  /\ found \in [Threads -> RTags \cup KTags \cup {NoTag}]
  /\ rd \in [Threads -> Rdcsses \cup {NoRdcss}]
  /\ DOMAIN cur = Threads
  /\ \A t \in Threads : cur[t].op = "read" => cur[t].addr \in Words

(* The k-CAS of tag k has not been decided. *)
Open(k) == kdesc[k.by].seq = k.seq /\ kdesc[k.by].state = "undecided"

(* A tag k that is met is of a use of the descriptor that has begun, *)
Known(k) ==
  /\ k.seq <= kdesc[k.by].seq
  /\ pc[k.by] = "new" => k.seq < kdesc[k.by].seq

KnownRdcss(r) == r.seq <= rdesc[r.by].seq

(* and if the k-CAS is open, its first word is locked. *)
FirstWord(k) == kdesc[k.by].entries[1].addr
Begun(k) == Known(k) /\ (Open(k) => mem[FirstWord(k)] = k)

(* The tag k is about to be put into word a. *)
Comes(k, a) == Known(k) /\ (Open(k) => a = FirstWord(k) \/ mem[FirstWord(k)] = k)

(* A call of help knows the entries, and holds the words before its own. *)
FrameOK(f) ==
  /\ Known(f.tag)
  /\ kdesc[f.tag.by].seq = f.tag.seq => f.entries = kdesc[f.tag.by].entries
  /\ f.i <= Len(f.entries) + 1
  /\ Open(f.tag) => \A j \in 1 .. f.i - 1 : mem[f.entries[j].addr] = f.tag

InRdcss(t) == pc[t] \in {"rdcssHelp", "rdcssSwap"}

StackOK(t) ==
  /\ \A n \in DOMAIN stack[t] :
       /\ FrameOK(stack[t][n])
       /\ n > 1 \/ pc[t] \notin {"help", "decide", "finish"} =>
            stack[t][n].i <= Len(stack[t][n].entries)
  /\ pc[t] \in {"help", "prepare", "lock", "decide", "finish", "unlock"} => stack[t] # <<>>
  /\ pc[t] \in {"idle", "new", "read"} => stack[t] = <<>>
  /\ pc[t] \in {"idle", "new"} \/ cur[t].op \in {"read", "kcas"}
  /\ stack[t] = <<>> => pc[t] \in {"idle", "new"} \/ cur[t].op = "read"
  /\ pc[t] = "decide" /\ Top(t).verdict = "succeeded" => Top(t).i > Len(Top(t).entries)
  /\ pc[t] \in {"finish", "unlock"} => ~ Open(Top(t).tag)

FoundOK(t) ==
  /\ found[t] \in KTags => Begun(found[t])
  /\ found[t] \in RTags => KnownRdcss(found[t])
  /\ pc[t] = "helpOther" => found[t] \in KTags
  /\ pc[t] = "rdcssHelpOther" => found[t] \in RTags /\ found[t].by # t

(* The descriptor of the k-CAS of thread t, and that of its RDCSS. *)
DescriptorsOK(t) ==
  /\ kdesc[t].entries = <<>> => kdesc[t].seq = 1 \/ pc[t] = "new"
  /\ rdesc[t].seq > 1 =>
       rdesc[t].of \in KTags /\ rdesc[t].addr \in Words /\ Comes(rdesc[t].of, rdesc[t].addr)
  /\ (InRdcss(t) \/ pc[t] \in {"lock", "rdcssHelpOther"}) /\ stack[t] # <<>> =>
       rdesc[t].seq > 1 /\ rdesc[t].of = Top(t).tag /\ rdesc[t].addr = At(t).addr

(* The RDCSS that thread t executes or helps. *)
RdcssOK(t) ==
  /\ InRdcss(t) => rd[t] \in Rdcsses
  /\ rd[t] \in Rdcsses =>
       LET r == rd[t]
       IN /\ KnownRdcss(r.by) /\ Comes(r.of, r.addr)
          /\ r.new \in Vals \/ r.new = r.of
          /\ r.by.seq = rdesc[r.by.by].seq =>
               r.of = rdesc[r.by.by].of /\ r.addr = rdesc[r.by.by].addr
  /\ pc[t] = "rdcssSwap" /\ rd[t].new # rd[t].of => ~ Open(rd[t].of)

(* Its own RDCSS is in the word, unless a helper has completed it. *)
OwnRdcssOK(t) ==
  InRdcss(t) /\ rd[t].by.by = t =>
    /\ stack[t] # <<>> /\ rd[t].by.seq = rdesc[t].seq
    /\ Open(rd[t].of) => mem[rd[t].addr] = rd[t].by \/ mem[rd[t].addr] = rd[t].of

ThreadOK(t) ==
  StackOK(t) /\ FoundOK(t) /\ DescriptorsOK(t) /\ RdcssOK(t) /\ OwnRdcssOK(t)

WordOK(a) ==
  /\ mem[a] \in KTags => Begun(mem[a])
  /\ mem[a] \in RTags =>
       LET t == mem[a].by
       IN InRdcss(t) /\ rd[t].by = mem[a] /\ rd[t].addr = a /\ mem[a].seq = rdesc[t].seq

KInv == KType /\ (\A t \in Threads : ThreadOK(t)) /\ (\A a \in Words : WordOK(a))

-----------------------------------------------------------------------------
LEMMA WordKinds ==
  ASSUME NEW w \in Vals \cup RTags \cup KTags
  PROVE  /\ w.is = "value" <=> w \in Vals
         /\ w.is = "rdcss" <=> w \in RTags
         /\ w.is = "kcas" <=> w \in KTags
         /\ w.is \in {"value", "rdcss", "kcas"}
BY DEF Vals, RTags, KTags

LEMMA Apart ==
  /\ \A k \in KTags : k \notin Vals /\ k \notin RTags /\ k # NoTag
  /\ \A r \in RTags : r \notin Vals /\ r \notin KTags /\ r # NoTag
  /\ NoRdcss \notin Rdcsses
<1>1. \A x : x \in KTags => x.is = "kcas"
  BY DEF KTags
<1>2. \A x : x \in RTags => x.is = "rdcss"
  BY DEF RTags
<1>3. \A x : x \in Vals => x.is = "value"
  BY DEF Vals
<1>4. NoTag.is = "none"
  BY DEF NoTag
<1>5. \A x \in Rdcsses : x.by \in RTags
  BY DEF Rdcsses
<1>6. NoRdcss.by = NoTag
  BY DEF NoRdcss
<1> QED
  BY <1>1, <1>2, <1>3, <1>4, <1>5, <1>6, Zenon

LEMMA TagFields ==
  /\ \A k \in KTags : k.by \in Threads /\ k.seq \in Nat /\ k.seq > 1
  /\ \A r \in RTags : r.by \in Threads /\ r.seq \in Nat /\ r.seq > 1
  /\ \A r \in Rdcsses : r.by \in RTags /\ r.addr \in Words /\ r.of \in KTags
                        /\ r.new \in Vals \cup KTags
  /\ \A f \in Frames : /\ f.tag \in KTags /\ f.entries \in Seq(Entries) /\ f.entries # <<>>
                       /\ f.i \in Nat /\ f.i > 0 /\ f.verdict \in {"succeeded", "failed"}
  /\ \A e \in Entries : e.addr \in Words /\ e.old \in Values /\ e.new \in Values
<1>1. /\ \A k \in KTags : k.by \in Threads /\ k.seq \in Nat /\ k.seq > 1
      /\ \A r \in RTags : r.by \in Threads /\ r.seq \in Nat /\ r.seq > 1
  BY DEF KTags, RTags, Numbers
<1>2. \A r \in Rdcsses : r.by \in RTags /\ r.addr \in Words /\ r.of \in KTags
                         /\ r.new \in Vals \cup KTags
  BY DEF Rdcsses
<1>3. \A f \in Frames : /\ f.tag \in KTags /\ f.entries \in Seq(Entries) /\ f.entries # <<>>
                        /\ f.i \in Nat /\ f.i > 0 /\ f.verdict \in {"succeeded", "failed"}
  BY DEF Frames
<1>4. \A e \in Entries : e.addr \in Words /\ e.old \in Values /\ e.new \in Values
  BY DEF Entries
<1> QED
  BY <1>1, <1>2, <1>3, <1>4

LEMMA TagsMade ==
  ASSUME NEW t \in Threads, NEW n \in Nat, n > 1
  PROVE  /\ KcasTag(t, n) \in KTags /\ KcasTag(t, n).by = t /\ KcasTag(t, n).seq = n
         /\ RdcssTag(t, n) \in RTags /\ RdcssTag(t, n).by = t /\ RdcssTag(t, n).seq = n
         /\ \A k \in KTags : k.by = t /\ k.seq = n => k = KcasTag(t, n)
         /\ \A r \in RTags : r.by = t /\ r.seq = n => r = RdcssTag(t, n)
BY DEF KTags, RTags, Numbers, KcasTag, RdcssTag

(* What a step may do to the descriptors and the words that others rely on. *)
KcasOn ==
  \A k \in KTags : Known(k) =>
    /\ Known(k)'
    /\ kdesc'[k.by].seq = k.seq =>
         kdesc[k.by].seq = k.seq /\ kdesc'[k.by].entries = kdesc[k.by].entries
    /\ Open(k)' => Open(k)

RdcssOn ==
  \A r \in RTags : KnownRdcss(r) =>
    /\ KnownRdcss(r)'
    /\ rdesc'[r.by].seq = r.seq => rdesc'[r.by] = rdesc[r.by]

WordsOn == \A k \in KTags : \A a \in Words : Known(k) /\ Open(k)' /\ mem[a] = k => mem'[a] = k

On == KcasOn /\ RdcssOn /\ WordsOn

-----------------------------------------------------------------------------
LEMMA KInit == Init => KInv
<1> SUFFICES ASSUME Init PROVE KInv
  OBVIOUS
<1>1. \A a \in Words : mem[a] \in Vals
  BY KCASAssumption DEF Init, Value, Vals
<1>2. \A t \in Threads : cur[t].op # "read"
  BY DEF Init, Abstract!Idle
<1>3. KType
  <2>1. mem \in [Words -> Vals \cup RTags \cup KTags]
    BY <1>1 DEF Init
  <2>2. <<>> \in Seq(Entries) /\ <<>> \in Seq(Frames)
    BY EmptySeq
  <2>3. kdesc \in [Threads -> [seq : Nat \ {0}, state : {"undecided", "succeeded", "failed"},
                               entries : Seq(Entries)]]
    BY <2>2 DEF Init
  <2>4. rdesc \in [Threads -> [seq : Nat \ {0}, addr : Words \cup {0}, old : Values,
                               of : KTags \cup {NoTag}]]
    BY KCASAssumption DEF Init
  <2>5. stack \in [Threads -> Seq(Frames)]
    BY <2>2 DEF Init
  <2>6. DOMAIN cur = Threads
    BY DEF Init
  <2> QED
    BY <1>2, <2>1, <2>3, <2>4, <2>5, <2>6 DEF KType, Init, KPlaces
<1>4. ASSUME NEW t \in Threads PROVE ThreadOK(t)
  <2>1. pc[t] = "idle" /\ stack[t] = <<>> /\ found[t] = NoTag /\ rd[t] = NoRdcss
        /\ kdesc[t].seq = 1 /\ rdesc[t].seq = 1
    BY DEF Init
  <2>2. StackOK(t)
    BY <2>1 DEF StackOK
  <2>3. FoundOK(t)
    BY <2>1, Apart DEF FoundOK
  <2>4. DescriptorsOK(t)
    BY <2>1 DEF DescriptorsOK
  <2>5. RdcssOK(t) /\ OwnRdcssOK(t)
    BY <2>1, Apart DEF RdcssOK, OwnRdcssOK, InRdcss
  <2> QED
    BY <2>2, <2>3, <2>4, <2>5 DEF ThreadOK
<1>5. \A a \in Words : WordOK(a)
  BY <1>1, Apart DEF WordOK
<1> QED
  BY <1>3, <1>4, <1>5 DEF KInv

-----------------------------------------------------------------------------
(* An open k-CAS whose tag is known has entries. *)
LEMMA OpenHasEntries ==
  ASSUME KInv, NEW k \in KTags, Known(k), kdesc[k.by].seq = k.seq
  PROVE  /\ kdesc[k.by].entries # <<>> /\ kdesc[k.by].entries \in Seq(Entries)
         /\ FirstWord(k) \in Words
<1>1. k.by \in Threads /\ k.seq > 1 /\ k.seq \in Nat
  BY TagFields
<1>2. pc[k.by] # "new"
  BY <1>1 DEF Known
<1>3. DescriptorsOK(k.by) /\ kdesc[k.by].entries \in Seq(Entries)
  BY <1>1 DEF KInv, ThreadOK, KType
<1>4. kdesc[k.by].entries # <<>>
  BY <1>1, <1>2, <1>3 DEF DescriptorsOK
<1>5. FirstWord(k) \in Words
  BY <1>3, <1>4, IndicesOf DEF FirstWord
<1> QED
  BY <1>3, <1>4, <1>5

LEMMA OpenOn ==
  ASSUME KInv, KcasOn, WordsOn, NEW k \in KTags, Known(k), Open(k)'
  PROVE  /\ Open(k) /\ FirstWord(k)' = FirstWord(k) /\ FirstWord(k) \in Words
         /\ mem[FirstWord(k)] = k => mem'[FirstWord(k)] = k
<1>1. Open(k) /\ kdesc'[k.by].seq = k.seq /\ kdesc[k.by].seq = k.seq
  BY DEF KcasOn, Open
<1>2. kdesc'[k.by].entries = kdesc[k.by].entries
  BY <1>1 DEF KcasOn
<1>3. FirstWord(k)' = FirstWord(k)
  BY <1>2 DEF FirstWord
<1>4. FirstWord(k) \in Words
  BY <1>1, OpenHasEntries
<1> QED
  BY <1>1, <1>3, <1>4 DEF WordsOn

LEMMA BegunOn ==
  ASSUME KInv, KcasOn, WordsOn, NEW k \in KTags, Begun(k)
  PROVE  Begun(k)'
<1>1. Known(k)'
  BY DEF KcasOn, Begun
<1>2. ASSUME Open(k)' PROVE mem'[FirstWord(k)'] = k
  BY <1>2, OpenOn DEF Begun
<1> QED
  BY <1>1, <1>2 DEF Begun

LEMMA ComesOn ==
  ASSUME KInv, KcasOn, WordsOn, NEW k \in KTags, NEW a, Comes(k, a)
  PROVE  /\ Known(k)'
         /\ Open(k)' => a = FirstWord(k)' \/ mem'[FirstWord(k)'] = k
         /\ Comes(k, a)'
<1>1. Known(k)'
  BY DEF KcasOn, Comes
<1>2. ASSUME Open(k)' PROVE a = FirstWord(k)' \/ mem'[FirstWord(k)'] = k
  BY <1>2, OpenOn DEF Comes
<1> QED
  BY <1>1, <1>2 DEF Comes

LEMMA FrameOn ==
  ASSUME KInv, KcasOn, WordsOn, NEW f \in Frames, FrameOK(f)
  PROVE  FrameOK(f)'
<1>1. f.tag \in KTags /\ f.entries \in Seq(Entries) /\ f.i \in Nat /\ f.i > 0
  BY TagFields
<1>2. Known(f.tag) /\ Known(f.tag)'
  BY <1>1 DEF KcasOn, FrameOK
<1>3. kdesc'[f.tag.by].seq = f.tag.seq => f.entries = kdesc'[f.tag.by].entries
  BY <1>1, <1>2 DEF KcasOn, FrameOK
<1>4. ASSUME Open(f.tag)', NEW j \in 1 .. f.i - 1
      PROVE  mem'[f.entries[j].addr] = f.tag
  <2>1. Open(f.tag)
    BY <1>1, <1>2, <1>4 DEF KcasOn
  <2>2. mem[f.entries[j].addr] = f.tag
    BY <2>1 DEF FrameOK
  <2>3. f.entries[j].addr \in Words
    <3>1. Len(f.entries) \in Nat /\ f.i <= Len(f.entries) + 1
      BY <1>1, IndicesOf DEF FrameOK
    <3>2. j \in 1 .. Len(f.entries)
      BY <1>1, <3>1
    <3> QED
      BY <1>1, <3>2, IndicesOf
  <2> QED
    BY <1>1, <1>2, <1>4, <2>2, <2>3 DEF WordsOn
<1> QED
  BY <1>2, <1>3, <1>4 DEF FrameOK

(* A step leaves thread u alone: *)
Same(u) ==
  /\ pc'[u] = pc[u] /\ stack'[u] = stack[u] /\ found'[u] = found[u]
  /\ rd'[u] = rd[u] /\ cur'[u] = cur[u] /\ rdesc'[u] = rdesc[u]

(* and if it changes the word of its RDCSS, it completes this RDCSS. *)
OwnOn(u) ==
  InRdcss(u) /\ rd[u].by.by = u /\ Open(rd[u].of)' =>
    (mem[rd[u].addr] = rd[u].by =>
       mem'[rd[u].addr] = rd[u].by \/ mem'[rd[u].addr] = rd[u].of)

LEMMA OtherThread ==
  ASSUME KInv, KType', On, NEW u \in Threads, Same(u), OwnOn(u),
         kdesc'[u].entries = kdesc[u].entries, kdesc'[u].seq = kdesc[u].seq
  PROVE  ThreadOK(u)'
<1> USE DEF Same
<1>0. ThreadOK(u) /\ stack[u] \in Seq(Frames) /\ found[u] \in RTags \cup KTags \cup {NoTag}
  BY DEF KInv, KType
<1>i. /\ DOMAIN stack[u] = 1 .. Len(stack[u]) /\ Len(stack[u]) \in Nat
      /\ \A n \in DOMAIN stack[u] : stack[u][n] \in Frames
  BY <1>0, LenProperties
<1>t. stack[u] # <<>> => Top(u) \in Frames /\ Top(u)' = Top(u)
  BY <1>0, HeadTailProperties DEF Top
<1>u. stack[u] # <<>> => Top(u) = stack[u][1] /\ 1 \in DOMAIN stack[u]
  BY <1>0, <1>i, EmptySeq DEF Top
<1>1. StackOK(u)'
  <2>1. StackOK(u)
    BY <1>0 DEF ThreadOK
  <2>2. ASSUME NEW n \in DOMAIN stack[u]
        PROVE  /\ FrameOK(stack[u][n])'
               /\ n > 1 \/ pc'[u] \notin {"help", "decide", "finish"} =>
                    stack[u][n].i <= Len(stack[u][n].entries)
    <3>1. FrameOK(stack[u][n])
      BY <2>1 DEF StackOK
    <3>2. FrameOK(stack[u][n])'
      BY <1>i, <3>1, FrameOn DEF On
    <3> QED
      BY <2>1, <3>2 DEF StackOK
  <2>3. ASSUME pc[u] \in {"finish", "unlock"} PROVE ~ Open(Top(u).tag)'
    <3>1. stack[u] # <<>> /\ ~ Open(Top(u).tag)
      BY <2>1, <2>3 DEF StackOK
    <3>2. Top(u).tag \in KTags /\ Known(Top(u).tag)
      BY <1>t, <1>u, <2>1, <3>1, TagFields DEF StackOK, FrameOK
    <3> QED
      BY <1>t, <3>1, <3>2 DEF On, KcasOn
  <2>4. (\A n \in DOMAIN stack[u] :
           /\ FrameOK(stack[u][n])
           /\ n > 1 \/ pc[u] \notin {"help", "decide", "finish"} =>
                stack[u][n].i <= Len(stack[u][n].entries))'
    BY <2>2
  <2>5. /\ pc'[u] \in {"help", "prepare", "lock", "decide", "finish", "unlock"} => stack'[u] # <<>>
        /\ pc'[u] \in {"idle", "new", "read"} => stack'[u] = <<>>
        /\ pc'[u] \in {"idle", "new"} \/ cur'[u].op \in {"read", "kcas"}
        /\ stack'[u] = <<>> => pc'[u] \in {"idle", "new"} \/ cur'[u].op = "read"
    BY <2>1 DEF StackOK
  <2>6. pc'[u] = "decide" /\ Top(u)'.verdict = "succeeded" => Top(u)'.i > Len(Top(u)'.entries)
    BY <1>t, <2>1 DEF StackOK
  <2>7. pc'[u] \in {"finish", "unlock"} => ~ Open(Top(u).tag)'
    BY <2>3
  <2> QED
    BY <2>4, <2>5, <2>6, <2>7 DEF StackOK
<1>2. FoundOK(u)'
  <2>1. FoundOK(u)
    BY <1>0 DEF ThreadOK
  <2>2. found[u] \in KTags => Begun(found[u])'
    BY <2>1, BegunOn DEF FoundOK, On
  <2>3. found[u] \in RTags => KnownRdcss(found[u])'
    BY <2>1 DEF FoundOK, On, RdcssOn
  <2>4. (found[u] \in KTags => Begun(found[u]))' /\ (found[u] \in RTags => KnownRdcss(found[u]))'
    BY <2>2, <2>3
  <2> QED
    BY <2>1, <2>4 DEF FoundOK
<1>3. DescriptorsOK(u)'
  <2>1. DescriptorsOK(u)
    BY <1>0 DEF ThreadOK
  <2>2. rdesc[u].seq > 1 => Comes(rdesc[u].of, rdesc[u].addr)'
    BY <2>1, ComesOn DEF DescriptorsOK, On
  <2>3. kdesc'[u].entries = <<>> => kdesc'[u].seq = 1 \/ pc'[u] = "new"
    BY <2>1 DEF DescriptorsOK
  <2>4. (rdesc[u].seq > 1 =>
           rdesc[u].of \in KTags /\ rdesc[u].addr \in Words /\ Comes(rdesc[u].of, rdesc[u].addr))'
    BY <2>1, <2>2 DEF DescriptorsOK
  <2>5. (InRdcss(u)' \/ pc'[u] \in {"lock", "rdcssHelpOther"}) /\ stack'[u] # <<>> =>
          rdesc'[u].seq > 1 /\ rdesc'[u].of = Top(u)'.tag /\ rdesc'[u].addr = At(u)'.addr
    BY <2>1, <1>t DEF DescriptorsOK, InRdcss, At
  <2> QED
    BY <2>3, <2>4, <2>5 DEF DescriptorsOK
<1>4. RdcssOK(u)'
  <2>1. RdcssOK(u)
    BY <1>0 DEF ThreadOK
  <2>2. ASSUME rd[u] \in Rdcsses
        PROVE  /\ KnownRdcss(rd[u].by)' /\ Comes(rd[u].of, rd[u].addr)'
               /\ rd[u].new \in Vals \/ rd[u].new = rd[u].of
               /\ rd[u].by.seq = rdesc'[rd[u].by.by].seq =>
                    /\ rd[u].of = rdesc'[rd[u].by.by].of
                    /\ rd[u].addr = rdesc'[rd[u].by.by].addr
    <3>1. rd[u].by \in RTags /\ rd[u].of \in KTags
      BY <2>2, TagFields
    <3>2. KnownRdcss(rd[u].by) /\ Comes(rd[u].of, rd[u].addr)
      BY <2>1, <2>2 DEF RdcssOK
    <3>3. KnownRdcss(rd[u].by)' /\ Comes(rd[u].of, rd[u].addr)'
      BY <3>1, <3>2, ComesOn DEF On, RdcssOn
    <3>4. rd[u].by.seq = rdesc'[rd[u].by.by].seq => rdesc'[rd[u].by.by] = rdesc[rd[u].by.by]
      BY <3>1, <3>2 DEF On, RdcssOn
    <3> QED
      BY <2>1, <2>2, <3>3, <3>4 DEF RdcssOK
  <2>3. ASSUME pc[u] = "rdcssSwap", rd[u].new # rd[u].of PROVE ~ Open(rd[u].of)'
    <3>1. rd[u] \in Rdcsses /\ ~ Open(rd[u].of)
      BY <2>1, <2>3 DEF RdcssOK, InRdcss
    <3>2. rd[u].of \in KTags /\ Known(rd[u].of)
      BY <2>1, <3>1, TagFields DEF RdcssOK, Comes
    <3> QED
      BY <3>1, <3>2 DEF On, KcasOn
  <2> QED
    BY <2>1, <2>2, <2>3 DEF RdcssOK, InRdcss, KnownRdcss, Comes, Known, Open, FirstWord
<1>5. OwnRdcssOK(u)'
  <2>1. OwnRdcssOK(u)
    BY <1>0 DEF ThreadOK
  <2> SUFFICES ASSUME InRdcss(u), rd[u].by.by = u
               PROVE  /\ stack[u] # <<>> /\ rd[u].by.seq = rdesc[u].seq
                      /\ Open(rd[u].of)' =>
                           mem'[rd[u].addr] = rd[u].by \/ mem'[rd[u].addr] = rd[u].of
    BY DEF OwnRdcssOK, InRdcss, Open
  <2>2. rd[u] \in Rdcsses /\ Comes(rd[u].of, rd[u].addr)
    BY <1>0 DEF ThreadOK, RdcssOK
  <2>3. rd[u].of \in KTags /\ rd[u].addr \in Words /\ Known(rd[u].of)
    BY <2>2, TagFields DEF Comes
  <2>4. Open(rd[u].of)' => Open(rd[u].of)
    BY <2>3 DEF On, KcasOn
  <2>5. Open(rd[u].of)' /\ mem[rd[u].addr] = rd[u].of => mem'[rd[u].addr] = rd[u].of
    BY <2>3 DEF On, WordsOn
  <2> QED
    BY <2>1, <2>4, <2>5 DEF OwnRdcssOK, OwnOn
<1> QED
  BY <1>1, <1>2, <1>3, <1>4, <1>5 DEF ThreadOK

(* A word that a step leaves alone. *)
LEMMA SameWord ==
  ASSUME KInv, On, NEW a \in Words, mem'[a] = mem[a],
         mem[a] \in RTags =>
           LET t == mem[a].by
           IN InRdcss(t)' /\ rd'[t].by = rd[t].by /\ rd'[t].addr = rd[t].addr
              /\ rdesc'[t].seq = rdesc[t].seq
  PROVE  WordOK(a)'
<1>1. WordOK(a)
  BY DEF KInv
<1>2. mem[a] \in KTags => Begun(mem[a])'
  BY <1>1, BegunOn DEF WordOK, On
<1>3. (mem[a] \in KTags => Begun(mem[a]))'
  BY <1>2
<1>4. (mem[a] \in RTags =>
         LET t == mem[a].by
         IN InRdcss(t) /\ rd[t].by = mem[a] /\ rd[t].addr = a /\ mem[a].seq = rdesc[t].seq)'
  BY <1>1 DEF WordOK, InRdcss
<1> QED
  BY <1>3, <1>4 DEF WordOK

(* A step of thread t that changes no word, *)
LEMMA DescriptorStep ==
  ASSUME KInv, KType', NEW t \in Threads, UNCHANGED mem,
         \A u \in Threads \ {t} : /\ Same(u)
                                  /\ kdesc'[u].entries = kdesc[u].entries
                                  /\ kdesc'[u].seq = kdesc[u].seq,
         KcasOn, RdcssOn,
         InRdcss(t) => InRdcss(t)' /\ rd'[t].by = rd[t].by /\ rd'[t].addr = rd[t].addr
                       /\ rdesc'[t] = rdesc[t],
         On => ThreadOK(t)'
  PROVE  KInv' /\ On
<1>1. On
  BY DEF On, WordsOn
<1>2. \A u \in Threads \ {t} : ThreadOK(u)'
  BY <1>1, OtherThread DEF OwnOn
<1>3. ASSUME NEW a \in Words PROVE WordOK(a)'
  <2>1. ASSUME mem[a] \in RTags
        PROVE  LET u == mem[a].by
               IN InRdcss(u)' /\ rd'[u].by = rd[u].by /\ rd'[u].addr = rd[u].addr
                  /\ rdesc'[u].seq = rdesc[u].seq
    <3>1. WordOK(a) /\ mem[a].by \in Threads
      BY <2>1, TagFields DEF KInv
    <3>2. InRdcss(mem[a].by)
      BY <2>1, <3>1 DEF WordOK
    <3>3. CASE mem[a].by = t
      BY <3>2, <3>3
    <3>4. CASE mem[a].by # t
      BY <3>1, <3>2, <3>4 DEF Same, InRdcss
    <3> QED
      BY <3>3, <3>4
  <2> QED
    BY <1>1, <2>1, SameWord
<1> QED
  BY <1>1, <1>2, <1>3 DEF KInv

(* and no descriptor of a k-CAS either. *)
LEMMA LocalStep ==
  ASSUME KInv, KType', NEW t \in Threads, UNCHANGED <<mem, kdesc>>,
         \A u \in Threads \ {t} : Same(u),
         pc[t] = "new" <=> pc'[t] = "new", RdcssOn,
         InRdcss(t) => InRdcss(t)' /\ rd'[t].by = rd[t].by /\ rd'[t].addr = rd[t].addr
                       /\ rdesc'[t] = rdesc[t],
         On => ThreadOK(t)'
  PROVE  KInv' /\ On
<1>1. \A u \in Threads : pc[u] = "new" <=> pc'[u] = "new"
  BY DEF Same
<1>2. KcasOn
  BY <1>1, TagFields DEF KcasOn, Known, Open
<1> QED
  BY <1>2, DescriptorStep

-----------------------------------------------------------------------------
(* The innermost call of help, and the entry it is at. *)
LEMMA TopFrame ==
  ASSUME KInv, NEW t \in Threads, stack[t] # <<>>
  PROVE  /\ stack[t] \in Seq(Frames) /\ Len(stack[t]) \in Nat /\ Len(stack[t]) > 0
         /\ DOMAIN stack[t] = 1 .. Len(stack[t])
         /\ \A n \in DOMAIN stack[t] : stack[t][n] \in Frames /\ FrameOK(stack[t][n])
         /\ Top(t) = stack[t][1] /\ Top(t) \in Frames /\ FrameOK(Top(t))
         /\ Top(t).tag \in KTags /\ Known(Top(t).tag)
<1>1. stack[t] \in Seq(Frames) /\ StackOK(t)
  BY DEF KInv, KType, ThreadOK
<1>2. Len(stack[t]) \in Nat /\ DOMAIN stack[t] = 1 .. Len(stack[t])
      /\ \A n \in DOMAIN stack[t] : stack[t][n] \in Frames
  BY <1>1, LenProperties
<1>3. Len(stack[t]) > 0
  BY <1>1, <1>2, EmptySeq
<1>4. Top(t) = stack[t][1]
  BY <1>1, <1>3 DEF Top
<1>5. \A n \in DOMAIN stack[t] : FrameOK(stack[t][n])
  BY <1>1 DEF StackOK
<1>6. Top(t) \in Frames /\ FrameOK(Top(t))
  BY <1>2, <1>3, <1>4, <1>5
<1>7. Top(t).tag \in KTags /\ Known(Top(t).tag)
  BY <1>6, TagFields DEF FrameOK
<1> QED
  BY <1>1, <1>2, <1>3, <1>4, <1>5, <1>6, <1>7

LEMMA TopEntry ==
  ASSUME KInv, NEW t \in Threads, stack[t] # <<>>,
         pc[t] \notin {"help", "decide", "finish"}
  PROVE  /\ At(t) \in Entries /\ At(t).addr \in Words /\ At(t).old \in Values
         /\ At(t).new \in Values
         /\ Top(t).i \in 1 .. Len(Top(t).entries) /\ Len(Top(t).entries) \in Nat
<1>1. Top(t).entries \in Seq(Entries) /\ Top(t).i \in Nat /\ Top(t).i > 0
  BY TopFrame, TagFields
<1>2. Top(t).i <= Len(Top(t).entries)
  BY TopFrame DEF KInv, ThreadOK, StackOK
<1>3. Len(Top(t).entries) \in Nat /\ Top(t).i \in 1 .. Len(Top(t).entries)
  BY <1>1, <1>2, IndicesOf
<1>4. At(t) \in Entries
  BY <1>1, <1>3, IndicesOf DEF At
<1> QED
  BY <1>3, <1>4, TagFields

LEMMA FramesOn ==
  ASSUME KInv, On
  PROVE  \A f \in Frames : FrameOK(f) => FrameOK(f)'
BY FrameOn DEF On

LEMMA KTagsOn ==
  ASSUME KInv, On
  PROVE  \A k \in KTags : Known(k) /\ ~ Open(k) => ~ Open(k)'
BY DEF On, KcasOn

(* The parts of ThreadOK that a step of t leaves alone. *)
LEMMA RdcssKept ==
  ASSUME KInv, On, NEW t \in Threads, rd'[t] = rd[t] \/ rd'[t] = NoRdcss, ~ InRdcss(t)'
  PROVE  RdcssOK(t)' /\ OwnRdcssOK(t)'
<1>1. RdcssOK(t)
  BY DEF KInv, ThreadOK
<1>2. pc'[t] # "rdcssSwap"
  BY DEF InRdcss
<1>3. CASE rd'[t] = NoRdcss
  <2>1. ~ (rd'[t] \in Rdcsses)
    BY <1>3, Apart
  <2> QED
    BY <1>2, <2>1 DEF RdcssOK, OwnRdcssOK
<1>4. CASE rd'[t] = rd[t]
  <2>1. ASSUME rd[t] \in Rdcsses
        PROVE  /\ KnownRdcss(rd[t].by)' /\ Comes(rd[t].of, rd[t].addr)'
               /\ rd[t].new \in Vals \/ rd[t].new = rd[t].of
               /\ rd[t].by.seq = rdesc'[rd[t].by.by].seq =>
                    /\ rd[t].of = rdesc'[rd[t].by.by].of
                    /\ rd[t].addr = rdesc'[rd[t].by.by].addr
    <3>1. rd[t].by \in RTags /\ rd[t].of \in KTags
      BY <2>1, TagFields
    <3>2. KnownRdcss(rd[t].by) /\ Comes(rd[t].of, rd[t].addr)
      BY <1>1, <2>1 DEF RdcssOK
    <3>3. KnownRdcss(rd[t].by)' /\ Comes(rd[t].of, rd[t].addr)'
      BY <1>4, <3>1, <3>2, ComesOn DEF On, RdcssOn
    <3>4. rd[t].by.seq = rdesc'[rd[t].by.by].seq => rdesc'[rd[t].by.by] = rdesc[rd[t].by.by]
      BY <3>1, <3>2 DEF On, RdcssOn
    <3> QED
      BY <1>1, <2>1, <3>3, <3>4 DEF RdcssOK
  <2>2. (rd[t] \in Rdcsses =>
           LET r == rd[t]
           IN /\ KnownRdcss(r.by) /\ Comes(r.of, r.addr)
              /\ r.new \in Vals \/ r.new = r.of
              /\ r.by.seq = rdesc[r.by.by].seq =>
                   r.of = rdesc[r.by.by].of /\ r.addr = rdesc[r.by.by].addr)'
    BY <1>4, <2>1
  <2> QED
    BY <1>2, <2>2 DEF RdcssOK, OwnRdcssOK
<1> QED
  BY <1>3, <1>4

LEMMA FoundKept ==
  ASSUME KInv, On, NEW t \in Threads, found'[t] = found[t] \/ found'[t] = NoTag,
         pc'[t] \notin {"helpOther", "rdcssHelpOther"}
  PROVE  FoundOK(t)'
<1>1. FoundOK(t)
  BY DEF KInv, ThreadOK
<1>2. CASE found'[t] = NoTag
  BY <1>2, Apart DEF FoundOK
<1>3. CASE found'[t] = found[t]
  <2>1. (found[t] \in KTags => Begun(found[t]))'
    BY <1>1, <1>3, BegunOn DEF FoundOK, On
  <2>2. (found[t] \in RTags => KnownRdcss(found[t]))'
    BY <1>1, <1>3 DEF FoundOK, On, RdcssOn
  <2> QED
    BY <2>1, <2>2 DEF FoundOK
<1> QED
  BY <1>2, <1>3

LEMMA FoundInWord ==
  ASSUME KInv, On, NEW t \in Threads, NEW a \in Words, found'[t] = mem[a],
         pc[t] \in {"read", "lock"}, mem[a].is # "value",
         pc'[t] = IF mem[a].is = "rdcss" THEN "rdcssHelpOther" ELSE "helpOther"
  PROVE  FoundOK(t)' /\ found'[t] \in RTags \cup KTags
<1>1. WordOK(a) /\ mem[a] \in Vals \cup RTags \cup KTags
  BY DEF KInv, KType
<1>2. mem[a] \in RTags \/ mem[a] \in KTags
  BY <1>1, WordKinds
<1>3. CASE mem[a] \in RTags
  <2>1. pc'[t] = "rdcssHelpOther"
    BY <1>1, <1>3, WordKinds
  <2>2. KnownRdcss(mem[a]) /\ mem[a].by # t
    <3>1. mem[a].seq = rdesc[mem[a].by].seq /\ InRdcss(mem[a].by)
      BY <1>1, <1>3 DEF WordOK
    <3> QED
      BY <1>3, <3>1, TagFields DEF KnownRdcss, InRdcss
  <2>3. KnownRdcss(found[t])'
    BY <1>3, <2>2 DEF On, RdcssOn
  <2> QED
    BY <1>3, <2>1, <2>2, <2>3, Apart DEF FoundOK
<1>4. CASE mem[a] \in KTags
  <2>1. pc'[t] = "helpOther"
    BY <1>1, <1>4, WordKinds
  <2>2. Begun(mem[a])
    BY <1>1, <1>4 DEF WordOK
  <2>3. Begun(found[t])'
    BY <1>4, <2>2, BegunOn DEF On
  <2> QED
    BY <1>4, <2>1, <2>3, Apart DEF FoundOK
<1> QED
  BY <1>2, <1>3, <1>4

LEMMA DescriptorsKept ==
  ASSUME KInv, On, NEW t \in Threads, rdesc'[t] = rdesc[t],
         kdesc'[t].entries = kdesc[t].entries, kdesc'[t].seq = kdesc[t].seq,
         pc[t] = "new" => pc'[t] = "new",
         \/ pc'[t] \notin {"lock", "rdcssHelpOther", "rdcssHelp", "rdcssSwap"}
         \/ stack'[t] = <<>>
         \/ /\ pc[t] \in {"lock", "rdcssHelpOther", "rdcssHelp", "rdcssSwap"}
            /\ stack'[t] = stack[t]
  PROVE  DescriptorsOK(t)'
<1>1. DescriptorsOK(t)
  BY DEF KInv, ThreadOK
<1>2. (rdesc[t].seq > 1 =>
         rdesc[t].of \in KTags /\ rdesc[t].addr \in Words /\ Comes(rdesc[t].of, rdesc[t].addr))'
  BY <1>1, ComesOn DEF DescriptorsOK, On
<1>3. kdesc'[t].entries = <<>> => kdesc'[t].seq = 1 \/ pc'[t] = "new"
  BY <1>1 DEF DescriptorsOK
<1>4. ((InRdcss(t) \/ pc[t] \in {"lock", "rdcssHelpOther"}) /\ stack[t] # <<>> =>
         rdesc[t].seq > 1 /\ rdesc[t].of = Top(t).tag /\ rdesc[t].addr = At(t).addr)'
  BY <1>1 DEF DescriptorsOK, InRdcss, At, Top
<1> QED
  BY <1>2, <1>3, <1>4 DEF DescriptorsOK

-----------------------------------------------------------------------------
(* The return of help. *)
LEMMA HelpReturnsType ==
  ASSUME KInv, NEW t \in Threads, NEW r, stack[t] # <<>>, HelpReturns(t, r)
  PROVE  /\ pc' \in [Threads -> KPlaces] /\ stack' \in [Threads -> Seq(Frames)]
         /\ found' \in [Threads -> RTags \cup KTags \cup {NoTag}]
         /\ DOMAIN cur' = Threads
         /\ \A u \in Threads : cur'[u].op = "read" => cur'[u].addr \in Words
         /\ \A u \in Threads \ {t} : /\ pc'[u] = pc[u] /\ stack'[u] = stack[u]
                                     /\ found'[u] = found[u] /\ cur'[u] = cur[u]
         /\ pc'[t] \in {"idle", "read", "prepare"} /\ found'[t] = NoTag
         /\ stack'[t] = <<>> \/ (pc'[t] = "prepare" /\ stack'[t] = Tail(stack[t]))
         /\ pc'[t] = "prepare" => stack'[t] # <<>>
         /\ pc'[t] = "idle" \/ cur'[t] = cur[t]
         /\ pc'[t] = "read" => cur[t].op # "kcas"
<1>1. <<>> \in Seq(Frames) /\ Tail(stack[t]) \in Seq(Frames)
  BY TopFrame, EmptySeq, HeadTailProperties
<1>2. /\ pc \in [Threads -> KPlaces] /\ stack \in [Threads -> Seq(Frames)]
      /\ found \in [Threads -> RTags \cup KTags \cup {NoTag}] /\ DOMAIN cur = Threads
      /\ \A u \in Threads : cur[u].op = "read" => cur[u].addr \in Words
  BY DEF KInv, KType
<1>3. Abstract!Idle.op # "read"
  BY DEF Abstract!Idle
<1>4. CASE Tail(stack[t]) = <<>> /\ cur[t].op = "kcas"
  <2>1. Return(t, r)
    BY <1>4 DEF HelpReturns
  <2>2. /\ pc' = [pc EXCEPT ![t] = "idle"] /\ stack' = [stack EXCEPT ![t] = <<>>]
        /\ found' = [found EXCEPT ![t] = NoTag] /\ cur' = [cur EXCEPT ![t] = Abstract!Idle]
    BY <2>1 DEF Return, Goto
  <2>3. /\ cur'[t].op # "read" /\ DOMAIN cur' = Threads
        /\ \A u \in Threads \ {t} : cur'[u] = cur[u]
    BY <1>2, <1>3, <2>2
  <2>4. \A u \in Threads : cur'[u].op = "read" => cur'[u].addr \in Words
    BY <1>2, <2>3
  <2>5. /\ pc' \in [Threads -> KPlaces] /\ pc'[t] = "idle"
        /\ \A u \in Threads \ {t} : pc'[u] = pc[u]
    BY <1>2, <2>2 DEF KPlaces
  <2>6. /\ stack' \in [Threads -> Seq(Frames)] /\ stack'[t] = <<>>
        /\ \A u \in Threads \ {t} : stack'[u] = stack[u]
    BY <1>1, <1>2, <2>2
  <2>7. /\ found' \in [Threads -> RTags \cup KTags \cup {NoTag}] /\ found'[t] = NoTag
        /\ \A u \in Threads \ {t} : found'[u] = found[u]
    BY <1>2, <2>2
  <2>8. pc'[t] # "prepare" /\ pc'[t] # "read" /\ pc'[t] \in {"idle", "read", "prepare"}
    BY <2>5
  <2>9. \A u \in Threads \ {t} : /\ pc'[u] = pc[u] /\ stack'[u] = stack[u]
                                  /\ found'[u] = found[u] /\ cur'[u] = cur[u]
    BY <2>3, <2>5, <2>6, <2>7
  <2>10. /\ stack'[t] = <<>> \/ (pc'[t] = "prepare" /\ stack'[t] = Tail(stack[t]))
         /\ pc'[t] = "prepare" => stack'[t] # <<>>
         /\ pc'[t] = "idle" \/ cur'[t] = cur[t]
         /\ pc'[t] = "read" => cur[t].op # "kcas"
    BY <2>5, <2>6, <2>8, Zenon
  <2> QED
    BY <2>3, <2>4, <2>5, <2>6, <2>7, <2>8, <2>9, <2>10, Zenon
<1>5. CASE ~ (Tail(stack[t]) = <<>> /\ cur[t].op = "kcas")
  <2>1. /\ pc' = [pc EXCEPT ![t] = IF Tail(stack[t]) = <<>> THEN "read" ELSE "prepare"]
        /\ stack' = [stack EXCEPT ![t] = Tail(stack[t])]
        /\ found' = [found EXCEPT ![t] = NoTag] /\ cur' = cur
    BY <1>5 DEF HelpReturns, Goto, opVars
  <2> QED
    BY <1>1, <1>2, <1>5, <2>1 DEF KPlaces
<1> QED
  BY <1>4, <1>5

LEMMA HelpReturnsOK ==
  ASSUME KInv, On, NEW t \in Threads, NEW r, stack[t] # <<>>, HelpReturns(t, r),
         pc[t] \in {"help", "finish", "unlock"},
         rd'[t] = rd[t], rdesc'[t] = rdesc[t], kdesc'[t] = kdesc[t]
  PROVE  ThreadOK(t)'
<1>1. StackOK(t)
  BY DEF KInv, ThreadOK
<1>2. /\ pc'[t] \in {"idle", "read", "prepare"} /\ found'[t] = NoTag
      /\ stack'[t] = <<>> \/ (pc'[t] = "prepare" /\ stack'[t] = Tail(stack[t]))
      /\ pc'[t] = "prepare" => stack'[t] # <<>>
      /\ pc'[t] = "idle" \/ cur'[t] = cur[t]
      /\ pc'[t] = "read" => cur[t].op # "kcas"
  BY HelpReturnsType
<1>3. cur[t].op \in {"read", "kcas"}
  BY <1>1 DEF StackOK
<1>4. (\A n \in DOMAIN stack[t] :
         /\ FrameOK(stack[t][n])
         /\ n > 1 \/ pc[t] \notin {"help", "decide", "finish"} =>
              stack[t][n].i <= Len(stack[t][n].entries))'
  <2>1. CASE stack'[t] = <<>>
    BY <2>1
  <2>2. CASE stack'[t] = Tail(stack[t])
    <3> SUFFICES ASSUME NEW n \in DOMAIN stack'[t]
                 PROVE  /\ FrameOK(stack[t][n])'
                        /\ stack'[t][n].i <= Len(stack'[t][n].entries)
      OBVIOUS
    <3>1. Tail(stack[t]) \in Seq(Frames) /\ Len(Tail(stack[t])) = Len(stack[t]) - 1
          /\ \A m \in 1 .. Len(Tail(stack[t])) : Tail(stack[t])[m] = stack[t][m + 1]
      BY TopFrame, HeadTailProperties
    <3>2. n \in 1 .. Len(Tail(stack[t])) /\ n \in Nat
      BY <2>2, <3>1, LenProperties
    <3>3. n + 1 \in DOMAIN stack[t] /\ stack'[t][n] = stack[t][n + 1] /\ n + 1 > 1
      BY <2>2, <3>1, <3>2, TopFrame
    <3>4. PICK f \in Frames : f = stack[t][n + 1]
      BY <3>3, TopFrame
    <3>5. FrameOK(f) /\ f.i <= Len(f.entries)
      BY <1>1, <3>3, <3>4 DEF StackOK
    <3>6. FrameOK(f)'
      BY <3>5, FramesOn
    <3> QED
      BY <3>3, <3>4, <3>5, <3>6
  <2> QED
    BY <1>2, <2>1, <2>2
<1>5. StackOK(t)'
  BY <1>2, <1>3, <1>4 DEF StackOK
<1>6. FoundOK(t)'
  BY <1>2, FoundKept
<1>7. DescriptorsOK(t)'
  BY <1>2, DescriptorsKept
<1>8. RdcssOK(t)' /\ OwnRdcssOK(t)'
  BY <1>2, RdcssKept DEF InRdcss
<1> QED
  BY <1>5, <1>6, <1>7, <1>8 DEF ThreadOK

(* Thread t is elsewhere, with the same calls of help. *)
LEMMA StackKept ==
  ASSUME KInv, On, NEW t \in Threads, stack'[t] = stack[t], cur'[t] = cur[t],
         pc[t] \notin {"idle", "new"},
         pc'[t] \notin {"help", "decide", "finish"} =>
           pc[t] \notin {"help", "decide", "finish"} \/ Top(t).i <= Len(Top(t).entries),
         pc'[t] \in {"help", "prepare", "lock", "decide", "finish", "unlock"} => stack[t] # <<>>,
         pc'[t] \in {"idle", "new", "read"} => stack[t] = <<>>,
         pc'[t] \in {"finish", "unlock"} => ~ Open(Top(t).tag)',
         pc'[t] = "decide" => Top(t).i > Len(Top(t).entries)
  PROVE  StackOK(t)'
<1>1. StackOK(t) /\ stack[t] \in Seq(Frames)
  BY DEF KInv, ThreadOK, KType
<1>2. Top(t)' = Top(t)
  BY DEF Top
<1>3. (\A n \in DOMAIN stack[t] :
         /\ FrameOK(stack[t][n])
         /\ n > 1 \/ pc[t] \notin {"help", "decide", "finish"} =>
              stack[t][n].i <= Len(stack[t][n].entries))'
  <2> SUFFICES ASSUME NEW n \in DOMAIN stack'[t]
               PROVE  /\ FrameOK(stack[t][n])'
                      /\ n > 1 \/ pc'[t] \notin {"help", "decide", "finish"} =>
                           stack'[t][n].i <= Len(stack'[t][n].entries)
    OBVIOUS
  <2>1. stack[t] # <<>>
    BY EmptySeq
  <2>2. PICK f \in Frames : f = stack[t][n] /\ (n = 1 => f = Top(t)) /\ n \in Nat /\ n > 0
    BY <2>1, TopFrame
  <2>3. FrameOK(f)
    BY <1>1, <2>2 DEF StackOK
  <2>4. FrameOK(f)'
    BY <2>3, FramesOn
  <2> QED
    BY <1>1, <2>2, <2>4 DEF StackOK
<1> QED
  BY <1>1, <1>2, <1>3 DEF StackOK

-----------------------------------------------------------------------------
(* The actions that change no word and no descriptor of a k-CAS. *)
LEMMA ReadCallKeeps ==
  ASSUME KInv, NEW t \in Threads, NEW a \in Words, ReadCall(t, a)
  PROVE  KInv' /\ On
<1>1. /\ pc[t] = "idle" /\ pc' = [pc EXCEPT ![t] = "read"]
      /\ cur' = [cur EXCEPT ![t] = [op |-> "read", addr |-> a]]
      /\ UNCHANGED <<mem, kdesc, rdesc, stack, found, rd>>
  BY DEF ReadCall, Called, Goto
<1>2. pc \in [Threads -> KPlaces] /\ DOMAIN cur = Threads
  BY DEF KInv, KType
<1>3. pc' \in [Threads -> KPlaces] /\ pc'[t] = "read" /\ cur'[t] = [op |-> "read", addr |-> a]
      /\ DOMAIN cur' = Threads
  BY <1>1, <1>2 DEF KPlaces
<1>4. \A u \in Threads \ {t} : Same(u)
  BY <1>1, <1>2 DEF Same
<1>5. KType'
  BY <1>1, <1>3, <1>4 DEF KInv, KType, Same
<1>6. ASSUME On PROVE ThreadOK(t)'
  <2>1. StackOK(t)
    BY DEF KInv, ThreadOK
  <2>2. stack'[t] = <<>>
    BY <1>1, <2>1 DEF StackOK
  <2>3. StackOK(t)'
    BY <1>3, <2>2 DEF StackOK
  <2>4. FoundOK(t)'
    BY <1>1, <1>3, <1>6, FoundKept
  <2>5. DescriptorsOK(t)'
    BY <1>1, <1>3, <1>6, DescriptorsKept
  <2>6. RdcssOK(t)' /\ OwnRdcssOK(t)'
    BY <1>1, <1>3, <1>6, RdcssKept DEF InRdcss
  <2> QED
    BY <2>3, <2>4, <2>5, <2>6 DEF ThreadOK
<1>7. RdcssOn
  BY <1>1 DEF RdcssOn, KnownRdcss
<1> QED
  BY <1>1, <1>3, <1>4, <1>5, <1>6, <1>7, LocalStep DEF InRdcss

LEMMA ReadKeeps ==
  ASSUME KInv, NEW t \in Threads, Read(t)
  PROVE  KInv' /\ On
<1> DEFINE a == cur[t].addr
<1>1. pc[t] = "read" /\ UNCHANGED <<mem, kdesc, rdesc, rd>>
  BY DEF Read
<1>2. StackOK(t)
  BY DEF KInv, ThreadOK
<1>3. stack[t] = <<>> /\ cur[t].op = "read" /\ a \in Words
  <2>1. stack[t] = <<>> /\ cur[t].op = "read"
    BY <1>1, <1>2 DEF StackOK
  <2> QED
    BY <2>1 DEF KInv, KType
<1>4. /\ pc \in [Threads -> KPlaces] /\ stack \in [Threads -> Seq(Frames)]
      /\ found \in [Threads -> RTags \cup KTags \cup {NoTag}] /\ DOMAIN cur = Threads
      /\ \A u \in Threads : cur[u].op = "read" => cur[u].addr \in Words
      /\ mem[a] \in Vals \cup RTags \cup KTags
  BY <1>3 DEF KInv, KType
<1>5. RdcssOn
  BY <1>1 DEF RdcssOn, KnownRdcss
<1>6. CASE Return(t, mem[a].val)
  <2>1. /\ pc' = [pc EXCEPT ![t] = "idle"] /\ stack' = [stack EXCEPT ![t] = <<>>]
        /\ found' = [found EXCEPT ![t] = NoTag] /\ cur' = [cur EXCEPT ![t] = Abstract!Idle]
    BY <1>6 DEF Return, Goto
  <2>2. /\ pc'[t] = "idle" /\ stack'[t] = <<>> /\ found'[t] = NoTag
        /\ cur'[t].op # "read" /\ DOMAIN cur' = Threads
    BY <1>4, <2>1 DEF Abstract!Idle
  <2>3. \A u \in Threads \ {t} : Same(u)
    BY <1>1, <1>4, <2>1 DEF Same
  <2>4. KType'
    <3>1. \A u \in Threads : cur'[u].op = "read" => cur'[u].addr \in Words
      BY <1>4, <2>2, <2>3 DEF Same
    <3>2. pc' \in [Threads -> KPlaces]
      BY <1>4, <2>1 DEF KPlaces
    <3>3. stack' \in [Threads -> Seq(Frames)]
      BY <1>4, <2>1, EmptySeq
    <3>4. found' \in [Threads -> RTags \cup KTags \cup {NoTag}]
      BY <1>4, <2>1
    <3> QED
      BY <1>1, <2>2, <3>1, <3>2, <3>3, <3>4 DEF KInv, KType
  <2>5. ASSUME On PROVE ThreadOK(t)'
    <3>1. StackOK(t)'
      BY <2>2 DEF StackOK
    <3>2. FoundOK(t)'
      BY <2>2, <2>5, FoundKept
    <3>3. DescriptorsOK(t)'
      BY <1>1, <2>2, <2>5, DescriptorsKept
    <3>4. RdcssOK(t)' /\ OwnRdcssOK(t)'
      BY <1>1, <2>2, <2>5, RdcssKept DEF InRdcss
    <3> QED
      BY <3>1, <3>2, <3>3, <3>4 DEF ThreadOK
  <2> QED
    BY <1>1, <1>5, <2>2, <2>3, <2>4, <2>5, LocalStep DEF InRdcss
<1>7. CASE /\ mem[a].is # "value"
           /\ found' = [found EXCEPT ![t] = mem[a]]
           /\ Goto(t, IF mem[a].is = "rdcss" THEN "rdcssHelpOther" ELSE "helpOther")
           /\ UNCHANGED <<stack, opVars>>
  <2>1. /\ pc' = [pc EXCEPT ![t] = IF mem[a].is = "rdcss" THEN "rdcssHelpOther" ELSE "helpOther"]
        /\ found' = [found EXCEPT ![t] = mem[a]] /\ UNCHANGED <<stack, cur>>
    BY <1>7 DEF Goto, opVars
  <2>2. /\ pc'[t] = IF mem[a].is = "rdcss" THEN "rdcssHelpOther" ELSE "helpOther"
        /\ found'[t] = mem[a] /\ pc'[t] \in {"rdcssHelpOther", "helpOther"}
    BY <1>4, <2>1
  <2>3. \A u \in Threads \ {t} : Same(u)
    BY <1>1, <1>4, <2>1 DEF Same
  <2>4. KType'
    <3>1. pc' \in [Threads -> KPlaces]
      BY <1>4, <2>1 DEF KPlaces
    <3>2. mem[a] \in RTags \cup KTags
      BY <1>4, <1>7, WordKinds
    <3>3. found' \in [Threads -> RTags \cup KTags \cup {NoTag}]
      BY <1>4, <2>1, <3>2
    <3> QED
      BY <1>1, <2>1, <3>1, <3>3 DEF KInv, KType
  <2>5. ASSUME On PROVE ThreadOK(t)'
    <3>1. StackOK(t)'
      BY <1>1, <1>3, <2>1, <2>2, <2>5, StackKept
    <3>2. FoundOK(t)'
      BY <1>1, <1>3, <1>7, <2>2, <2>5, FoundInWord
    <3>3. DescriptorsOK(t)'
      BY <1>1, <1>3, <2>1, <2>2, <2>5, DescriptorsKept
    <3>4. RdcssOK(t)' /\ OwnRdcssOK(t)'
      BY <1>1, <2>2, <2>5, RdcssKept DEF InRdcss
    <3> QED
      BY <3>1, <3>2, <3>3, <3>4 DEF ThreadOK
  <2> QED
    BY <1>1, <1>5, <2>2, <2>3, <2>4, <2>5, LocalStep DEF InRdcss
<1> QED
  BY <1>6, <1>7 DEF Read

LEMMA StackPushed ==
  ASSUME KInv, On, NEW t \in Threads, NEW f \in Frames, FrameOK(f)',
         stack'[t] = <<f>> \o stack[t], cur'[t] = cur[t],
         pc[t] \notin {"idle", "new", "help", "decide", "finish"}, pc'[t] = "help"
  PROVE  StackOK(t)' /\ stack'[t] \in Seq(Frames) /\ stack'[t] # <<>>
<1>1. StackOK(t) /\ stack[t] \in Seq(Frames)
  BY DEF KInv, ThreadOK, KType
<1>2. <<f>> \in Seq(Frames) /\ Len(<<f>>) = 1 /\ <<f>>[1] = f
  OBVIOUS
<1>3. /\ stack'[t] \in Seq(Frames) /\ Len(stack'[t]) = 1 + Len(stack[t])
      /\ \A n \in 1 .. Len(stack'[t]) :
           stack'[t][n] = IF n <= 1 THEN f ELSE stack[t][n - 1]
  <2>1. <<f>> \o stack[t] \in Seq(Frames) /\ Len(<<f>> \o stack[t]) = 1 + Len(stack[t])
        /\ \A n \in 1 .. 1 + Len(stack[t]) :
             (<<f>> \o stack[t])[n] = IF n <= 1 THEN <<f>>[n] ELSE stack[t][n - 1]
    BY <1>1, <1>2, ConcatProperties
  <2>2. Len(stack[t]) \in Nat
    BY <1>1, LenProperties
  <2> QED
    BY <1>2, <2>1, <2>2
<1>4. Len(stack[t]) \in Nat /\ DOMAIN stack[t] = 1 .. Len(stack[t])
      /\ \A n \in DOMAIN stack[t] : stack[t][n] \in Frames
      /\ DOMAIN stack'[t] = 1 .. Len(stack'[t])
  BY <1>1, <1>3, LenProperties
<1>5. stack'[t] # <<>>
  BY <1>3, <1>4, EmptySeq
<1>6. (\A n \in DOMAIN stack[t] :
         /\ FrameOK(stack[t][n])
         /\ n > 1 \/ pc[t] \notin {"help", "decide", "finish"} =>
              stack[t][n].i <= Len(stack[t][n].entries))'
  <2> SUFFICES ASSUME NEW n \in DOMAIN stack'[t]
               PROVE  /\ FrameOK(stack[t][n])'
                      /\ n > 1 => stack'[t][n].i <= Len(stack'[t][n].entries)
    OBVIOUS
  <2>1. CASE n = 1
    BY <1>3, <1>4, <2>1
  <2>2. CASE n # 1
    <3>1. n - 1 \in DOMAIN stack[t] /\ stack'[t][n] = stack[t][n - 1]
      BY <1>3, <1>4, <2>2
    <3>2. PICK g \in Frames : g = stack[t][n - 1]
      BY <1>4, <3>1
    <3>3. FrameOK(g) /\ g.i <= Len(g.entries)
      BY <1>1, <3>1, <3>2 DEF StackOK
    <3>4. FrameOK(g)'
      BY <3>3, FramesOn
    <3> QED
      BY <3>1, <3>2, <3>3, <3>4
  <2> QED
    BY <2>1, <2>2
<1>7. StackOK(t)'
  BY <1>1, <1>5, <1>6 DEF StackOK
<1> QED
  BY <1>3, <1>5, <1>7

LEMMA HelpOtherKeeps ==
  ASSUME KInv, NEW t \in Threads, HelpOther(t)
  PROVE  KInv' /\ On
<1> DEFINE k == kdesc[found[t].by]
           f == Frame(found[t], k.entries, 2)
<1>1. pc[t] = "helpOther" /\ UNCHANGED <<mem, kdesc, rdesc, rd, cur>>
  BY DEF HelpOther, opVars
<1>2. StackOK(t) /\ FoundOK(t)
  BY DEF KInv, ThreadOK
<1>3. /\ pc \in [Threads -> KPlaces] /\ stack \in [Threads -> Seq(Frames)]
      /\ found \in [Threads -> RTags \cup KTags \cup {NoTag}]
  BY DEF KInv, KType
<1>4. found[t] \in KTags /\ Begun(found[t]) /\ Known(found[t])
  BY <1>1, <1>2 DEF FoundOK, Begun
<1>5. RdcssOn
  BY <1>1 DEF RdcssOn, KnownRdcss
<1>6. CASE /\ k.seq = found[t].seq
           /\ stack' = [stack EXCEPT ![t] = <<f>> \o @]
           /\ Goto(t, "help")
           /\ UNCHANGED found
  <2>1. /\ pc' = [pc EXCEPT ![t] = "help"] /\ found' = found
        /\ stack' = [stack EXCEPT ![t] = <<f>> \o stack[t]]
    BY <1>6 DEF Goto
  <2>2. pc'[t] = "help" /\ stack'[t] = <<f>> \o stack[t]
    BY <1>3, <2>1
  <2>3. \A u \in Threads \ {t} : Same(u)
    BY <1>1, <1>3, <2>1 DEF Same
  <2>4. /\ k.entries # <<>> /\ k.entries \in Seq(Entries) /\ FirstWord(found[t]) \in Words
        /\ Len(k.entries) \in Nat /\ Len(k.entries) > 0
    BY <1>4, <1>6, OpenHasEntries, IndicesOf
  <2>5. f \in Frames /\ f.tag = found[t] /\ f.entries = k.entries /\ f.i = 2
    BY <1>4, <2>4 DEF Frame, Frames
  <2>6. FrameOK(f)
    <3>1. ASSUME Open(found[t]) PROVE mem[k.entries[1].addr] = found[t]
      BY <1>4, <3>1 DEF Begun, FirstWord
    <3>2. \A j \in 1 .. f.i - 1 : j = 1
      BY <2>5
    <3>3. Open(f.tag) => \A j \in 1 .. f.i - 1 : mem[f.entries[j].addr] = f.tag
      BY <2>5, <3>1, <3>2
    <3>4. f.i <= Len(f.entries) + 1
      BY <2>4, <2>5
    <3>5. Known(f.tag) /\ (kdesc[f.tag.by].seq = f.tag.seq => f.entries = kdesc[f.tag.by].entries)
      BY <1>4, <2>5
    <3> HIDE DEF f
    <3> QED
      BY <3>3, <3>4, <3>5 DEF FrameOK
  <2>7. PICK g \in Frames : g = f
    BY <2>5
  <2>8. KType'
    <3>1. pc' \in [Threads -> KPlaces]
      BY <1>3, <2>1 DEF KPlaces
    <3>2. <<f>> \o stack[t] \in Seq(Frames)
      <4>1. <<g>> \in Seq(Frames) /\ stack[t] \in Seq(Frames)
        BY <1>3
      <4> QED
        BY <2>7, <4>1, ConcatProperties
    <3>3. stack' \in [Threads -> Seq(Frames)]
      BY <1>3, <2>1, <3>2
    <3> QED
      BY <1>1, <2>1, <3>1, <3>3 DEF KInv, KType
  <2>9. ASSUME On PROVE ThreadOK(t)'
    <3>1. FrameOK(g)'
      BY <2>6, <2>7, <2>9, FramesOn
    <3>2. StackOK(t)'
      <4>1. stack'[t] = <<g>> \o stack[t] /\ cur'[t] = cur[t]
        BY <1>1, <2>2, <2>7
      <4> QED
        BY <1>1, <2>2, <2>9, <3>1, <4>1, StackPushed
    <3>3. FoundOK(t)'
      BY <2>1, <2>2, <2>9, FoundKept
    <3>4. DescriptorsOK(t)'
      BY <1>1, <2>2, <2>9, DescriptorsKept
    <3>5. RdcssOK(t)' /\ OwnRdcssOK(t)'
      BY <1>1, <2>2, <2>9, RdcssKept DEF InRdcss
    <3> QED
      BY <3>2, <3>3, <3>4, <3>5 DEF ThreadOK
  <2> QED
    BY <1>1, <1>5, <2>2, <2>3, <2>8, <2>9, LocalStep DEF InRdcss
<1>7. CASE /\ Goto(t, IF stack[t] = <<>> THEN "read" ELSE "prepare")
           /\ found' = [found EXCEPT ![t] = NoTag]
           /\ UNCHANGED stack
  <2>1. /\ pc' = [pc EXCEPT ![t] = IF stack[t] = <<>> THEN "read" ELSE "prepare"]
        /\ found' = [found EXCEPT ![t] = NoTag] /\ stack' = stack
    BY <1>7 DEF Goto
  <2>2. /\ pc'[t] = (IF stack[t] = <<>> THEN "read" ELSE "prepare")
        /\ found'[t] = NoTag /\ stack'[t] = stack[t] /\ pc'[t] \in {"read", "prepare"}
    BY <1>3, <2>1
  <2>3. \A u \in Threads \ {t} : Same(u)
    BY <1>1, <1>3, <2>1 DEF Same
  <2>4. KType'
    <3>1. pc' \in [Threads -> KPlaces]
      BY <1>3, <2>1 DEF KPlaces
    <3>2. found' \in [Threads -> RTags \cup KTags \cup {NoTag}]
      BY <1>3, <2>1
    <3> QED
      BY <1>1, <2>1, <3>1, <3>2 DEF KInv, KType
  <2>5. ASSUME On PROVE ThreadOK(t)'
    <3>1. StackOK(t)'
      BY <1>1, <2>2, <2>5, StackKept
    <3>2. FoundOK(t)'
      BY <2>2, <2>5, FoundKept
    <3>3. DescriptorsOK(t)'
      BY <1>1, <2>2, <2>5, DescriptorsKept
    <3>4. RdcssOK(t)' /\ OwnRdcssOK(t)'
      BY <1>1, <2>2, <2>5, RdcssKept DEF InRdcss
    <3> QED
      BY <3>1, <3>2, <3>3, <3>4 DEF ThreadOK
  <2> QED
    BY <1>1, <1>5, <2>2, <2>3, <2>4, <2>5, LocalStep DEF InRdcss
<1> QED
  BY <1>6, <1>7 DEF HelpOther

LEMMA HelpKeeps ==
  ASSUME KInv, NEW t \in Threads, Help(t)
  PROVE  KInv' /\ On
<1> DEFINE k == kdesc[Top(t).tag.by]
           next == IF k.state # "undecided" THEN "finish"
                   ELSE IF Top(t).i <= Len(Top(t).entries) THEN "prepare" ELSE "decide"
<1>1. pc[t] = "help" /\ UNCHANGED <<mem, kdesc, rdesc, rd>>
  BY DEF Help
<1>2. stack[t] # <<>>
  BY <1>1 DEF KInv, ThreadOK, StackOK
<1>3. pc \in [Threads -> KPlaces]
  BY DEF KInv, KType
<1>4. RdcssOn
  BY <1>1 DEF RdcssOn, KnownRdcss
<1>5. CASE HelpReturns(t, Abstract!Failed)
  <2>1. /\ \A u \in Threads \ {t} : Same(u)
        /\ pc'[t] \in {"idle", "read", "prepare"}
    BY <1>1, <1>2, <1>5, HelpReturnsType DEF Same
  <2>2. KType'
    BY <1>1, <1>2, <1>5, HelpReturnsType DEF KInv, KType
  <2>3. ASSUME On PROVE ThreadOK(t)'
    BY <1>1, <1>2, <1>5, <2>3, HelpReturnsOK
  <2> QED
    BY <1>1, <1>4, <2>1, <2>2, <2>3, LocalStep DEF InRdcss
<1>6. CASE k.seq = Top(t).tag.seq /\ Goto(t, next) /\ UNCHANGED <<stack, found, opVars>>
  <2>1. pc' = [pc EXCEPT ![t] = next] /\ UNCHANGED <<stack, found, cur>>
    BY <1>6 DEF Goto, opVars
  <2>2. pc'[t] = next /\ next \in {"finish", "prepare", "decide"}
    BY <1>3, <2>1
  <2>3. \A u \in Threads \ {t} : Same(u)
    BY <1>1, <1>3, <2>1 DEF Same
  <2>4. KType'
    <3>1. pc' \in [Threads -> KPlaces]
      BY <1>3, <2>1, <2>2 DEF KPlaces
    <3> QED
      BY <1>1, <2>1, <3>1 DEF KInv, KType
  <2>5. ASSUME On PROVE ThreadOK(t)'
    <3>1. pc'[t] = "finish" => ~ Open(Top(t).tag)'
      <4>1. pc'[t] = "finish" => ~ Open(Top(t).tag)
        BY <2>2 DEF Open
      <4> QED
        BY <1>1, <2>1, <4>1 DEF Open, Top
    <3>2. Top(t).i \in Nat /\ Len(Top(t).entries) \in Nat
      BY <1>2, TopFrame, TagFields, IndicesOf
    <3>3. /\ pc'[t] = "decide" => Top(t).i > Len(Top(t).entries)
          /\ pc'[t] = "prepare" => Top(t).i <= Len(Top(t).entries)
      BY <2>2, <3>2
    <3>4. StackOK(t)'
      BY <1>1, <1>2, <2>1, <2>2, <2>5, <3>1, <3>3, StackKept
    <3>5. FoundOK(t)'
      BY <2>1, <2>2, <2>5, FoundKept
    <3>6. DescriptorsOK(t)'
      BY <1>1, <2>2, <2>5, DescriptorsKept
    <3>7. RdcssOK(t)' /\ OwnRdcssOK(t)'
      BY <1>1, <2>2, <2>5, RdcssKept DEF InRdcss
    <3> QED
      BY <3>4, <3>5, <3>6, <3>7 DEF ThreadOK
  <2> QED
    BY <1>1, <1>4, <2>2, <2>3, <2>4, <2>5, LocalStep DEF InRdcss
<1> QED
  BY <1>5, <1>6 DEF Help

(* The innermost call of help changes. *)
LEMMA TopChanged ==
  ASSUME KInv, NEW t \in Threads, stack[t] # <<>>, NEW f \in Frames,
         stack' = [stack EXCEPT ![t] = [@ EXCEPT ![1] = f]]
  PROVE  /\ stack' \in [Threads -> Seq(Frames)] /\ stack'[t] # <<>> /\ Top(t)' = f
         /\ \A u \in Threads \ {t} : stack'[u] = stack[u]
         /\ DOMAIN stack'[t] = DOMAIN stack[t]
         /\ \A n \in DOMAIN stack[t] : stack'[t][n] = IF n = 1 THEN f ELSE stack[t][n]
<1> DEFINE s == [stack[t] EXCEPT ![1] = f]
<1>1. 1 \in 1 .. Len(stack[t]) /\ stack[t] \in Seq(Frames) /\ Len(stack[t]) \in Nat
      /\ Len(stack[t]) > 0 /\ DOMAIN stack[t] = 1 .. Len(stack[t])
  BY TopFrame
<1>2. /\ s \in Seq(Frames) /\ Len(s) = Len(stack[t])
      /\ \A n \in 1 .. Len(stack[t]) : s[n] = IF n = 1 THEN f ELSE stack[t][n]
  BY <1>1, ExceptSeq
<1>3. DOMAIN s = 1 .. Len(stack[t]) /\ s # <<>>
  BY <1>1, <1>2, LenProperties, EmptySeq
<1>4. Head(s) = f
  BY <1>1, <1>2, <1>3
<1>5. stack \in [Threads -> Seq(Frames)]
  BY DEF KInv, KType
<1>6. stack'[t] = s /\ \A u \in Threads \ {t} : stack'[u] = stack[u]
  BY <1>5
<1> HIDE DEF s
<1>7. stack' \in [Threads -> Seq(Frames)]
  BY <1>2, <1>5, <1>6
<1>8. Top(t)' = f
  BY <1>4, <1>6 DEF Top
<1> QED
  BY <1>1, <1>2, <1>3, <1>6, <1>7, <1>8

LEMMA StackChanged ==
  ASSUME KInv, On, NEW t \in Threads, stack[t] # <<>>, NEW f \in Frames, FrameOK(f)',
         stack' = [stack EXCEPT ![t] = [@ EXCEPT ![1] = f]], cur'[t] = cur[t],
         pc[t] \notin {"idle", "new", "read"}, pc'[t] \notin {"idle", "new", "read"},
         pc'[t] \notin {"help", "decide", "finish"} => f.i <= Len(f.entries),
         pc'[t] \in {"finish", "unlock"} => ~ Open(f.tag)',
         pc'[t] = "decide" /\ f.verdict = "succeeded" => f.i > Len(f.entries)
  PROVE  StackOK(t)'
<1>1. StackOK(t)
  BY DEF KInv, ThreadOK
<1>2. /\ stack'[t] # <<>> /\ Top(t)' = f /\ DOMAIN stack'[t] = DOMAIN stack[t]
      /\ \A n \in DOMAIN stack[t] : stack'[t][n] = IF n = 1 THEN f ELSE stack[t][n]
  BY TopChanged
<1>3. (\A n \in DOMAIN stack[t] :
         /\ FrameOK(stack[t][n])
         /\ n > 1 \/ pc[t] \notin {"help", "decide", "finish"} =>
              stack[t][n].i <= Len(stack[t][n].entries))'
  <2> SUFFICES ASSUME NEW n \in DOMAIN stack'[t]
               PROVE  /\ FrameOK(stack[t][n])'
                      /\ n > 1 \/ pc'[t] \notin {"help", "decide", "finish"} =>
                           stack'[t][n].i <= Len(stack'[t][n].entries)
    OBVIOUS
  <2>0. n \in Nat /\ n > 0
    BY <1>2, TopFrame
  <2>1. CASE n = 1
    BY <1>2, <2>1
  <2>2. CASE n # 1
    <3>1. PICK g \in Frames : g = stack[t][n]
      BY <1>2, TopFrame
    <3>2. FrameOK(g) /\ g.i <= Len(g.entries)
      BY <1>1, <1>2, <2>0, <2>2, <3>1 DEF StackOK
    <3>3. FrameOK(g)'
      BY <3>2, FramesOn
    <3> QED
      BY <1>2, <2>2, <3>1, <3>2, <3>3
  <2> QED
    BY <2>1, <2>2
<1> QED
  BY <1>1, <1>2, <1>3 DEF StackOK

LEMMA FinishKeeps ==
  ASSUME KInv, NEW t \in Threads, Finish(t)
  PROVE  KInv' /\ On
<1> DEFINE k == kdesc[Top(t).tag.by]
           f == [Top(t) EXCEPT !.i = 1, !.verdict = k.state]
<1>1. pc[t] = "finish" /\ UNCHANGED <<mem, kdesc, rdesc, rd>>
  BY DEF Finish
<1>2. stack[t] # <<>> /\ ~ Open(Top(t).tag)
  BY <1>1 DEF KInv, ThreadOK, StackOK
<1>3. pc \in [Threads -> KPlaces] /\ stack \in [Threads -> Seq(Frames)]
  BY DEF KInv, KType
<1>4. RdcssOn
  BY <1>1 DEF RdcssOn, KnownRdcss
<1>5. CASE HelpReturns(t, Abstract!Failed)
  <2>1. /\ \A u \in Threads \ {t} : Same(u)
        /\ pc'[t] \in {"idle", "read", "prepare"}
    BY <1>1, <1>2, <1>5, HelpReturnsType DEF Same
  <2>2. KType'
    BY <1>1, <1>2, <1>5, HelpReturnsType DEF KInv, KType
  <2>3. ASSUME On PROVE ThreadOK(t)'
    BY <1>1, <1>2, <1>5, <2>3, HelpReturnsOK
  <2> QED
    BY <1>1, <1>4, <2>1, <2>2, <2>3, LocalStep DEF InRdcss
<1>6. CASE /\ k.seq = Top(t).tag.seq
           /\ stack' = [stack EXCEPT ![t][1].i = 1, ![t][1].verdict = k.state]
           /\ Goto(t, "unlock")
           /\ UNCHANGED <<found, opVars>>
  <2>1. pc' = [pc EXCEPT ![t] = "unlock"] /\ UNCHANGED <<found, cur>>
    BY <1>6 DEF Goto, opVars
  <2>2. stack[t] \in Seq(Frames) /\ Top(t) = stack[t][1] /\ Top(t) \in Frames
        /\ 1 \in DOMAIN stack[t] /\ FrameOK(Top(t)) /\ Top(t).tag \in KTags
    BY <1>2, TopFrame
  <2>3. stack' = [stack EXCEPT ![t] = [@ EXCEPT ![1] = f]]
    BY <1>3, <1>6, <2>2
  <2>4. k.state \in {"succeeded", "failed"}
    <3>1. Top(t).tag.by \in Threads
      BY <2>2, TagFields
    <3>2. k.state \in {"undecided", "succeeded", "failed"}
      BY <3>1 DEF KInv, KType
    <3> QED
      BY <1>2, <1>6, <3>2 DEF Open
  <2>5. f \in Frames /\ f.tag = Top(t).tag /\ f.entries = Top(t).entries /\ f.i = 1
    <3>1. PICK g \in Frames, v \in {"succeeded", "failed"} : g = Top(t) /\ v = k.state
      BY <2>2, <2>4
    <3>2. PICK Es : Frames = [tag : KTags, entries : Es, i : Nat \ {0},
                              verdict : {"succeeded", "failed"}]
      BY DEF Frames
    <3>3. /\ [g EXCEPT !.i = 1] \in Frames /\ [g EXCEPT !.i = 1].tag = g.tag
          /\ [g EXCEPT !.i = 1].entries = g.entries /\ [g EXCEPT !.i = 1].i = 1
      BY <3>2
    <3>4. PICK h \in Frames : h = [g EXCEPT !.i = 1] /\ h.tag = g.tag /\ h.entries = g.entries
                             /\ h.i = 1
      BY <3>3
    <3>5. f = [h EXCEPT !.verdict = v]
      BY <3>1, <3>4
    <3> HIDE DEF f
    <3> QED
      BY <3>1, <3>2, <3>4, <3>5
  <2>6. Len(f.entries) \in Nat /\ Len(f.entries) > 0
    BY <2>2, <2>5, TagFields, IndicesOf
  <2> HIDE DEF f
  <2>7. FrameOK(f)
    <3>1. ~ Open(f.tag)
      BY <1>2, <2>5
    <3>2. Known(f.tag) /\ (kdesc[f.tag.by].seq = f.tag.seq => f.entries = kdesc[f.tag.by].entries)
      BY <2>2, <2>5 DEF FrameOK
    <3>3. f.i <= Len(f.entries) + 1
      BY <2>5, <2>6
    <3> QED
      BY <3>1, <3>2, <3>3 DEF FrameOK
  <2>8. PICK g \in Frames : g = f
    BY <2>5
  <2>9. stack' = [stack EXCEPT ![t] = [@ EXCEPT ![1] = g]]
    BY <2>3, <2>8
  <2>10. pc'[t] = "unlock" /\ pc' \in [Threads -> KPlaces]
    BY <1>3, <2>1 DEF KPlaces
  <2>11. stack' \in [Threads -> Seq(Frames)] /\ \A u \in Threads \ {t} : stack'[u] = stack[u]
    BY <1>2, <2>9, TopChanged
  <2>12. \A u \in Threads \ {t} : Same(u)
    BY <1>1, <1>3, <2>1, <2>11 DEF Same
  <2>13. KType'
    BY <1>1, <2>1, <2>10, <2>11 DEF KInv, KType
  <2>14. ASSUME On PROVE ThreadOK(t)'
    <3>1. FrameOK(g)'
      BY <2>7, <2>8, <2>14, FramesOn
    <3>2. ~ Open(g.tag)' /\ g.i <= Len(g.entries)
      BY <1>1, <1>2, <2>5, <2>6, <2>8 DEF Open
    <3>3. StackOK(t)'
      BY <1>1, <1>2, <2>1, <2>9, <2>10, <2>14, <3>1, <3>2, StackChanged
    <3>4. FoundOK(t)'
      BY <2>1, <2>10, <2>14, FoundKept
    <3>5. DescriptorsOK(t)'
      BY <1>1, <2>10, <2>14, DescriptorsKept
    <3>6. RdcssOK(t)' /\ OwnRdcssOK(t)'
      BY <1>1, <2>10, <2>14, RdcssKept DEF InRdcss
    <3> QED
      BY <3>3, <3>4, <3>5, <3>6 DEF ThreadOK
  <2> QED
    BY <1>1, <1>4, <2>10, <2>12, <2>13, <2>14, LocalStep DEF InRdcss
<1> QED
  BY <1>5, <1>6 DEF Finish

LEMMA PrepareKeeps ==
  ASSUME KInv, NEW t \in Threads, Prepare(t)
  PROVE  KInv' /\ On
<1> DEFINE r == [seq |-> rdesc[t].seq + 2, addr |-> At(t).addr, old |-> At(t).old,
                 of |-> Top(t).tag]
<1>1. /\ pc[t] = "prepare" /\ pc' = [pc EXCEPT ![t] = "lock"]
      /\ UNCHANGED <<mem, kdesc, stack, found, rd, cur>>
  BY DEF Prepare, Goto, opVars
<1>2. stack[t] # <<>>
  BY <1>1 DEF KInv, ThreadOK, StackOK
<1>3. /\ pc \in [Threads -> KPlaces]
      /\ rdesc \in [Threads -> [seq : Nat \ {0}, addr : Words \cup {0}, old : Values,
                                of : KTags \cup {NoTag}]]
  BY DEF KInv, KType
<1>4. rdesc' = [rdesc EXCEPT ![t] = r]
  BY DEF Prepare
<1>5. At(t).addr \in Words /\ At(t).old \in Values /\ Top(t).i \in 1 .. Len(Top(t).entries)
      /\ Len(Top(t).entries) \in Nat
  BY <1>1, <1>2, TopEntry
<1>6. Top(t).tag \in KTags /\ Known(Top(t).tag) /\ FrameOK(Top(t)) /\ Top(t).i \in Nat
      /\ Top(t).i > 0
  BY <1>2, TopFrame, TagFields
<1>7. r \in [seq : Nat \ {0}, addr : Words \cup {0}, old : Values, of : KTags \cup {NoTag}]
      /\ r.seq > 1 /\ r.seq > rdesc[t].seq
  <2>1. rdesc[t].seq \in Nat
    BY <1>3
  <2> QED
    BY <1>5, <1>6, <2>1
<1>8. /\ pc'[t] = "lock" /\ pc' \in [Threads -> KPlaces]
      /\ rdesc'[t] = r /\ \A u \in Threads \ {t} : rdesc'[u] = rdesc[u]
  BY <1>1, <1>3, <1>4 DEF KPlaces
<1>9. \A u \in Threads \ {t} : Same(u)
  BY <1>1, <1>3, <1>8 DEF Same
<1>10. KType'
  <2>1. rdesc' \in [Threads -> [seq : Nat \ {0}, addr : Words \cup {0}, old : Values,
                                of : KTags \cup {NoTag}]]
    BY <1>3, <1>4, <1>7
  <2> QED
    BY <1>1, <1>8, <2>1 DEF KInv, KType
<1>11. RdcssOn
  <2> SUFFICES ASSUME NEW q \in RTags, KnownRdcss(q)
               PROVE  /\ KnownRdcss(q)'
                      /\ rdesc'[q.by].seq = q.seq => rdesc'[q.by] = rdesc[q.by]
    BY DEF RdcssOn
  <2>1. q.by \in Threads /\ q.seq \in Nat /\ q.seq <= rdesc[q.by].seq /\ rdesc[q.by].seq \in Nat
    BY <1>3, TagFields DEF KnownRdcss
  <2>2. CASE q.by = t
    <3>1. q.seq < rdesc'[q.by].seq /\ rdesc'[q.by].seq \in Nat
      BY <1>7, <1>8, <2>1, <2>2
    <3> QED
      BY <2>1, <3>1 DEF KnownRdcss
  <2>3. CASE q.by # t
    BY <1>8, <2>1, <2>3 DEF KnownRdcss
  <2> QED
    BY <2>2, <2>3
<1>12. Comes(Top(t).tag, At(t).addr)
  <2> SUFFICES ASSUME Open(Top(t).tag)
               PROVE  At(t).addr = FirstWord(Top(t).tag) \/ mem[FirstWord(Top(t).tag)] = Top(t).tag
    BY <1>6 DEF Comes
  <2>1. Top(t).entries = kdesc[Top(t).tag.by].entries
    BY <1>6 DEF FrameOK, Open
  <2>2. CASE Top(t).i = 1
    BY <2>1, <2>2 DEF At, FirstWord
  <2>3. CASE Top(t).i # 1
    <3>1. 1 \in 1 .. Top(t).i - 1
      BY <1>6, <2>3
    <3> QED
      BY <1>6, <2>1, <3>1 DEF FrameOK, FirstWord
  <2> QED
    BY <2>2, <2>3
<1>13. ASSUME On PROVE ThreadOK(t)'
  <2>1. StackOK(t)'
    BY <1>1, <1>2, <1>8, <1>13, StackKept
  <2>2. FoundOK(t)'
    BY <1>1, <1>8, <1>13, FoundKept
  <2>3. DescriptorsOK(t)'
    <3>1. Top(t)' = Top(t) /\ At(t)' = At(t)
      BY <1>1 DEF Top, At
    <3>2. PICK x \in KTags : x = Top(t).tag
      BY <1>6
    <3>3. PICK a \in Words : a = At(t).addr
      BY <1>5
    <3>4. Comes(x, a)'
      BY <1>12, <1>13, <3>2, <3>3, ComesOn DEF On
    <3>5. rdesc'[t].of = x /\ rdesc'[t].addr = a /\ rdesc'[t].seq > 1
      BY <1>7, <1>8, <3>2, <3>3
    <3>6. Comes(rdesc[t].of, rdesc[t].addr)'
      BY <3>4, <3>5
    <3>7. kdesc'[t].entries = <<>> => kdesc'[t].seq = 1 \/ pc'[t] = "new"
      BY <1>1 DEF KInv, ThreadOK, DescriptorsOK
    <3>8. rdesc'[t].of = Top(t)'.tag /\ rdesc'[t].addr = At(t)'.addr
      BY <3>1, <3>2, <3>3, <3>5
    <3> QED
      BY <3>5, <3>6, <3>7, <3>8 DEF DescriptorsOK
  <2>4. RdcssOK(t)' /\ OwnRdcssOK(t)'
    BY <1>1, <1>8, <1>13, RdcssKept DEF InRdcss
  <2> QED
    BY <2>1, <2>2, <2>3, <2>4 DEF ThreadOK
<1> QED
  BY <1>1, <1>8, <1>9, <1>10, <1>11, <1>13, LocalStep DEF InRdcss

LEMMA RdcssHelpOtherKeeps ==
  ASSUME KInv, NEW t \in Threads, RdcssHelpOther(t)
  PROVE  KInv' /\ On
<1> DEFINE r == rdesc[found[t].by]
           q == [by |-> found[t], addr |-> r.addr, new |-> Value(r.old), of |-> r.of]
<1>1. pc[t] = "rdcssHelpOther" /\ UNCHANGED <<mem, kdesc, rdesc, stack, cur>>
  BY DEF RdcssHelpOther, opVars
<1>2. FoundOK(t) /\ StackOK(t)
  BY DEF KInv, ThreadOK
<1>3. found[t] \in RTags /\ KnownRdcss(found[t]) /\ found[t].by # t /\ found[t].by \in Threads
      /\ found[t].seq > 1
  BY <1>1, <1>2, TagFields DEF FoundOK
<1>4. /\ pc \in [Threads -> KPlaces] /\ rd \in [Threads -> Rdcsses \cup {NoRdcss}]
      /\ found \in [Threads -> RTags \cup KTags \cup {NoTag}]
  BY DEF KInv, KType
<1>5. RdcssOn
  BY <1>1 DEF RdcssOn, KnownRdcss
<1>6. CASE /\ r.seq = found[t].seq
           /\ rd' = [rd EXCEPT ![t] = q]
           /\ Goto(t, "rdcssHelp")
           /\ UNCHANGED found
  <2>1. pc' = [pc EXCEPT ![t] = "rdcssHelp"] /\ found' = found
    BY <1>6 DEF Goto
  <2>2. DescriptorsOK(found[t].by)
    BY <1>3 DEF KInv, ThreadOK
  <2>3. r.of \in KTags /\ r.addr \in Words /\ Comes(r.of, r.addr)
    BY <1>3, <1>6, <2>2 DEF DescriptorsOK
  <2>4. r.old \in Values
    BY <1>3 DEF KInv, KType
  <2>5. q \in Rdcsses /\ q.new \in Vals /\ q.by = found[t] /\ q.addr = r.addr /\ q.of = r.of
    BY <1>3, <2>3, <2>4 DEF Rdcsses, Value, Vals
  <2> HIDE DEF q
  <2>6. pc'[t] = "rdcssHelp" /\ pc' \in [Threads -> KPlaces] /\ rd'[t] = q
        /\ rd' \in [Threads -> Rdcsses \cup {NoRdcss}]
    BY <1>4, <1>6, <2>1, <2>5 DEF KPlaces
  <2>7. \A u \in Threads \ {t} : Same(u)
    BY <1>1, <1>4, <1>6, <2>1 DEF Same
  <2>8. KType'
    BY <1>1, <2>1, <2>6 DEF KInv, KType
  <2>9. ASSUME On PROVE ThreadOK(t)'
    <3>1. StackOK(t)'
      BY <1>1, <2>6, <2>9, StackKept
    <3>2. FoundOK(t)'
      BY <2>1, <2>6, <2>9, FoundKept
    <3>3. DescriptorsOK(t)'
      BY <1>1, <2>6, <2>9, DescriptorsKept
    <3>4. RdcssOK(t)'
      <4>1. PICK x \in KTags, a \in Words : x = r.of /\ a = r.addr
        BY <2>3
      <4>2. Comes(x, a)'
        BY <2>3, <2>9, <4>1, ComesOn DEF On
      <4>3. Comes(rd[t].of, rd[t].addr)'
        BY <2>5, <2>6, <4>1, <4>2
      <4>4. KnownRdcss(rd[t].by)'
        BY <1>1, <1>3, <2>5, <2>6 DEF KnownRdcss
      <4>5. rd'[t].by.seq = rdesc'[rd'[t].by.by].seq =>
              rd'[t].of = rdesc'[rd'[t].by.by].of /\ rd'[t].addr = rdesc'[rd'[t].by.by].addr
        BY <1>1, <2>5, <2>6
      <4> QED
        BY <2>5, <2>6, <4>3, <4>4, <4>5 DEF RdcssOK
    <3>5. OwnRdcssOK(t)'
      BY <1>3, <2>5, <2>6 DEF OwnRdcssOK
    <3> QED
      BY <3>1, <3>2, <3>3, <3>4, <3>5 DEF ThreadOK
  <2> QED
    BY <1>1, <1>5, <2>6, <2>7, <2>8, <2>9, LocalStep DEF InRdcss
<1>7. CASE RdcssAgain(t) /\ UNCHANGED rd
  <2>1. /\ pc' = [pc EXCEPT ![t] = IF stack[t] = <<>> THEN "read" ELSE "lock"]
        /\ found' = [found EXCEPT ![t] = NoTag] /\ rd' = rd
    BY <1>7 DEF RdcssAgain, Goto
  <2>2. /\ pc'[t] = (IF stack[t] = <<>> THEN "read" ELSE "lock")
        /\ found'[t] = NoTag /\ pc'[t] \in {"read", "lock"}
    BY <1>4, <2>1
  <2>3. \A u \in Threads \ {t} : Same(u)
    BY <1>1, <1>4, <2>1 DEF Same
  <2>4. KType'
    <3>1. pc' \in [Threads -> KPlaces]
      BY <1>4, <2>1 DEF KPlaces
    <3>2. found' \in [Threads -> RTags \cup KTags \cup {NoTag}]
      BY <1>4, <2>1
    <3> QED
      BY <1>1, <2>1, <3>1, <3>2 DEF KInv, KType
  <2>5. ASSUME On PROVE ThreadOK(t)'
    <3>1. StackOK(t)'
      BY <1>1, <2>2, <2>5, StackKept
    <3>2. FoundOK(t)'
      BY <2>2, <2>5, FoundKept
    <3>3. DescriptorsOK(t)'
      BY <1>1, <2>2, <2>5, DescriptorsKept
    <3>4. RdcssOK(t)' /\ OwnRdcssOK(t)'
      BY <2>1, <2>2, <2>5, RdcssKept DEF InRdcss
    <3> QED
      BY <3>1, <3>2, <3>3, <3>4 DEF ThreadOK
  <2> QED
    BY <1>1, <1>5, <2>2, <2>3, <2>4, <2>5, LocalStep DEF InRdcss
<1> QED
  BY <1>6, <1>7 DEF RdcssHelpOther

LEMMA RdcssHelpKeeps ==
  ASSUME KInv, NEW t \in Threads, RdcssHelp(t)
  PROVE  KInv' /\ On
<1> DEFINE k == kdesc[rd[t].of.by]
           open == k.seq = rd[t].of.seq /\ k.state = "undecided"
<1>1. pc[t] = "rdcssHelp" /\ pc' = [pc EXCEPT ![t] = "rdcssSwap"]
      /\ UNCHANGED <<mem, kdesc, rdesc, stack, found, cur>>
      /\ rd' = IF open THEN [rd EXCEPT ![t].new = rd[t].of] ELSE rd
  BY DEF RdcssHelp, Goto, opVars
<1>2. /\ pc \in [Threads -> KPlaces] /\ rd \in [Threads -> Rdcsses \cup {NoRdcss}]
  BY DEF KInv, KType
<1>3. RdcssOn
  BY <1>1 DEF RdcssOn, KnownRdcss
<1>4. RdcssOK(t) /\ rd[t] \in Rdcsses /\ rd[t].of \in KTags
  BY <1>1, TagFields DEF KInv, ThreadOK, RdcssOK, InRdcss
<1>5. /\ rd'[t] \in Rdcsses /\ rd'[t].by = rd[t].by /\ rd'[t].addr = rd[t].addr
      /\ rd'[t].of = rd[t].of /\ \A u \in Threads \ {t} : rd'[u] = rd[u]
      /\ rd' \in [Threads -> Rdcsses \cup {NoRdcss}]
      /\ rd'[t].new = IF open THEN rd[t].of ELSE rd[t].new
  <2>1. CASE open
    <3>1. rd' = [rd EXCEPT ![t] = [rd[t] EXCEPT !.new = rd[t].of]]
      BY <1>1, <1>2, <2>1
    <3>2. [rd[t] EXCEPT !.new = rd[t].of] \in Rdcsses
      BY <1>4 DEF Rdcsses
    <3>3. rd[t] \in [by : RTags, addr : Words, new : Vals \cup KTags, of : KTags]
      BY <1>4 DEF Rdcsses
    <3> QED
      BY <1>2, <2>1, <3>1, <3>2, <3>3
  <2>2. CASE ~ open
    BY <1>1, <1>2, <1>4, <2>2
  <2> QED
    BY <2>1, <2>2
<1>6. pc'[t] = "rdcssSwap" /\ pc' \in [Threads -> KPlaces]
  BY <1>1, <1>2 DEF KPlaces
<1>7. \A u \in Threads \ {t} : Same(u)
  BY <1>1, <1>2, <1>5 DEF Same
<1>8. KType'
  BY <1>1, <1>5, <1>6 DEF KInv, KType
<1>9. ASSUME On PROVE ThreadOK(t)'
  <2>1. StackOK(t)'
    BY <1>1, <1>6, <1>9, StackKept
  <2>2. FoundOK(t)'
    BY <1>1, <1>6, <1>9, FoundKept
  <2>3. DescriptorsOK(t)'
    BY <1>1, <1>6, <1>9, DescriptorsKept
  <2>4. RdcssOK(t)'
    <3>1. PICK x \in KTags, a \in Words : x = rd[t].of /\ a = rd[t].addr
      BY <1>4, TagFields
    <3>2. Comes(x, a)'
      BY <1>4, <1>9, <3>1, ComesOn DEF On, RdcssOK
    <3>3. Comes(rd[t].of, rd[t].addr)'
      BY <1>5, <3>1, <3>2
    <3>4. KnownRdcss(rd[t].by)'
      BY <1>1, <1>4, <1>5 DEF RdcssOK, KnownRdcss
    <3>5. rd'[t].by.seq = rdesc'[rd'[t].by.by].seq =>
            rd'[t].of = rdesc'[rd'[t].by.by].of /\ rd'[t].addr = rdesc'[rd'[t].by.by].addr
      BY <1>1, <1>4, <1>5 DEF RdcssOK
    <3>6. rd'[t].new \in Vals \/ rd'[t].new = rd'[t].of
      BY <1>4, <1>5 DEF RdcssOK
    <3>7. rd'[t].new # rd'[t].of => ~ Open(rd[t].of)'
      BY <1>1, <1>5 DEF Open
    <3> QED
      BY <1>5, <3>3, <3>4, <3>5, <3>6, <3>7 DEF RdcssOK
  <2>5. OwnRdcssOK(t)'
    <3>1. OwnRdcssOK(t) /\ InRdcss(t)
      BY <1>1 DEF KInv, ThreadOK, InRdcss
    <3>2. rd[t].by.by = t =>
            /\ stack[t] # <<>> /\ rd[t].by.seq = rdesc[t].seq
            /\ Open(rd[t].of) => mem[rd[t].addr] = rd[t].by \/ mem[rd[t].addr] = rd[t].of
      BY <3>1 DEF OwnRdcssOK
    <3>3. Open(rd[t].of)' => Open(rd[t].of)
      BY <1>1, <1>5 DEF Open
    <3> QED
      BY <1>1, <1>5, <3>2, <3>3 DEF OwnRdcssOK
  <2> QED
    BY <2>1, <2>2, <2>3, <2>4, <2>5 DEF ThreadOK
<1> QED
  BY <1>1, <1>3, <1>5, <1>6, <1>7, <1>8, <1>9, LocalStep DEF InRdcss

-----------------------------------------------------------------------------
(* The actions that change a descriptor of a k-CAS. *)
LEMMA NewUse ==
  ASSUME KInv, NEW t \in Threads, kdesc'[t].seq = kdesc[t].seq + 1,
         \A u \in Threads \ {t} : kdesc'[u] = kdesc[u] /\ pc'[u] = pc[u]
  PROVE  KcasOn
<1> SUFFICES ASSUME NEW k \in KTags, Known(k)
             PROVE  /\ Known(k)'
                    /\ kdesc'[k.by].seq = k.seq =>
                         kdesc[k.by].seq = k.seq /\ kdesc'[k.by].entries = kdesc[k.by].entries
                    /\ Open(k)' => Open(k)
  BY DEF KcasOn
<1>1. k.by \in Threads /\ k.seq \in Nat /\ kdesc[k.by].seq \in Nat /\ k.seq <= kdesc[k.by].seq
  BY TagFields DEF Known, KInv, KType
<1>2. CASE k.by = t
  <2>1. k.seq < kdesc'[k.by].seq /\ k.seq <= kdesc'[k.by].seq /\ k.seq # kdesc'[k.by].seq
    BY <1>1, <1>2
  <2> QED
    BY <2>1 DEF Known, Open
<1>3. CASE k.by # t
  BY <1>1, <1>3 DEF Known, Open
<1> QED
  BY <1>2, <1>3

LEMMA GetDescriptorKeeps ==
  ASSUME KInv, NEW t \in Threads, GetDescriptor(t)
  PROVE  KInv' /\ On
<1>1. /\ pc[t] = "idle" /\ pc' = [pc EXCEPT ![t] = "new"]
      /\ kdesc' = [kdesc EXCEPT ![t] =
                     [seq |-> @.seq + 1, state |-> "undecided", entries |-> <<>>]]
      /\ UNCHANGED <<mem, rdesc, stack, found, rd, cur>>
  BY DEF GetDescriptor, Goto, opVars
<1>2. /\ pc \in [Threads -> KPlaces]
      /\ kdesc \in [Threads -> [seq : Nat \ {0}, state : {"undecided", "succeeded", "failed"},
                                entries : Seq(Entries)]]
  BY DEF KInv, KType
<1>3. /\ pc' \in [Threads -> KPlaces] /\ pc'[t] = "new"
      /\ kdesc' \in [Threads -> [seq : Nat \ {0}, state : {"undecided", "succeeded", "failed"},
                                 entries : Seq(Entries)]]
      /\ kdesc'[t].seq = kdesc[t].seq + 1
      /\ \A u \in Threads \ {t} : kdesc'[u] = kdesc[u] /\ pc'[u] = pc[u]
  <2>1. kdesc[t].seq + 1 \in Nat \ {0} /\ <<>> \in Seq(Entries)
    BY <1>2, EmptySeq
  <2> QED
    BY <1>1, <1>2, <2>1 DEF KPlaces
<1>4. \A u \in Threads \ {t} : Same(u)
  BY <1>1, <1>3 DEF Same
<1>5. KType'
  BY <1>1, <1>3 DEF KInv, KType
<1>6. KcasOn
  BY <1>3, NewUse
<1>7. RdcssOn
  BY <1>1 DEF RdcssOn, KnownRdcss
<1>8. ASSUME On PROVE ThreadOK(t)'
  <2>1. stack'[t] = <<>>
    BY <1>1 DEF KInv, ThreadOK, StackOK
  <2>2. StackOK(t)'
    BY <1>3, <2>1 DEF StackOK
  <2>3. FoundOK(t)'
    BY <1>1, <1>3, <1>8, FoundKept
  <2>4. DescriptorsOK(t)'
    <3>1. (rdesc[t].seq > 1 =>
             rdesc[t].of \in KTags /\ rdesc[t].addr \in Words /\ Comes(rdesc[t].of, rdesc[t].addr))'
      BY <1>1, <1>8, ComesOn DEF KInv, ThreadOK, DescriptorsOK, On
    <3> QED
      BY <1>3, <2>1, <3>1 DEF DescriptorsOK
  <2>5. RdcssOK(t)' /\ OwnRdcssOK(t)'
    BY <1>1, <1>3, <1>8, RdcssKept DEF InRdcss
  <2> QED
    BY <2>2, <2>3, <2>4, <2>5 DEF ThreadOK
<1> QED
  BY <1>1, <1>3, <1>4, <1>5, <1>6, <1>7, <1>8, DescriptorStep DEF InRdcss

LEMMA ExecuteKeeps ==
  ASSUME KInv, NEW t \in Threads, NEW es \in EntryLists[t], Execute(t, es)
  PROVE  KInv' /\ On
<1> DEFINE n == kdesc[t].seq + 1
           f == Frame(KcasTag(t, n), Sorted(es), 1)
<1>1. es \in Seq(Entries) /\ es # <<>>
  BY KCASAssumption
<1>2. Sorted(es) \in Seq(Entries) /\ Sorted(es) # <<>> /\ Len(Sorted(es)) \in Nat
      /\ Len(Sorted(es)) > 0
  <2>1. Sorted(es) \in Seq(Entries) /\ Len(Sorted(es)) = Len(es) /\ Len(es) \in Nat /\ Len(es) > 0
    BY <1>1, SortedType, IndicesOf
  <2> QED
    BY <2>1, EmptySeq
<1>3. /\ pc[t] = "new" /\ pc' = [pc EXCEPT ![t] = "help"]
      /\ kdesc' = [kdesc EXCEPT ![t].seq = @ + 1, ![t].entries = Sorted(es)]
      /\ stack' = [stack EXCEPT ![t] = <<Frame(KcasTag(t, kdesc'[t].seq), Sorted(es), 1)>>]
      /\ cur' = [cur EXCEPT ![t] = [op |-> "kcas", entries |-> es]]
      /\ UNCHANGED <<mem, rdesc, found, rd>>
  BY DEF Execute, Called, Goto
<1>4. /\ pc \in [Threads -> KPlaces] /\ DOMAIN cur = Threads /\ stack \in [Threads -> Seq(Frames)]
      /\ kdesc \in [Threads -> [seq : Nat \ {0}, state : {"undecided", "succeeded", "failed"},
                                entries : Seq(Entries)]]
  BY DEF KInv, KType
<1>5. /\ kdesc' \in [Threads -> [seq : Nat \ {0}, state : {"undecided", "succeeded", "failed"},
                                 entries : Seq(Entries)]]
      /\ kdesc'[t].seq = n /\ kdesc'[t].entries = Sorted(es)
      /\ \A u \in Threads \ {t} : kdesc'[u] = kdesc[u]
  <2>1. PICK Es : Es = Seq(Entries)
    OBVIOUS
  <2>2. kdesc[t] \in [seq : Nat \ {0}, state : {"undecided", "succeeded", "failed"}, entries : Es]
    BY <1>4, <2>1
  <2>3. n \in Nat \ {0} /\ Sorted(es) \in Es
    BY <1>2, <2>1, <2>2
  <2>4. PICK d \in [seq : Nat \ {0}, state : {"undecided", "succeeded", "failed"}, entries : Es] :
          d = [kdesc[t] EXCEPT !.seq = n] /\ d.seq = n
    <3>1. /\ [kdesc[t] EXCEPT !.seq = n] \in [seq : Nat \ {0}, entries : Es,
                                              state : {"undecided", "succeeded", "failed"}]
          /\ [kdesc[t] EXCEPT !.seq = n].seq = n
      BY <2>2, <2>3
    <3> QED
      BY <3>1
  <2>5. PICK e \in [seq : Nat \ {0}, state : {"undecided", "succeeded", "failed"}, entries : Es] :
          e = [d EXCEPT !.entries = Sorted(es)] /\ e.seq = n /\ e.entries = Sorted(es)
    <3>1. /\ [d EXCEPT !.entries = Sorted(es)] \in [seq : Nat \ {0}, entries : Es,
                                              state : {"undecided", "succeeded", "failed"}]
          /\ [d EXCEPT !.entries = Sorted(es)].seq = n
          /\ [d EXCEPT !.entries = Sorted(es)].entries = Sorted(es)
      BY <2>3, <2>4
    <3> QED
      BY <3>1
  <2>6. kdesc' = [kdesc EXCEPT ![t] = e]
    BY <1>3, <1>4, <2>4, <2>5
  <2> QED
    BY <1>4, <2>1, <2>5, <2>6
<1>6. n \in Nat /\ n > 1
  BY <1>4
<1>7. f \in Frames /\ f.tag = KcasTag(t, n) /\ f.entries = Sorted(es) /\ f.i = 1
      /\ f.verdict = "succeeded" /\ f.tag.by = t /\ f.tag.seq = n
  BY <1>2, <1>6, TagsMade DEF Frame, Frames
<1>8. stack' = [stack EXCEPT ![t] = <<f>>]
  BY <1>3, <1>5
<1> HIDE DEF f, n
<1>9. PICK g \in Frames : g = f
  BY <1>7
<1>10. <<g>> \in Seq(Frames) /\ Len(<<g>>) = 1 /\ <<g>>[1] = g /\ DOMAIN <<g>> = {1}
       /\ <<g>> # <<>> /\ Head(<<g>>) = g
  OBVIOUS
<1>11. /\ pc' \in [Threads -> KPlaces] /\ pc'[t] = "help" /\ stack'[t] = <<g>>
       /\ cur'[t].op = "kcas" /\ DOMAIN cur' = Threads
       /\ stack' \in [Threads -> Seq(Frames)]
       /\ \A u \in Threads \ {t} : pc'[u] = pc[u] /\ stack'[u] = stack[u] /\ cur'[u] = cur[u]
  BY <1>3, <1>4, <1>8, <1>9, <1>10 DEF KPlaces
<1>12. \A u \in Threads \ {t} : Same(u)
  BY <1>3, <1>11 DEF Same
<1>13. KType'
  <2>1. \A u \in Threads : cur'[u].op = "read" => cur'[u].addr \in Words
    BY <1>11 DEF KInv, KType
  <2> QED
    BY <1>3, <1>5, <1>11, <2>1 DEF KInv, KType
<1>14. KcasOn
  BY <1>5, <1>11, NewUse DEF n
<1>15. RdcssOn
  BY <1>3 DEF RdcssOn, KnownRdcss
<1>16. ASSUME On PROVE ThreadOK(t)'
  <2>1. FrameOK(g)'
    <3>1. Known(g.tag)'
      BY <1>5, <1>6, <1>7, <1>9, <1>11 DEF Known
    <3>2. g.entries = kdesc'[g.tag.by].entries /\ g.i <= Len(g.entries) + 1
      BY <1>2, <1>5, <1>7, <1>9
    <3>3. \A j \in 1 .. g.i - 1 : FALSE
      BY <1>7, <1>9
    <3> QED
      BY <3>1, <3>2, <3>3 DEF FrameOK
  <2>2. StackOK(t)'
    <3>1. (\A m \in DOMAIN stack[t] :
             /\ FrameOK(stack[t][m])
             /\ m > 1 \/ pc[t] \notin {"help", "decide", "finish"} =>
                  stack[t][m].i <= Len(stack[t][m].entries))'
      <4> SUFFICES ASSUME NEW m \in DOMAIN stack'[t]
                   PROVE  FrameOK(stack[t][m])' /\ ~ (m > 1)
        BY <1>11
      <4>1. m = 1 /\ stack'[t][m] = g
        BY <1>10, <1>11
      <4> QED
        BY <2>1, <4>1
    <3> QED
      BY <1>10, <1>11, <3>1 DEF StackOK
  <2>3. FoundOK(t)'
    BY <1>3, <1>11, <1>16, FoundKept
  <2>4. DescriptorsOK(t)'
    <3>1. (rdesc[t].seq > 1 =>
             rdesc[t].of \in KTags /\ rdesc[t].addr \in Words /\ Comes(rdesc[t].of, rdesc[t].addr))'
      BY <1>3, <1>16, ComesOn DEF KInv, ThreadOK, DescriptorsOK, On
    <3> QED
      BY <1>2, <1>5, <1>11, <3>1 DEF DescriptorsOK, InRdcss
  <2>5. RdcssOK(t)' /\ OwnRdcssOK(t)'
    BY <1>3, <1>11, <1>16, RdcssKept DEF InRdcss
  <2> QED
    BY <2>2, <2>3, <2>4, <2>5 DEF ThreadOK
<1> QED
  BY <1>3, <1>5, <1>11, <1>12, <1>13, <1>14, <1>15, <1>16, DescriptorStep DEF InRdcss

LEMMA DecideKeeps ==
  ASSUME KInv, NEW t \in Threads, Decide(t)
  PROVE  KInv' /\ On
<1> DEFINE u == Top(t).tag.by
           open == kdesc[u].seq = Top(t).tag.seq /\ kdesc[u].state = "undecided"
<1>1. /\ pc[t] = "decide" /\ pc' = [pc EXCEPT ![t] = "finish"]
      /\ UNCHANGED <<mem, rdesc, stack, found, rd, cur>>
      /\ \/ open /\ kdesc' = [kdesc EXCEPT ![u].state = Top(t).verdict]
         \/ ~ open /\ kdesc' = kdesc
  BY DEF Decide, Goto
<1>2. stack[t] # <<>>
  BY <1>1 DEF KInv, ThreadOK, StackOK
<1>3. Top(t).tag \in KTags /\ u \in Threads /\ Top(t).verdict \in {"succeeded", "failed"}
  BY <1>2, TopFrame, TagFields
<1>4. /\ pc \in [Threads -> KPlaces]
      /\ kdesc \in [Threads -> [seq : Nat \ {0}, state : {"undecided", "succeeded", "failed"},
                                entries : Seq(Entries)]]
  BY DEF KInv, KType
<1>5. /\ kdesc' \in [Threads -> [seq : Nat \ {0}, state : {"undecided", "succeeded", "failed"},
                                 entries : Seq(Entries)]]
      /\ \A v \in Threads : kdesc'[v].seq = kdesc[v].seq /\ kdesc'[v].entries = kdesc[v].entries
      /\ \A v \in Threads : kdesc'[v].state = "undecided" => kdesc[v].state = "undecided"
      /\ open => kdesc'[u].state # "undecided"
  <2>1. CASE open /\ kdesc' = [kdesc EXCEPT ![u].state = Top(t).verdict]
    BY <1>3, <1>4, <2>1
  <2>2. CASE ~ open /\ kdesc' = kdesc
    BY <1>4, <2>2
  <2> QED
    BY <1>1, <2>1, <2>2
<1>6. pc' \in [Threads -> KPlaces] /\ pc'[t] = "finish"
      /\ \A v \in Threads \ {t} : pc'[v] = pc[v]
  BY <1>1, <1>4 DEF KPlaces
<1>7. \A v \in Threads \ {t} : Same(v)
  BY <1>1, <1>6 DEF Same
<1>8. KType'
  BY <1>1, <1>5, <1>6 DEF KInv, KType
<1>9. KcasOn
  <2> SUFFICES ASSUME NEW k \in KTags, Known(k)
               PROVE  /\ Known(k)'
                      /\ kdesc'[k.by].seq = k.seq =>
                           kdesc[k.by].seq = k.seq /\ kdesc'[k.by].entries = kdesc[k.by].entries
                      /\ Open(k)' => Open(k)
    BY DEF KcasOn
  <2>1. k.by \in Threads
    BY TagFields
  <2>2. pc'[k.by] = "new" => pc[k.by] = "new"
    BY <1>6, <2>1
  <2> QED
    BY <1>5, <2>1, <2>2 DEF Known, Open
<1>10. RdcssOn
  BY <1>1 DEF RdcssOn, KnownRdcss
<1>11. ASSUME On PROVE ThreadOK(t)'
  <2>1. ~ Open(Top(t).tag)'
    <3>1. Top(t)' = Top(t)
      BY <1>1 DEF Top
    <3> QED
      BY <1>3, <1>5, <3>1 DEF Open
  <2>2. StackOK(t)'
    BY <1>1, <1>2, <1>6, <1>11, <2>1, StackKept
  <2>3. FoundOK(t)'
    BY <1>1, <1>6, <1>11, FoundKept
  <2>4. DescriptorsOK(t)'
    BY <1>1, <1>5, <1>6, <1>11, DescriptorsKept
  <2>5. RdcssOK(t)' /\ OwnRdcssOK(t)'
    BY <1>1, <1>6, <1>11, RdcssKept DEF InRdcss
  <2> QED
    BY <2>2, <2>3, <2>4, <2>5 DEF ThreadOK
<1> QED
  BY <1>1, <1>5, <1>7, <1>8, <1>9, <1>10, <1>11, DescriptorStep DEF InRdcss

-----------------------------------------------------------------------------
(* The actions that change a word. *)
LEMMA WordStep ==
  ASSUME KInv, KType', NEW t \in Threads, UNCHANGED <<kdesc, rdesc>>,
         \A u \in Threads \ {t} : Same(u) /\ OwnOn(u),
         pc[t] # "new", pc'[t] # "new", WordsOn,
         On => ThreadOK(t)', On => \A a \in Words : WordOK(a)'
  PROVE  KInv' /\ On
<1>1. \A u \in Threads : pc[u] = "new" <=> pc'[u] = "new"
  BY DEF Same
<1>2. KcasOn
  BY <1>1, TagFields DEF KcasOn, Known, Open
<1>3. RdcssOn
  BY DEF RdcssOn, KnownRdcss
<1>4. On
  BY <1>2, <1>3 DEF On
<1>5. \A u \in Threads \ {t} : ThreadOK(u)'
  BY <1>4, OtherThread
<1> QED
  BY <1>4, <1>5 DEF KInv

LEMMA NextEntryOK ==
  ASSUME KInv, NEW t \in Threads, NextEntry(t), stack[t] # <<>>,
         pc[t] \in {"lock", "rdcssSwap"}
  PROVE  /\ stack' \in [Threads -> Seq(Frames)] /\ pc' \in [Threads -> KPlaces]
         /\ \A u \in Threads \ {t} : stack'[u] = stack[u] /\ pc'[u] = pc[u]
         /\ pc'[t] \in {"prepare", "decide"}
         /\ On /\ cur'[t] = cur[t] /\ (Open(Top(t).tag) /\ kdesc' = kdesc => mem'[At(t).addr] = Top(t).tag)
              /\ kdesc' = kdesc
            => StackOK(t)'
<1> DEFINE i == Top(t).i
           p == IF i < Len(Top(t).entries) THEN "prepare" ELSE "decide"
<1>1. /\ pc' = [pc EXCEPT ![t] = p] /\ stack' = [stack EXCEPT ![t][1].i = @ + 1]
  BY DEF NextEntry, Goto
<1>2. pc \in [Threads -> KPlaces] /\ stack \in [Threads -> Seq(Frames)]
  BY DEF KInv, KType
<1>3. /\ stack[t] \in Seq(Frames) /\ Top(t) = stack[t][1] /\ Top(t) \in Frames
      /\ 1 \in DOMAIN stack[t] /\ FrameOK(Top(t)) /\ Top(t).tag \in KTags /\ Known(Top(t).tag)
  BY TopFrame
<1>4. i \in 1 .. Len(Top(t).entries) /\ Len(Top(t).entries) \in Nat /\ At(t).addr \in Words
  BY TopEntry
<1>5. PICK n \in Nat : n = i + 1 /\ n > 0
  BY <1>4
<1>6. PICK Es : Frames = [tag : KTags, entries : Es, i : Nat \ {0},
                          verdict : {"succeeded", "failed"}]
  BY DEF Frames
<1>7. PICK f \in Frames : /\ f = [Top(t) EXCEPT !.i = n] /\ f.tag = Top(t).tag
                          /\ f.entries = Top(t).entries /\ f.i = n
  <2>1. PICK g \in Frames : g = Top(t)
    BY <1>3
  <2>2. /\ [g EXCEPT !.i = n] \in Frames /\ [g EXCEPT !.i = n].tag = g.tag
        /\ [g EXCEPT !.i = n].entries = g.entries /\ [g EXCEPT !.i = n].i = n
    BY <1>5, <1>6
  <2> QED
    BY <2>1, <2>2
<1>8. stack' = [stack EXCEPT ![t] = [@ EXCEPT ![1] = f]]
  BY <1>1, <1>2, <1>3, <1>5, <1>7
<1>9. /\ stack' \in [Threads -> Seq(Frames)]
      /\ \A u \in Threads \ {t} : stack'[u] = stack[u]
  BY <1>8, TopChanged
<1>10. pc'[t] = p /\ p \in {"prepare", "decide"} /\ pc' \in [Threads -> KPlaces]
       /\ \A u \in Threads \ {t} : pc'[u] = pc[u]
  BY <1>1, <1>2 DEF KPlaces
<1>11. ASSUME On, cur'[t] = cur[t], kdesc' = kdesc,
              Open(Top(t).tag) => mem'[At(t).addr] = Top(t).tag
       PROVE  StackOK(t)'
  <2>1. FrameOK(f)'
    <3>0. PICK g \in Frames : g = Top(t)
      BY <1>3
    <3>1. FrameOK(g)'
      BY <1>3, <1>11, <3>0, FramesOn
    <3>2. f.tag = g.tag /\ f.entries = g.entries /\ f.i = g.i + 1 /\ g.i \in Nat /\ g.i > 0
          /\ f.i <= Len(f.entries) + 1
      BY <1>4, <1>5, <1>7, <3>0
    <3>3. ASSUME Open(f.tag)', NEW j \in 1 .. f.i - 1
          PROVE  mem'[f.entries[j].addr] = f.tag
      <4>1. CASE j = g.i
        <5>1. Open(Top(t).tag)
          BY <1>11, <3>0, <3>2, <3>3 DEF Open
        <5> QED
          BY <1>11, <3>0, <3>2, <4>1, <5>1 DEF At
      <4>2. CASE j # g.i
        <5>1. j \in 1 .. g.i - 1
          BY <3>2, <4>2
        <5> QED
          BY <3>1, <3>2, <3>3, <5>1 DEF FrameOK
      <4> QED
        BY <4>1, <4>2
    <3> QED
      BY <3>1, <3>2, <3>3 DEF FrameOK
  <2>2. /\ pc'[t] = "prepare" => f.i <= Len(f.entries)
        /\ pc'[t] = "decide" => f.i > Len(f.entries)
    BY <1>4, <1>5, <1>7, <1>10
  <2> QED
    BY <1>8, <1>10, <1>11, <2>1, <2>2, StackChanged
<1> QED
  BY <1>9, <1>10, <1>11

LEMMA LockKeeps ==
  ASSUME KInv, NEW t \in Threads, Lock(t)
  PROVE  KInv' /\ On
<1> DEFINE a == At(t).addr
           mine == RdcssTag(t, rdesc[t].seq)
           r == [by |-> mine, addr |-> a, new |-> Value(At(t).old), of |-> Top(t).tag]
<1>1. pc[t] = "lock" /\ UNCHANGED <<kdesc, rdesc, cur>>
  BY DEF Lock, opVars
<1>2. stack[t] # <<>> /\ DescriptorsOK(t)
  BY <1>1 DEF KInv, ThreadOK, StackOK
<1>3. a \in Words /\ At(t).old \in Values /\ Top(t).i \in 1 .. Len(Top(t).entries)
  BY <1>1, <1>2, TopEntry
<1>4. /\ Top(t).tag \in KTags /\ Known(Top(t).tag) /\ FrameOK(Top(t)) /\ Top(t) \in Frames
      /\ Top(t) = stack[t][1] /\ 1 \in DOMAIN stack[t]
  BY <1>2, TopFrame
<1>5. rdesc[t].seq > 1 /\ rdesc[t].of = Top(t).tag /\ rdesc[t].addr = a
      /\ Comes(rdesc[t].of, rdesc[t].addr)
  BY <1>1, <1>2 DEF DescriptorsOK
<1>6. /\ pc \in [Threads -> KPlaces] /\ rd \in [Threads -> Rdcsses \cup {NoRdcss}]
      /\ found \in [Threads -> RTags \cup KTags \cup {NoTag}] /\ stack \in [Threads -> Seq(Frames)]
      /\ mem \in [Words -> Vals \cup RTags \cup KTags] /\ rdesc[t].seq \in Nat
  BY DEF KInv, KType
<1>7. mem[a] \in Vals \cup RTags \cup KTags
  BY <1>3, <1>6
<1>8. RdcssOn
  BY <1>1 DEF RdcssOn, KnownRdcss
<1>9. CASE /\ mem[a] = Value(At(t).old)
           /\ mem' = [mem EXCEPT ![a] = mine]
           /\ rd' = [rd EXCEPT ![t] = r]
           /\ Goto(t, "rdcssHelp")
           /\ UNCHANGED <<stack, found>>
  <2>1. pc' = [pc EXCEPT ![t] = "rdcssHelp"] /\ stack' = stack /\ found' = found
    BY <1>9 DEF Goto
  <2>2. mine \in RTags /\ mine.by = t /\ mine.seq = rdesc[t].seq
    BY <1>5, <1>6, TagsMade
  <2>3. Value(At(t).old) \in Vals
    BY <1>3 DEF Value, Vals
  <2>4. r \in Rdcsses /\ r.by = mine /\ r.addr = a /\ r.of = Top(t).tag /\ r.new \in Vals
    BY <1>3, <1>4, <2>2, <2>3 DEF Rdcsses
  <2> HIDE DEF mine, r
  <2>5. /\ pc'[t] = "rdcssHelp" /\ pc' \in [Threads -> KPlaces]
        /\ \A u \in Threads \ {t} : pc'[u] = pc[u] /\ rd'[u] = rd[u]
        /\ rd'[t] = r /\ rd' \in [Threads -> Rdcsses \cup {NoRdcss}]
    BY <1>6, <1>9, <2>1, <2>4 DEF KPlaces
  <2>6. /\ mem' \in [Words -> Vals \cup RTags \cup KTags] /\ mem'[a] = mine
        /\ \A b \in Words \ {a} : mem'[b] = mem[b]
    BY <1>3, <1>6, <1>9, <2>2
  <2>7. mem[a] \in Vals
    BY <1>9, <2>3
  <2>8. KType'
    BY <1>1, <2>1, <2>5, <2>6 DEF KInv, KType
  <2>9. WordsOn
    BY <2>6, <2>7, Apart DEF WordsOn
  <2>10. \A u \in Threads \ {t} : Same(u)
    BY <1>1, <2>1, <2>5 DEF Same
  <2>11. ASSUME NEW u \in Threads \ {t} PROVE OwnOn(u)
    <3>1. InRdcss(u) => rd[u].by \in RTags /\ rd[u].addr \in Words
      BY TagFields DEF KInv, ThreadOK, RdcssOK
    <3> QED
      BY <2>6, <2>7, <3>1, Apart DEF OwnOn
  <2>12. ASSUME On PROVE ThreadOK(t)'
    <3>1. StackOK(t)'
      BY <1>1, <1>2, <2>1, <2>5, <2>12, StackKept
    <3>2. FoundOK(t)'
      BY <2>1, <2>5, <2>12, FoundKept
    <3>3. DescriptorsOK(t)'
      BY <1>1, <2>1, <2>5, <2>12, DescriptorsKept
    <3>4. RdcssOK(t)'
      <4>1. PICK x \in KTags, b \in Words : x = Top(t).tag /\ b = a
        BY <1>3, <1>4
      <4>2. Comes(x, b)'
        BY <1>5, <2>12, <4>1, ComesOn DEF On
      <4>3. Comes(rd[t].of, rd[t].addr)'
        BY <2>4, <2>5, <4>1, <4>2
      <4>4. KnownRdcss(rd[t].by)'
        BY <1>1, <1>6, <2>2, <2>4, <2>5 DEF KnownRdcss
      <4>5. rd'[t].by.seq = rdesc'[rd'[t].by.by].seq =>
              rd'[t].of = rdesc'[rd'[t].by.by].of /\ rd'[t].addr = rdesc'[rd'[t].by.by].addr
        BY <1>1, <1>5, <2>2, <2>4, <2>5
      <4> QED
        BY <2>4, <2>5, <4>3, <4>4, <4>5 DEF RdcssOK
    <3>5. OwnRdcssOK(t)'
      BY <1>1, <1>2, <2>1, <2>2, <2>4, <2>5, <2>6 DEF OwnRdcssOK
    <3> QED
      BY <3>1, <3>2, <3>3, <3>4, <3>5 DEF ThreadOK
  <2>13. ASSUME On, NEW b \in Words PROVE WordOK(b)'
    <3>1. CASE b = a
      <4>1. mem'[b] = mine /\ mem'[b] \in RTags /\ mem'[b] \notin KTags
        BY <2>2, <2>6, <3>1, Apart
      <4>2. InRdcss(t)'
        BY <2>5 DEF InRdcss
      <4> QED
        BY <1>1, <2>2, <2>4, <2>5, <3>1, <4>1, <4>2 DEF WordOK, InRdcss
    <3>2. CASE b # a
      <4>1. ASSUME mem[b] \in RTags
            PROVE  LET u == mem[b].by
                   IN InRdcss(u)' /\ rd'[u].by = rd[u].by /\ rd'[u].addr = rd[u].addr
                      /\ rdesc'[u].seq = rdesc[u].seq
        <5>1. WordOK(b) /\ mem[b].by \in Threads
          BY <4>1, TagFields DEF KInv
        <5>2. InRdcss(mem[b].by)
          BY <4>1, <5>1 DEF WordOK
        <5>3. mem[b].by # t
          BY <1>1, <5>2 DEF InRdcss
        <5>4. PICK u \in Threads \ {t} : u = mem[b].by
          BY <5>1, <5>3
        <5>5. Same(u) /\ InRdcss(u)
          BY <2>10, <5>2, <5>4
        <5>6. rd'[u] = rd[u] /\ rdesc'[u] = rdesc[u] /\ InRdcss(u)'
          BY <5>5 DEF Same, InRdcss
        <5>7. mem'[b] = mem[b]
          BY <2>6, <3>2
        <5> QED
          BY <5>4, <5>6, <5>7 DEF InRdcss
      <4> QED
        BY <2>6, <2>13, <3>2, <4>1, SameWord
    <3> QED
      BY <3>1, <3>2
  <2> QED
    BY <1>1, <2>5, <2>8, <2>9, <2>10, <2>11, <2>12, <2>13, WordStep
<1>10. CASE mem[a] = Top(t).tag /\ NextEntry(t) /\ UNCHANGED <<mem, rd, found>>
  <2>1. /\ stack' \in [Threads -> Seq(Frames)] /\ pc' \in [Threads -> KPlaces]
        /\ \A u \in Threads \ {t} : stack'[u] = stack[u] /\ pc'[u] = pc[u]
        /\ pc'[t] \in {"prepare", "decide"}
    BY <1>1, <1>2, <1>10, NextEntryOK
  <2>2. \A u \in Threads \ {t} : Same(u)
    BY <1>1, <1>10, <2>1 DEF Same
  <2>3. KType'
    BY <1>1, <1>10, <2>1 DEF KInv, KType
  <2>4. ASSUME On PROVE ThreadOK(t)'
    <3>1. StackOK(t)'
      BY <1>1, <1>2, <1>10, <2>4, NextEntryOK
    <3>2. FoundOK(t)'
      BY <1>10, <2>1, <2>4, FoundKept
    <3>3. DescriptorsOK(t)'
      BY <1>1, <2>1, <2>4, DescriptorsKept
    <3>4. RdcssOK(t)' /\ OwnRdcssOK(t)'
      BY <1>10, <2>1, <2>4, RdcssKept DEF InRdcss
    <3> QED
      BY <3>1, <3>2, <3>3, <3>4 DEF ThreadOK
  <2> QED
    BY <1>1, <1>8, <1>10, <2>1, <2>2, <2>3, <2>4, LocalStep DEF InRdcss
<1>11. CASE /\ stack' = [stack EXCEPT ![t][1].verdict = "failed"]
            /\ Goto(t, "decide")
            /\ UNCHANGED <<mem, rd, found>>
  <2>1. pc' = [pc EXCEPT ![t] = "decide"]
    BY <1>11 DEF Goto
  <2>2. PICK f \in Frames : /\ f = [Top(t) EXCEPT !.verdict = "failed"] /\ f.tag = Top(t).tag
                            /\ f.entries = Top(t).entries /\ f.i = Top(t).i
                            /\ f.verdict = "failed"
    <3>1. PICK Es : Frames = [tag : KTags, entries : Es, i : Nat \ {0},
                              verdict : {"succeeded", "failed"}]
      BY DEF Frames
    <3>2. PICK g \in Frames : g = Top(t)
      BY <1>4
    <3>3. /\ [g EXCEPT !.verdict = "failed"] \in Frames
          /\ [g EXCEPT !.verdict = "failed"].tag = g.tag
          /\ [g EXCEPT !.verdict = "failed"].entries = g.entries
          /\ [g EXCEPT !.verdict = "failed"].i = g.i
          /\ [g EXCEPT !.verdict = "failed"].verdict = "failed"
      BY <3>1
    <3> QED
      BY <3>2, <3>3
  <2>3. stack' = [stack EXCEPT ![t] = [@ EXCEPT ![1] = f]]
    BY <1>4, <1>6, <1>11, <2>2
  <2>4. stack' \in [Threads -> Seq(Frames)] /\ \A u \in Threads \ {t} : stack'[u] = stack[u]
    BY <1>2, <2>3, TopChanged
  <2>5. pc'[t] = "decide" /\ pc' \in [Threads -> KPlaces]
        /\ \A u \in Threads \ {t} : pc'[u] = pc[u]
    BY <1>6, <2>1 DEF KPlaces
  <2>6. \A u \in Threads \ {t} : Same(u)
    BY <1>1, <1>11, <2>4, <2>5 DEF Same
  <2>7. KType'
    BY <1>1, <1>11, <2>4, <2>5 DEF KInv, KType
  <2>8. FrameOK(f)
    BY <1>4, <2>2 DEF FrameOK
  <2>9. ASSUME On PROVE ThreadOK(t)'
    <3>1. FrameOK(f)'
      BY <2>8, <2>9, FramesOn
    <3>2. StackOK(t)'
      BY <1>1, <1>2, <2>2, <2>3, <2>5, <2>9, <3>1, StackChanged
    <3>3. FoundOK(t)'
      BY <1>11, <2>5, <2>9, FoundKept
    <3>4. DescriptorsOK(t)'
      BY <1>1, <2>5, <2>9, DescriptorsKept
    <3>5. RdcssOK(t)' /\ OwnRdcssOK(t)'
      BY <1>11, <2>5, <2>9, RdcssKept DEF InRdcss
    <3> QED
      BY <3>2, <3>3, <3>4, <3>5 DEF ThreadOK
  <2> QED
    BY <1>1, <1>8, <1>11, <2>5, <2>6, <2>7, <2>9, LocalStep DEF InRdcss
<1>12. CASE /\ mem[a].is # "value"
            /\ found' = [found EXCEPT ![t] = mem[a]]
            /\ Goto(t, IF mem[a].is = "rdcss" THEN "rdcssHelpOther" ELSE "helpOther")
            /\ UNCHANGED <<mem, rd, stack>>
  <2>1. pc' = [pc EXCEPT ![t] = IF mem[a].is = "rdcss" THEN "rdcssHelpOther" ELSE "helpOther"]
    BY <1>12 DEF Goto
  <2>2. /\ pc'[t] = IF mem[a].is = "rdcss" THEN "rdcssHelpOther" ELSE "helpOther"
        /\ found'[t] = mem[a] /\ pc'[t] \in {"rdcssHelpOther", "helpOther"}
    BY <1>6, <1>12, <2>1
  <2>3. \A u \in Threads \ {t} : Same(u)
    BY <1>1, <1>6, <1>12, <2>1 DEF Same
  <2>4. KType'
    <3>1. pc' \in [Threads -> KPlaces]
      BY <1>6, <2>1 DEF KPlaces
    <3>2. mem[a] \in RTags \cup KTags
      BY <1>7, <1>12, WordKinds
    <3>3. found' \in [Threads -> RTags \cup KTags \cup {NoTag}]
      BY <1>6, <1>12, <3>2
    <3> QED
      BY <1>1, <1>12, <3>1, <3>3 DEF KInv, KType
  <2>5. ASSUME On PROVE ThreadOK(t)'
    <3>1. StackOK(t)'
      BY <1>1, <1>2, <1>12, <2>2, <2>5, StackKept
    <3>2. FoundOK(t)'
      BY <1>1, <1>3, <1>12, <2>2, <2>5, FoundInWord
    <3>3. DescriptorsOK(t)'
      BY <1>1, <1>12, <2>2, <2>5, DescriptorsKept
    <3>4. RdcssOK(t)' /\ OwnRdcssOK(t)'
      BY <1>12, <2>2, <2>5, RdcssKept DEF InRdcss
    <3> QED
      BY <3>1, <3>2, <3>3, <3>4 DEF ThreadOK
  <2> QED
    BY <1>1, <1>8, <1>12, <2>2, <2>3, <2>4, <2>5, LocalStep DEF InRdcss
<1> QED
  BY <1>9, <1>10, <1>11, <1>12 DEF Lock

LEMMA RdcssSwapKeeps ==
  ASSUME KInv, NEW t \in Threads, RdcssSwap(t)
  PROVE  KInv' /\ On
<1> DEFINE r == rd[t]
           a == rd[t].addr
<1>1. /\ pc[t] = "rdcssSwap" /\ UNCHANGED <<kdesc, rdesc, cur>>
      /\ mem' = [mem EXCEPT ![a] = IF @ = r.by THEN r.new ELSE @]
      /\ rd' = [rd EXCEPT ![t] = NoRdcss]
      /\ IF r.by.by = t THEN NextEntry(t) /\ UNCHANGED found
                        ELSE RdcssAgain(t) /\ UNCHANGED stack
  BY DEF RdcssSwap, opVars
<1>2. ThreadOK(t) /\ InRdcss(t)
  BY <1>1 DEF KInv, InRdcss
<1>3. /\ r \in Rdcsses /\ KnownRdcss(r.by) /\ Comes(r.of, a)
      /\ r.new \in Vals \/ r.new = r.of
      /\ r.by.seq = rdesc[r.by.by].seq => r.of = rdesc[r.by.by].of /\ a = rdesc[r.by.by].addr
      /\ r.new # r.of => ~ Open(r.of)
  BY <1>1, <1>2 DEF ThreadOK, RdcssOK
<1>4. r.by \in RTags /\ a \in Words /\ r.of \in KTags /\ r.new \in Vals \cup KTags
  BY <1>3, TagFields
<1>5. /\ pc \in [Threads -> KPlaces] /\ rd \in [Threads -> Rdcsses \cup {NoRdcss}]
      /\ found \in [Threads -> RTags \cup KTags \cup {NoTag}] /\ stack \in [Threads -> Seq(Frames)]
      /\ mem \in [Words -> Vals \cup RTags \cup KTags]
  BY DEF KInv, KType
<1>6. /\ mem' \in [Words -> Vals \cup RTags \cup KTags]
      /\ mem'[a] = IF mem[a] = r.by THEN r.new ELSE mem[a]
      /\ \A b \in Words \ {a} : mem'[b] = mem[b]
  BY <1>1, <1>4, <1>5
<1>7. /\ rd' \in [Threads -> Rdcsses \cup {NoRdcss}] /\ rd'[t] = NoRdcss
      /\ \A u \in Threads \ {t} : rd'[u] = rd[u]
  BY <1>1, <1>5
<1> HIDE DEF r, a
<1>8. WordsOn
  <2> SUFFICES ASSUME NEW k \in KTags, NEW b \in Words, mem[b] = k PROVE mem'[b] = k
    BY DEF WordsOn
  <2>1. mem[b] # r.by
    BY <1>4, Apart
  <2> QED
    BY <1>6, <2>1
<1>9. ASSUME NEW u \in Threads \ {t}, Same(u) PROVE OwnOn(u)
  <2> SUFFICES ASSUME InRdcss(u), rd[u].by.by = u, Open(rd[u].of)', mem[rd[u].addr] = rd[u].by
               PROVE  mem'[rd[u].addr] = rd[u].by \/ mem'[rd[u].addr] = rd[u].of
    BY DEF OwnOn
  <2>1. OwnRdcssOK(u) /\ RdcssOK(u)
    BY DEF KInv, ThreadOK
  <2>2. rd[u] \in Rdcsses /\ rd[u].addr \in Words
    BY <2>1, TagFields DEF RdcssOK
  <2>3. rd[u].by.seq = rdesc[u].seq /\ rd[u].of = rdesc[u].of
    BY <2>1, <2>2 DEF OwnRdcssOK, RdcssOK
  <2>4. Open(rd[u].of)
    BY <1>1, <1>9 DEF Open, Same
  <2>5. CASE rd[u].addr = a /\ mem[a] = r.by
    <3>1. rd[u].by = r.by
      BY <2>5
    <3>2. r.of = rd[u].of
      BY <1>3, <2>3, <3>1
    <3>3. r.new = r.of
      BY <1>3, <2>4, <3>2
    <3> QED
      BY <1>6, <2>5, <3>2, <3>3
  <2>6. CASE ~ (rd[u].addr = a /\ mem[a] = r.by)
    <3>1. mem'[rd[u].addr] = mem[rd[u].addr]
      BY <1>6, <2>2, <2>6
    <3> QED
      BY <3>1
  <2> QED
    BY <2>5, <2>6
<1>10. ASSUME On, NEW b \in Words, \A u \in Threads \ {t} : Same(u) PROVE WordOK(b)'
  <2>1. CASE b = a /\ mem[a] = r.by
    <3>1. mem'[b] = r.new
      BY <1>6, <2>1
    <3>2. CASE r.new \in Vals
      BY <3>1, <3>2, Apart DEF WordOK
    <3>3. CASE r.new = r.of
      <4>1. PICK k \in KTags : k = r.of
        BY <1>4
      <4>2. Known(k)' /\ (Open(k)' => a = FirstWord(k)' \/ mem'[FirstWord(k)'] = k)
        BY <1>3, <1>10, <4>1, ComesOn DEF On
      <4>3. Begun(k)'
        BY <2>1, <3>1, <3>3, <4>1, <4>2 DEF Begun
      <4>4. mem'[b] = k /\ k \notin RTags
        BY <3>1, <3>3, <4>1, Apart
      <4>5. Begun(mem[b])'
        BY <4>3, <4>4
      <4> QED
        BY <4>4, <4>5 DEF WordOK
    <3> QED
      BY <1>3, <3>2, <3>3
  <2>2. CASE ~ (b = a /\ mem[a] = r.by)
    <3>1. mem'[b] = mem[b]
      BY <1>6, <2>2
    <3>2. ASSUME mem[b] \in RTags
          PROVE  LET u == mem[b].by
                 IN InRdcss(u)' /\ rd'[u].by = rd[u].by /\ rd'[u].addr = rd[u].addr
                    /\ rdesc'[u].seq = rdesc[u].seq
      <4>1. WordOK(b) /\ mem[b].by \in Threads
        BY <3>2, TagFields DEF KInv
      <4>2. InRdcss(mem[b].by) /\ rd[mem[b].by].by = mem[b] /\ rd[mem[b].by].addr = b
        BY <3>2, <4>1 DEF WordOK
      <4>3. mem[b].by # t
        BY <2>2, <4>2 DEF r, a
      <4>4. PICK u \in Threads \ {t} : u = mem[b].by
        BY <4>1, <4>3
      <4>5. Same(u) /\ InRdcss(u)
        BY <1>10, <4>2, <4>4
      <4>6. rd'[u] = rd[u] /\ rdesc'[u] = rdesc[u] /\ InRdcss(u)'
        BY <4>5 DEF Same, InRdcss
      <4> QED
        BY <3>1, <4>4, <4>6 DEF InRdcss
    <3> QED
      BY <1>10, <3>1, <3>2, SameWord
  <2> QED
    BY <2>1, <2>2
<1>11. CASE r.by.by = t /\ NextEntry(t) /\ UNCHANGED found
  <2>1. stack[t] # <<>> /\ r.by.seq = rdesc[t].seq
        /\ (Open(r.of) => mem[a] = r.by \/ mem[a] = r.of)
    BY <1>2, <1>11 DEF ThreadOK, OwnRdcssOK, r, a
  <2>2. r.of = Top(t).tag /\ a = At(t).addr
    BY <1>2, <1>3, <1>11, <2>1 DEF ThreadOK, DescriptorsOK
  <2>3. Open(Top(t).tag) => mem'[At(t).addr] = Top(t).tag
    BY <1>3, <1>6, <2>1, <2>2
  <2>4. /\ stack' \in [Threads -> Seq(Frames)] /\ pc' \in [Threads -> KPlaces]
        /\ \A u \in Threads \ {t} : stack'[u] = stack[u] /\ pc'[u] = pc[u]
        /\ pc'[t] \in {"prepare", "decide"}
        /\ On => StackOK(t)'
    BY <1>1, <1>11, <2>1, <2>3, NextEntryOK
  <2>5. \A u \in Threads \ {t} : Same(u)
    BY <1>1, <1>7, <1>11, <2>4 DEF Same
  <2>6. KType'
    BY <1>1, <1>6, <1>7, <1>11, <2>4 DEF KInv, KType
  <2>7. ASSUME On PROVE ThreadOK(t)'
    <3>1. FoundOK(t)'
      BY <1>11, <2>4, <2>7, FoundKept
    <3>2. DescriptorsOK(t)'
      BY <1>1, <2>4, <2>7, DescriptorsKept
    <3>3. RdcssOK(t)' /\ OwnRdcssOK(t)'
      BY <1>7, <2>4, <2>7, RdcssKept DEF InRdcss
    <3> QED
      BY <2>4, <2>7, <3>1, <3>2, <3>3 DEF ThreadOK
  <2> QED
    BY <1>1, <1>8, <1>9, <1>10, <2>4, <2>5, <2>6, <2>7, WordStep
<1>12. CASE RdcssAgain(t) /\ UNCHANGED stack
  <2>1. /\ pc' = [pc EXCEPT ![t] = IF stack[t] = <<>> THEN "read" ELSE "lock"]
        /\ found' = [found EXCEPT ![t] = NoTag]
    BY <1>12 DEF RdcssAgain, Goto
  <2>2. /\ pc'[t] = (IF stack[t] = <<>> THEN "read" ELSE "lock")
        /\ found'[t] = NoTag /\ pc'[t] \in {"read", "lock"}
        /\ \A u \in Threads \ {t} : pc'[u] = pc[u] /\ found'[u] = found[u]
    BY <1>5, <2>1
  <2>3. \A u \in Threads \ {t} : Same(u)
    BY <1>1, <1>7, <1>12, <2>2 DEF Same
  <2>4. KType'
    <3>1. pc' \in [Threads -> KPlaces]
      BY <1>5, <2>1 DEF KPlaces
    <3>2. found' \in [Threads -> RTags \cup KTags \cup {NoTag}]
      BY <1>5, <2>1
    <3> QED
      BY <1>1, <1>6, <1>7, <1>12, <3>1, <3>2 DEF KInv, KType
  <2>5. ASSUME On PROVE ThreadOK(t)'
    <3>1. StackOK(t)'
      BY <1>1, <1>12, <2>2, <2>5, StackKept
    <3>2. FoundOK(t)'
      BY <2>2, <2>5, FoundKept
    <3>3. DescriptorsOK(t)'
      BY <1>1, <1>12, <2>2, <2>5, DescriptorsKept
    <3>4. RdcssOK(t)' /\ OwnRdcssOK(t)'
      BY <1>7, <2>2, <2>5, RdcssKept DEF InRdcss
    <3> QED
      BY <3>1, <3>2, <3>3, <3>4 DEF ThreadOK
  <2> QED
    BY <1>1, <1>8, <1>9, <1>10, <2>2, <2>3, <2>4, <2>5, WordStep
<1> QED
  BY <1>1, <1>11, <1>12 DEF r

LEMMA UnlockKeeps ==
  ASSUME KInv, NEW t \in Threads, Unlock(t)
  PROVE  KInv' /\ On
<1> DEFINE a == At(t).addr
           v == IF Top(t).verdict = "succeeded" THEN At(t).new ELSE At(t).old
           q == IF Top(t).verdict = "succeeded" THEN Abstract!Succeeded ELSE Abstract!Failed
<1>1. /\ pc[t] = "unlock" /\ UNCHANGED <<kdesc, rdesc, rd>>
      /\ mem' = [mem EXCEPT ![a] = IF @ = Top(t).tag THEN Value(v) ELSE @]
  BY DEF Unlock
<1>2. \/ stack' = [stack EXCEPT ![t][1].i = @ + 1] /\ Top(t).i < Len(Top(t).entries)
         /\ UNCHANGED <<pc, found, cur>>
      \/ HelpReturns(t, q)
  BY DEF Unlock, opVars
<1>3. stack[t] # <<>> /\ ~ Open(Top(t).tag)
  BY <1>1 DEF KInv, ThreadOK, StackOK
<1>4. a \in Words /\ At(t).new \in Values /\ At(t).old \in Values
      /\ Top(t).i \in 1 .. Len(Top(t).entries) /\ Len(Top(t).entries) \in Nat
  BY <1>1, <1>3, TopEntry
<1>5. /\ Top(t).tag \in KTags /\ Known(Top(t).tag) /\ FrameOK(Top(t)) /\ Top(t) \in Frames
      /\ Top(t) = stack[t][1] /\ 1 \in DOMAIN stack[t] /\ stack[t] \in Seq(Frames)
  BY <1>3, TopFrame
<1>6. /\ pc \in [Threads -> KPlaces] /\ stack \in [Threads -> Seq(Frames)]
      /\ mem \in [Words -> Vals \cup RTags \cup KTags]
  BY DEF KInv, KType
<1>7. Value(v) \in Vals
  BY <1>4 DEF Value, Vals
<1> HIDE DEF a, v, q
<1>8. /\ mem' \in [Words -> Vals \cup RTags \cup KTags]
      /\ \A b \in Words : mem'[b] = mem[b] \/ (mem[b] = Top(t).tag /\ mem'[b] \in Vals)
  BY <1>1, <1>4, <1>6, <1>7
<1>9. WordsOn
  <2> SUFFICES ASSUME NEW k \in KTags, NEW b \in Words, Open(k)', mem[b] = k PROVE mem'[b] = k
    BY DEF WordsOn
  <2>1. Open(k)
    BY <1>1 DEF Open
  <2> QED
    BY <1>3, <1>8, <2>1
<1>10. ASSUME NEW u \in Threads \ {t} PROVE OwnOn(u)
  <2> SUFFICES ASSUME InRdcss(u), mem[rd[u].addr] = rd[u].by
               PROVE  mem'[rd[u].addr] = rd[u].by
    BY DEF OwnOn
  <2>1. rd[u] \in Rdcsses
    BY DEF KInv, ThreadOK, RdcssOK
  <2>2. rd[u].by \in RTags /\ rd[u].addr \in Words
    BY <2>1, TagFields
  <2>3. mem[rd[u].addr] # Top(t).tag
    BY <1>5, <2>2, Apart
  <2> QED
    BY <1>8, <2>2, <2>3
<1>11. ASSUME On, NEW b \in Words, \A u \in Threads \ {t} : Same(u) PROVE WordOK(b)'
  <2>1. CASE mem'[b] \in Vals
    BY <2>1, Apart DEF WordOK
  <2>2. CASE mem'[b] = mem[b]
    <3>1. ASSUME mem[b] \in RTags
          PROVE  LET u == mem[b].by
                 IN InRdcss(u)' /\ rd'[u].by = rd[u].by /\ rd'[u].addr = rd[u].addr
                    /\ rdesc'[u].seq = rdesc[u].seq
      <4>1. WordOK(b) /\ mem[b].by \in Threads
        BY <3>1, TagFields DEF KInv
      <4>2. InRdcss(mem[b].by) /\ mem[b].by # t
        BY <1>1, <3>1, <4>1 DEF WordOK, InRdcss
      <4>3. PICK u \in Threads \ {t} : u = mem[b].by
        BY <4>1, <4>2
      <4>4. Same(u) /\ InRdcss(u)
        BY <1>11, <4>2, <4>3
      <4>5. rd'[u] = rd[u] /\ rdesc'[u] = rdesc[u] /\ InRdcss(u)'
        BY <4>4 DEF Same, InRdcss
      <4> QED
        BY <2>2, <4>3, <4>5 DEF InRdcss
    <3> QED
      BY <1>11, <2>2, <3>1, SameWord
  <2> QED
    BY <1>8, <2>1, <2>2
<1>12. CASE HelpReturns(t, q)
  <2>1. /\ \A u \in Threads \ {t} : Same(u)
        /\ pc'[t] \in {"idle", "read", "prepare"}
    BY <1>1, <1>3, <1>12, HelpReturnsType DEF Same
  <2>2. KType'
    BY <1>1, <1>3, <1>8, <1>12, HelpReturnsType DEF KInv, KType
  <2>3. ASSUME On PROVE ThreadOK(t)'
    BY <1>1, <1>3, <1>12, <2>3, HelpReturnsOK
  <2> QED
    BY <1>1, <1>9, <1>10, <1>11, <2>1, <2>2, <2>3, WordStep
<1>13. CASE stack' = [stack EXCEPT ![t][1].i = @ + 1] /\ Top(t).i < Len(Top(t).entries)
            /\ UNCHANGED <<pc, found, cur>>
  <2>1. PICK n \in Nat : n = Top(t).i + 1 /\ n > 0 /\ n <= Len(Top(t).entries)
    BY <1>4, <1>13
  <2>2. PICK f \in Frames : /\ f = [Top(t) EXCEPT !.i = n] /\ f.tag = Top(t).tag
                            /\ f.entries = Top(t).entries /\ f.i = n
    <3>1. PICK Es : Frames = [tag : KTags, entries : Es, i : Nat \ {0},
                              verdict : {"succeeded", "failed"}]
      BY DEF Frames
    <3>2. PICK g \in Frames : g = Top(t)
      BY <1>5
    <3>3. /\ [g EXCEPT !.i = n] \in Frames /\ [g EXCEPT !.i = n].tag = g.tag
          /\ [g EXCEPT !.i = n].entries = g.entries /\ [g EXCEPT !.i = n].i = n
      BY <2>1, <3>1
    <3> QED
      BY <3>2, <3>3
  <2>3. stack' = [stack EXCEPT ![t] = [@ EXCEPT ![1] = f]]
    BY <1>5, <1>6, <1>13, <2>1, <2>2
  <2>4. stack' \in [Threads -> Seq(Frames)] /\ \A u \in Threads \ {t} : stack'[u] = stack[u]
    BY <1>3, <2>3, TopChanged
  <2>5. \A u \in Threads \ {t} : Same(u)
    BY <1>1, <1>13, <2>4 DEF Same
  <2>6. KType'
    BY <1>1, <1>8, <1>13, <2>4 DEF KInv, KType
  <2>7. FrameOK(f)
    <3>1. f.i <= Len(f.entries) + 1
      BY <1>4, <2>1, <2>2
    <3> QED
      BY <1>3, <1>5, <2>2, <3>1 DEF FrameOK
  <2>8. ASSUME On PROVE ThreadOK(t)'
    <3>1. FrameOK(f)'
      BY <2>7, <2>8, FramesOn
    <3>2. ~ Open(f.tag)' /\ f.i <= Len(f.entries)
      BY <1>1, <1>3, <2>1, <2>2 DEF Open
    <3>3. StackOK(t)'
      BY <1>1, <1>3, <1>13, <2>3, <2>8, <3>1, <3>2, StackChanged
    <3>4. FoundOK(t)'
      BY <1>1, <1>13, <2>8, FoundKept
    <3>5. DescriptorsOK(t)'
      BY <1>1, <1>13, <2>8, DescriptorsKept
    <3>6. RdcssOK(t)' /\ OwnRdcssOK(t)'
      BY <1>1, <1>13, <2>8, RdcssKept DEF InRdcss
    <3> QED
      BY <3>3, <3>4, <3>5, <3>6 DEF ThreadOK
  <2> QED
    BY <1>1, <1>9, <1>10, <1>11, <1>13, <2>5, <2>6, <2>8, WordStep
<1> QED
  BY <1>2, <1>12, <1>13

-----------------------------------------------------------------------------
LEMMA KStutter ==
  ASSUME KInv, UNCHANGED vars
  PROVE  KInv' /\ On
<1>1. UNCHANGED <<mem, kdesc, rdesc, pc, stack, found, rd, cur>>
  BY DEF vars
<1>2. KType'
  BY <1>1 DEF KInv, KType
<1>3. KcasOn /\ RdcssOn /\ WordsOn
  BY <1>1 DEF KcasOn, Known, Open, RdcssOn, KnownRdcss, WordsOn
<1>4. \A t \in Threads : Same(t) /\ OwnOn(t)
  BY <1>1 DEF Same, OwnOn
<1>5. \A t \in Threads : ThreadOK(t)'
  BY <1>1, <1>2, <1>3, <1>4, OtherThread DEF On
<1>6. \A a \in Words : WordOK(a)'
  <2> SUFFICES ASSUME NEW a \in Words PROVE WordOK(a)'
    OBVIOUS
  <2>1. WordOK(a)
    BY DEF KInv
  <2> QED
    BY <1>1, <2>1 DEF WordOK, Begun, Known, Open, FirstWord, InRdcss
<1> QED
  BY <1>2, <1>3, <1>5, <1>6 DEF KInv, On

LEMMA KNext == KInv /\ [Next]_vars => KInv' /\ On
<1> SUFFICES ASSUME KInv, [Next]_vars PROVE KInv' /\ On
  OBVIOUS
<1>1. CASE UNCHANGED vars
  BY <1>1, KStutter
<1>2. ASSUME NEW t \in Threads, CallStep(t) PROVE KInv' /\ On
  <2>1. CASE GetDescriptor(t)
    BY <2>1, GetDescriptorKeeps
  <2>2. ASSUME NEW a \in ReadWords[t], ReadCall(t, a) PROVE KInv' /\ On
    <3>1. a \in Words
      BY KCASAssumption
    <3> QED
      BY <2>2, <3>1, ReadCallKeeps
  <2> QED
    BY <1>2, <2>1, <2>2 DEF CallStep
<1>3. ASSUME NEW t \in Threads, Step(t) PROVE KInv' /\ On
  <2>1. ASSUME NEW es \in EntryLists[t], Execute(t, es) PROVE KInv' /\ On
    BY <2>1, ExecuteKeeps
  <2>2. CASE Read(t)
    BY <2>2, ReadKeeps
  <2>3. CASE HelpOther(t)
    BY <2>3, HelpOtherKeeps
  <2>4. CASE Help(t)
    BY <2>4, HelpKeeps
  <2>5. CASE Prepare(t)
    BY <2>5, PrepareKeeps
  <2>6. CASE Lock(t)
    BY <2>6, LockKeeps
  <2>7. CASE RdcssHelpOther(t)
    BY <2>7, RdcssHelpOtherKeeps
  <2>8. CASE RdcssHelp(t)
    BY <2>8, RdcssHelpKeeps
  <2>9. CASE RdcssSwap(t)
    BY <2>9, RdcssSwapKeeps
  <2>10. CASE Decide(t)
    BY <2>10, DecideKeeps
  <2>11. CASE Finish(t)
    BY <2>11, FinishKeeps
  <2>12. CASE Unlock(t)
    BY <2>12, UnlockKeeps
  <2> QED
    BY <1>3, <2>1, <2>2, <2>3, <2>4, <2>5, <2>6, <2>7, <2>8, <2>9, <2>10, <2>11, <2>12
    DEF Step
<1> QED
  BY <1>1, <1>2, <1>3 DEF Next, Stop

(* The k-CAS keeps its inductive invariant: what each thread that helps,   *)
(* each tag it has met, each descriptor and each word that holds a tag     *)
(* says is true of the k-CAS meant, whatever use its descriptor is in now. *)
THEOREM KcasInvariant == Spec => []KInv
<1>1. Init => KInv
  BY KInit
<1>2. KInv /\ [Next]_vars => KInv'
  BY KNext
<1> QED
  BY <1>1, <1>2, PTL DEF Spec

(* The decision that a k-CAS has succeeded. *)
LEMMA OnlyDecides ==
  ASSUME KInv, [Next]_vars, NEW t \in Threads,
         kdesc[t].state # "succeeded", kdesc'[t].state = "succeeded"
  PROVE  \E u \in Threads : Decide(u)
<1>1. kdesc' # kdesc
  OBVIOUS
<1>2. kdesc \in [Threads -> [seq : Nat \ {0}, state : {"undecided", "succeeded", "failed"},
                             entries : Seq(Entries)]]
  BY DEF KInv, KType
<1>3. ~ UNCHANGED vars
  BY <1>1 DEF vars
<1>4. PICK u \in Threads : CallStep(u) \/ Step(u)
  BY <1>3 DEF Next, Stop
<1>5. ~ GetDescriptor(u)
  <2> SUFFICES ASSUME GetDescriptor(u) PROVE FALSE
    OBVIOUS
  <2>1. kdesc' = [kdesc EXCEPT ![u] =
                    [seq |-> @.seq + 1, state |-> "undecided", entries |-> <<>>]]
    BY DEF GetDescriptor
  <2> QED
    BY <1>2, <2>1
<1>6. ASSUME NEW es \in EntryLists[u], Execute(u, es) PROVE FALSE
  <2>1. kdesc' = [kdesc EXCEPT ![u].seq = @ + 1, ![u].entries = Sorted(es)]
    BY <1>6 DEF Execute
  <2>2. kdesc'[t].state = kdesc[t].state
    <3>1. CASE t = u
      <4>1. kdesc'[u] = [kdesc[u] EXCEPT !.seq = @ + 1, !.entries = Sorted(es)]
        BY <1>2, <2>1
      <4> QED
        BY <1>2, <3>1, <4>1
    <3>2. CASE t # u
      BY <1>2, <2>1, <3>2
    <3> QED
      BY <3>1, <3>2
  <2> QED
    BY <2>2
<1>7. ~ \E a \in ReadWords[u] : ReadCall(u, a)
  BY <1>1 DEF ReadCall
<1>8. /\ ~ Read(u) /\ ~ HelpOther(u) /\ ~ Help(u) /\ ~ Prepare(u) /\ ~ Lock(u)
      /\ ~ RdcssHelpOther(u) /\ ~ RdcssHelp(u) /\ ~ RdcssSwap(u) /\ ~ Finish(u) /\ ~ Unlock(u)
  BY <1>1 DEF Read, HelpOther, Help, Prepare, Lock, RdcssHelpOther, RdcssHelp, RdcssSwap,
              Finish, Unlock
<1> QED
  BY <1>4, <1>5, <1>6, <1>7, <1>8 DEF CallStep, Step

LEMMA DecidesLocked ==
  ASSUME KInv, NEW t \in Threads, NEW u \in Threads, Decide(u),
         kdesc[t].state # "succeeded", kdesc'[t].state = "succeeded"
  PROVE  \A a \in WordsOf(kdesc[t].entries) : mem[a] = KcasTag(t, kdesc[t].seq)
<1> DEFINE k == Top(u).tag
<1>1. pc[u] = "decide"
  BY DEF Decide
<1>2. stack[u] # <<>>
  BY <1>1 DEF KInv, ThreadOK, StackOK
<1>3. /\ k \in KTags /\ FrameOK(Top(u)) /\ Top(u) \in Frames
      /\ k.by \in Threads /\ Top(u).entries \in Seq(Entries) /\ Top(u).i \in Nat
  BY <1>2, TopFrame, TagFields
<1>4. kdesc \in [Threads -> [seq : Nat \ {0}, state : {"undecided", "succeeded", "failed"},
                             entries : Seq(Entries)]]
  BY DEF KInv, KType
<1>5. Open(k) /\ kdesc' = [kdesc EXCEPT ![k.by].state = Top(u).verdict]
  BY DEF Decide, Open
<1>6. t = k.by /\ Top(u).verdict = "succeeded"
  BY <1>3, <1>4, <1>5
<1>7. Top(u).i > Len(Top(u).entries)
  BY <1>1, <1>6 DEF KInv, ThreadOK, StackOK
<1>8. k.seq = kdesc[t].seq /\ Top(u).entries = kdesc[t].entries
  BY <1>3, <1>5, <1>6 DEF FrameOK, Open
<1>9. k = KcasTag(t, kdesc[t].seq)
  <2>1. k.seq \in Nat /\ k.seq > 1
    BY <1>3, TagFields
  <2> QED
    BY <1>3, <1>6, <1>8, <2>1, TagsMade
<1> SUFFICES ASSUME NEW a \in WordsOf(kdesc[t].entries) PROVE mem[a] = k
  BY <1>9
<1>10. PICK n \in DOMAIN Top(u).entries : a = Top(u).entries[n].addr
  BY <1>8 DEF WordsOf
<1>11. n \in 1 .. Top(u).i - 1
  BY <1>3, <1>7, <1>10, IndicesOf
<1> QED
  BY <1>3, <1>5, <1>10, <1>11 DEF FrameOK

(* A k-CAS succeeds only while it holds all of its words: whoever decides  *)
(* it, the thread that executes it or one that helps, has found its tag in *)
(* every word, and none has been unlocked or taken by another since.       *)
THEOREM KcasSucceedsLocked == Spec => SucceedsLocked
<1>1. ASSUME KInv, [Next]_vars, NEW t \in Threads,
             kdesc[t].state # "succeeded" /\ kdesc'[t].state = "succeeded"
      PROVE  \A a \in WordsOf(kdesc[t].entries) : mem[a] = KcasTag(t, kdesc[t].seq)
  <2>1. PICK u \in Threads : Decide(u)
    BY <1>1, OnlyDecides
  <2> QED
    BY <1>1, <2>1, DecidesLocked
<1>2. KInv /\ [Next]_vars =>
        [\A t \in Threads :
           kdesc[t].state # "succeeded" /\ kdesc'[t].state = "succeeded" =>
             \A a \in WordsOf(kdesc[t].entries) : mem[a] = KcasTag(t, kdesc[t].seq)]_vars
  BY <1>1
<1> QED
  BY <1>2, KcasInvariant, PTL DEF Spec, SucceedsLocked

(* The tag of an RDCSS in a word is that of the use its descriptor is in:  *)
(* its thread is still in rdcssHelp for this word, so rdcssHelpOther can   *)
(* complete it.                                                            *)
THEOREM RdcssTagsAlive ==
  Spec => [](\A a \in Words : mem[a].is = "rdcss" => /\ rdesc[mem[a].by].seq = mem[a].seq
                                                     /\ InRdcss(mem[a].by))
<1>1. KInv => (\A a \in Words : mem[a].is = "rdcss" => /\ rdesc[mem[a].by].seq = mem[a].seq
                                                       /\ InRdcss(mem[a].by))
  <2> SUFFICES ASSUME KInv, NEW a \in Words, mem[a].is = "rdcss"
               PROVE  rdesc[mem[a].by].seq = mem[a].seq /\ InRdcss(mem[a].by)
    OBVIOUS
  <2>1. mem[a] \in Vals \cup RTags \cup KTags /\ WordOK(a)
    BY DEF KInv, KType
  <2> QED
    BY <2>1, WordKinds DEF WordOK
<1> QED
  BY <1>1, KcasInvariant, PTL

-----------------------------------------------------------------------------
(* An undecided k-CAS takes its words in the order of their addresses. *)
Ordered(es) == \A m, n \in DOMAIN es : m < n => es[m].addr <= es[n].addr

LEMMA SortedIsOrdered ==
  ASSUME NEW es \in Seq(Entries)
  PROVE  Ordered(Sorted(es))
<1>1. DOMAIN Sorted(es) = DOMAIN es /\ DOMAIN es = 1 .. Len(es) /\ Len(es) \in Nat
  BY IndicesOf DEF Sorted
<1> SUFFICES ASSUME NEW m \in DOMAIN es, NEW n \in DOMAIN es, m < n
             PROVE  Sorted(es)[m].addr <= Sorted(es)[n].addr
  BY <1>1 DEF Ordered
<1>2. PICK i \in DOMAIN es : Place(es, i) = m /\ Sorted(es)[m] = es[i]
  BY SortedType
<1>3. PICK j \in DOMAIN es : Place(es, j) = n /\ Sorted(es)[n] = es[j]
  BY SortedType
<1>4. es[i].addr \in Int /\ es[j].addr \in Int
  BY <1>1, IndicesOf
<1> SUFFICES ASSUME es[j].addr < es[i].addr PROVE FALSE
  BY <1>2, <1>3, <1>4
<1> DEFINE S(k) == {l \in DOMAIN es : Before(es, l, k)}
<1>5. IsFiniteSet(S(i)) /\ S(j) \subseteq S(i)
  <2>1. IsFiniteSet(DOMAIN es)
    BY <1>1, IndicesFinite
  <2>2. \A l \in DOMAIN es : es[l].addr \in Int
    BY <1>1, IndicesOf
  <2>3. S(j) \subseteq S(i)
    BY <1>4, <2>2 DEF Before
  <2> QED
    BY <2>1, <2>3, FS_Subset
<1>6. Cardinality(S(j)) <= Cardinality(S(i))
  BY <1>5, FS_Subset
<1> QED
  BY <1>1, <1>2, <1>3, <1>6 DEF Place

(* The k-CAS of tag k may come to word a: while it is undecided it holds   *)
(* its words of lower addresses.                                           *)
Follows(k, a) ==
  /\ k \in KTags /\ Known(k)
  /\ Open(k) => \A n \in DOMAIN kdesc[k.by].entries :
                  kdesc[k.by].entries[n].addr < a => mem[kdesc[k.by].entries[n].addr] = k

OrderInv ==
  /\ \A t \in Threads : Ordered(kdesc[t].entries)
  /\ \A t \in Threads : rdesc[t].seq > 1 => Follows(rdesc[t].of, rdesc[t].addr)
  /\ \A t \in Threads : rd[t] \in Rdcsses => Follows(rd[t].of, rd[t].addr)
  /\ \A a \in Words : mem[a] \in KTags => Follows(mem[a], a)

LEMMA OrderInit == Init => OrderInv
<1> SUFFICES ASSUME Init PROVE OrderInv
  OBVIOUS
<1>1. \A t \in Threads : Ordered(kdesc[t].entries)
  BY DEF Init, Ordered
<1>2. \A t \in Threads : ~ (rdesc[t].seq > 1)
  BY DEF Init
<1>3. \A t \in Threads : rd[t] \notin Rdcsses
  BY Apart DEF Init
<1>4. \A a \in Words : mem[a] \notin KTags
  BY KCASAssumption, Apart DEF Init, Value, Vals
<1> QED
  BY <1>1, <1>2, <1>3, <1>4 DEF OrderInv

LEMMA FollowsOn ==
  ASSUME KInv, On, NEW k, NEW a, Follows(k, a)
  PROVE  Follows(k, a)'
<1>1. k \in KTags /\ Known(k) /\ Known(k)' /\ k.by \in Threads
  BY TagFields DEF Follows, On, KcasOn
<1>2. ASSUME Open(k)', NEW n \in DOMAIN kdesc'[k.by].entries, kdesc'[k.by].entries[n].addr < a
      PROVE  mem'[kdesc'[k.by].entries[n].addr] = k
  <2>1. Open(k) /\ kdesc'[k.by].entries = kdesc[k.by].entries
    BY <1>1, <1>2 DEF On, KcasOn, Open
  <2>2. kdesc[k.by].entries[n].addr \in Words
    BY <1>1, <1>2, <2>1, IndicesOf DEF KInv, KType
  <2>3. mem[kdesc[k.by].entries[n].addr] = k
    BY <1>2, <2>1 DEF Follows
  <2> QED
    BY <1>1, <1>2, <2>1, <2>2, <2>3 DEF On, WordsOn
<1> QED
  BY <1>1, <1>2 DEF Follows

(* What a step changes must follow, before the step. *)
LEMMA OrderStep ==
  ASSUME KInv, On, OrderInv,
         \A t \in Threads : \/ kdesc'[t].entries = kdesc[t].entries
                            \/ Ordered(kdesc'[t].entries),
         \A t \in Threads : \/ rdesc'[t] = rdesc[t]
                            \/ Follows(rdesc'[t].of, rdesc'[t].addr),
         \A t \in Threads : \/ rd'[t] = rd[t] \/ rd'[t] \notin Rdcsses
                            \/ Follows(rd'[t].of, rd'[t].addr),
         \A a \in Words : mem'[a] = mem[a] \/ mem'[a] \notin KTags \/ Follows(mem'[a], a)
  PROVE  OrderInv'
<1>1. \A t \in Threads : Ordered(kdesc[t].entries)'
  BY DEF OrderInv, Ordered
<1>2. ASSUME NEW t \in Threads, rdesc'[t].seq > 1
      PROVE  Follows(rdesc[t].of, rdesc[t].addr)'
  <2>1. PICK k, a : k = rdesc'[t].of /\ a = rdesc'[t].addr
    OBVIOUS
  <2>2. Follows(k, a)
    BY <1>2, <2>1 DEF OrderInv
  <2>3. Known(k)' /\ k \in KTags /\ (Follows(k, a))'
    BY <2>2, FollowsOn DEF Follows
  <2> QED
    BY <2>1, <2>3 DEF Follows, Known, Open
<1>3. ASSUME NEW t \in Threads, rd'[t] \in Rdcsses
      PROVE  Follows(rd[t].of, rd[t].addr)'
  <2>1. PICK k, a : k = rd'[t].of /\ a = rd'[t].addr
    OBVIOUS
  <2>2. Follows(k, a)
    BY <1>3, <2>1 DEF OrderInv
  <2>3. (Follows(k, a))'
    BY <2>2, FollowsOn
  <2> QED
    BY <2>1, <2>3 DEF Follows, Known, Open
<1>4. ASSUME NEW a \in Words, mem'[a] \in KTags
      PROVE  Follows(mem[a], a)'
  <2>1. PICK k : k = mem'[a]
    OBVIOUS
  <2>2. Follows(k, a)
    BY <1>4, <2>1 DEF OrderInv
  <2>3. (Follows(k, a))'
    BY <2>2, FollowsOn
  <2> QED
    BY <2>1, <2>3 DEF Follows, Known, Open
<1> QED
  BY <1>1, <1>2, <1>3, <1>4 DEF OrderInv

(* The innermost call of help may come to the word of its entry. *)
LEMMA TopFollows ==
  ASSUME KInv, OrderInv, NEW t \in Threads, stack[t] # <<>>,
         pc[t] \notin {"help", "decide", "finish"}
  PROVE  Follows(Top(t).tag, At(t).addr)
<1> DEFINE k == Top(t).tag
           es == Top(t).entries
           i == Top(t).i
<1>1. k \in KTags /\ Known(k) /\ FrameOK(Top(t)) /\ k.by \in Threads /\ es \in Seq(Entries)
  BY TopFrame, TagFields
<1>2. i \in 1 .. Len(es) /\ Len(es) \in Nat /\ DOMAIN es = 1 .. Len(es)
  BY <1>1, TopEntry, IndicesOf
<1>3. ASSUME Open(k), NEW n \in DOMAIN es, es[n].addr < es[i].addr PROVE mem[es[n].addr] = k
  <2>1. Ordered(es)
    BY <1>1, <1>3 DEF OrderInv, FrameOK, Open
  <2>2. es[n].addr \in Int /\ es[i].addr \in Int
    BY <1>1, <1>2, <1>3, IndicesOf
  <2>3. n < i
    BY <1>2, <1>3, <2>1, <2>2 DEF Ordered
  <2>4. n \in 1 .. i - 1
    BY <1>2, <2>3
  <2> QED
    BY <1>1, <1>3, <2>4 DEF FrameOK
<1>4. Open(k) => kdesc[k.by].entries = es
  BY <1>1 DEF FrameOK, Open
<1> QED
  BY <1>1, <1>3, <1>4 DEF Follows, At

LEMMA OrderNext ==
  ASSUME KInv, OrderInv, [Next]_vars
  PROVE  OrderInv'
<1>on. On
  BY KNext
<1> DEFINE Quiet == UNCHANGED <<mem, kdesc, rdesc, rd>>
<1>1. CASE Quiet
  BY <1>on, <1>1, OrderStep
<1> SUFFICES ASSUME ~ Quiet, NEW t \in Threads, CallStep(t) \/ Step(t) PROVE OrderInv'
  BY <1>1 DEF Next, Stop, vars
<1>k. /\ kdesc \in [Threads -> [seq : Nat \ {0}, state : {"undecided", "succeeded", "failed"},
                                entries : Seq(Entries)]]
      /\ rdesc \in [Threads -> [seq : Nat \ {0}, addr : Words \cup {0}, old : Values,
                                of : KTags \cup {NoTag}]]
      /\ mem \in [Words -> Vals \cup RTags \cup KTags]
  BY DEF KInv, KType
<1>rd. \A u \in Threads : rd[u] \in Rdcsses \cup {NoRdcss} /\ DOMAIN rd = Threads
  BY DEF KInv, KType
<1>2. CASE GetDescriptor(t)
  <2>1. UNCHANGED <<mem, rdesc, rd>>
        /\ kdesc' = [kdesc EXCEPT ![t] = [seq |-> @.seq + 1, state |-> "undecided", entries |-> <<>>]]
    BY <1>2 DEF GetDescriptor
  <2>2. \A u \in Threads : kdesc'[u].entries = kdesc[u].entries \/ kdesc'[u].entries = <<>>
    BY <1>k, <2>1
  <2>3. Ordered(<<>>)
    BY DEF Ordered
  <2>4. \A u \in Threads : kdesc'[u].entries = kdesc[u].entries \/ Ordered(kdesc'[u].entries)
    BY <2>2, <2>3
  <2> QED
    BY <1>on, <2>1, <2>4, OrderStep
<1>3. ASSUME NEW es \in EntryLists[t], Execute(t, es) PROVE OrderInv'
  <2>1. UNCHANGED <<mem, rdesc, rd>>
        /\ kdesc' = [kdesc EXCEPT ![t].seq = @ + 1, ![t].entries = Sorted(es)]
    BY <1>3 DEF Execute
  <2>2. \A u \in Threads : kdesc'[u].entries = kdesc[u].entries \/ kdesc'[u].entries = Sorted(es)
    BY <1>k, <2>1
  <2>3. Ordered(Sorted(es))
    BY KCASAssumption, SortedIsOrdered
  <2>4. \A u \in Threads : kdesc'[u].entries = kdesc[u].entries \/ Ordered(kdesc'[u].entries)
    BY <2>2, <2>3
  <2> QED
    BY <1>on, <2>1, <2>4, OrderStep
<1>4. CASE Prepare(t)
  <2>1. /\ UNCHANGED <<mem, kdesc, rd>> /\ pc[t] = "prepare"
        /\ rdesc' = [rdesc EXCEPT ![t] = [seq |-> @.seq + 2, addr |-> At(t).addr,
                                          old |-> At(t).old, of |-> Top(t).tag]]
    BY <1>4 DEF Prepare
  <2>2. stack[t] # <<>>
    BY <2>1 DEF KInv, ThreadOK, StackOK
  <2>3. Follows(Top(t).tag, At(t).addr)
    BY <2>1, <2>2, TopFollows
  <2>4. \A u \in Threads : rdesc'[u] = rdesc[u] \/ Follows(rdesc'[u].of, rdesc'[u].addr)
    BY <1>k, <2>1, <2>3
  <2> QED
    BY <1>on, <2>1, <2>4, OrderStep
<1>5. CASE Lock(t)
  <2>1. /\ UNCHANGED <<kdesc, rdesc>> /\ pc[t] = "lock"
        /\ \/ UNCHANGED <<mem, rd>>
           \/ /\ mem' = [mem EXCEPT ![At(t).addr] = RdcssTag(t, rdesc[t].seq)]
              /\ rd' = [rd EXCEPT ![t] = [by |-> RdcssTag(t, rdesc[t].seq), addr |-> At(t).addr,
                                          new |-> Value(At(t).old), of |-> Top(t).tag]]
    BY <1>5 DEF Lock
  <2>2. stack[t] # <<>>
    BY <2>1 DEF KInv, ThreadOK, StackOK
  <2>3. Follows(Top(t).tag, At(t).addr)
    BY <2>1, <2>2, TopFollows
  <2>4. \A u \in Threads : rd'[u] = rd[u] \/ Follows(rd'[u].of, rd'[u].addr)
    BY <1>rd, <2>1, <2>3
  <2>5. RdcssTag(t, rdesc[t].seq) \notin KTags
    BY DEF KTags, RdcssTag
  <2>6. \A a \in Words : mem'[a] = mem[a] \/ mem'[a] \notin KTags
    BY <1>k, <2>1, <2>5
  <2> QED
    BY <1>on, <2>1, <2>4, <2>6, OrderStep
<1>6. CASE RdcssHelpOther(t)
  <2> DEFINE r == rdesc[found[t].by]
  <2>1. /\ UNCHANGED <<mem, kdesc, rdesc>> /\ pc[t] = "rdcssHelpOther"
        /\ r.seq = found[t].seq
        /\ rd' = [rd EXCEPT ![t] = [by |-> found[t], addr |-> r.addr,
                                    new |-> Value(r.old), of |-> r.of]]
    BY <1>6 DEF RdcssHelpOther
  <2>2. found[t] \in RTags
    BY <2>1 DEF KInv, ThreadOK, FoundOK
  <2>3. Follows(r.of, r.addr)
    BY <2>1, <2>2, TagFields DEF OrderInv
  <2>4. \A u \in Threads : rd'[u] = rd[u] \/ Follows(rd'[u].of, rd'[u].addr)
    BY <1>rd, <2>1, <2>3
  <2> QED
    BY <1>on, <2>1, <2>4, OrderStep
<1>7. CASE RdcssHelp(t)
  <2>1. /\ UNCHANGED <<mem, kdesc, rdesc>> /\ InRdcss(t)
        /\ rd' = [rd EXCEPT ![t].new = rd[t].of] \/ rd' = rd
    BY <1>7 DEF RdcssHelp, InRdcss
  <2>2. rd[t] \in Rdcsses
    BY <2>1 DEF KInv, ThreadOK, RdcssOK
  <2>3. Follows(rd[t].of, rd[t].addr)
    BY <2>2 DEF OrderInv
  <2>4. rd'[t] = rd[t] \/ (rd'[t].of = rd[t].of /\ rd'[t].addr = rd[t].addr)
    BY <1>rd, <2>1, <2>2 DEF Rdcsses
  <2>5. \A u \in Threads : rd'[u] = rd[u] \/ Follows(rd'[u].of, rd'[u].addr)
    BY <1>rd, <2>1, <2>3, <2>4
  <2> QED
    BY <1>on, <2>1, <2>5, OrderStep
<1>8. CASE RdcssSwap(t)
  <2>1. /\ UNCHANGED <<kdesc, rdesc>> /\ InRdcss(t)
        /\ mem' = [mem EXCEPT ![rd[t].addr] = IF @ = rd[t].by THEN rd[t].new ELSE @]
        /\ rd' = [rd EXCEPT ![t] = NoRdcss]
    BY <1>8 DEF RdcssSwap, InRdcss
  <2>2. rd[t] \in Rdcsses /\ (rd[t].new \in Vals \/ rd[t].new = rd[t].of)
    BY <2>1 DEF KInv, ThreadOK, RdcssOK
  <2>3. Follows(rd[t].of, rd[t].addr)
    BY <2>2 DEF OrderInv
  <2>4. \A u \in Threads : rd'[u] = rd[u] \/ rd'[u] \notin Rdcsses
    BY <1>rd, <2>1, Apart
  <2>5. \A a \in Words : mem'[a] = mem[a] \/ (a = rd[t].addr /\ mem'[a] = rd[t].new)
    BY <1>k, <2>1
  <2>6. \A a \in Words : mem'[a] = mem[a] \/ mem'[a] \notin KTags \/ Follows(mem'[a], a)
    BY <2>2, <2>3, <2>5, Apart
  <2> QED
    BY <1>on, <2>1, <2>4, <2>6, OrderStep
<1>9. CASE Decide(t)
  <2>1. /\ UNCHANGED <<mem, rdesc, rd>>
        /\ \/ UNCHANGED kdesc
           \/ kdesc' = [kdesc EXCEPT ![Top(t).tag.by].state = Top(t).verdict]
    BY <1>9 DEF Decide
  <2>2. PICK Es : Es = Seq(Entries)
    OBVIOUS
  <2>3. kdesc \in [Threads -> [seq : Nat \ {0}, state : {"undecided", "succeeded", "failed"},
                               entries : Es]]
    BY <1>k, <2>2
  <2>4. \A u \in Threads : kdesc'[u].entries = kdesc[u].entries
    BY <2>1, <2>3
  <2> QED
    BY <1>on, <2>1, <2>4, OrderStep
<1>10. CASE Unlock(t)
  <2>1. /\ UNCHANGED <<kdesc, rdesc, rd>>
        /\ \E v : mem' = [mem EXCEPT ![At(t).addr] = IF @ = Top(t).tag THEN Value(v) ELSE @]
    BY <1>10 DEF Unlock
  <2>2. \A v : Value(v) \notin KTags
    BY DEF Value, KTags
  <2>3. \A a \in Words : mem'[a] = mem[a] \/ mem'[a] \notin KTags
    BY <1>k, <2>1, <2>2
  <2> QED
    BY <1>on, <2>1, <2>3, OrderStep
<1>11. /\ ~ \E a \in ReadWords[t] : ReadCall(t, a)
       /\ ~ Read(t) /\ ~ HelpOther(t) /\ ~ Help(t) /\ ~ Finish(t)
  BY DEF ReadCall, Read, HelpOther, Help, Finish
<1> QED
  BY <1>2, <1>3, <1>4, <1>5, <1>6, <1>7, <1>8, <1>9, <1>10, <1>11 DEF CallStep, Step

LEMMA Highest ==
  ASSUME NEW S, S \subseteq Words, S # {}
  PROVE  \E b \in S : \A a \in S : a <= b
<1> SUFFICES ASSUME NEW W, W = {NumWords - a : a \in S}
             PROVE  \E b \in S : \A a \in S : a <= b
  OBVIOUS
<1>1. NumWords \in Nat /\ \A a \in S : a \in Nat /\ NumWords - a \in Nat
  BY KCASAssumption DEF Words
<1>2. W \subseteq Nat /\ W # {}
  BY <1>1
<1>3. PICK m \in W : \A k \in W : ~ (<<k, m>> \in OpToRel(<, Nat))
  BY <1>2, NatLessThanWellFounded, WFMin
<1>4. \A k \in W : ~ (k < m)
  BY <1>2, <1>3, Zenon DEF OpToRel
<1>5. PICK b \in S : m = NumWords - b
  OBVIOUS
<1>6. ASSUME NEW a \in S PROVE a <= b
  <2>1. NumWords - a \in W
    OBVIOUS
  <2> QED
    BY <1>1, <1>4, <1>5, <2>1
<1> QED
  BY <1>6

(* Of the k-CASes in a circle the one that holds the highest word would    *)
(* hold the lower one, too, that another is said to hold.                  *)
LEMMA NoCircle ==
  ASSUME KInv, OrderInv
  PROVE  NoHelpCycle
<1> SUFFICES ASSUME NEW S \in SUBSET Undecided, S # {}
             PROVE  \E t \in S : \A u \in S \ {t} : \A a \in WordsOf(kdesc[t].entries) :
                      mem[a] # KcasTag(u, kdesc[u].seq)
  BY DEF NoHelpCycle
<1> DEFINE H == {a \in Words : \E u \in S : mem[a] = KcasTag(u, kdesc[u].seq)}
<1>1. S \subseteq Threads /\ \A t \in S : kdesc[t].state = "undecided"
  BY DEF Undecided
<1>2. /\ kdesc \in [Threads -> [seq : Nat \ {0}, state : {"undecided", "succeeded", "failed"},
                                entries : Seq(Entries)]]
      /\ mem \in [Words -> Vals \cup RTags \cup KTags]
  BY DEF KInv, KType
<1>3. \A t \in S : \A a \in WordsOf(kdesc[t].entries) : a \in Words
  <2> SUFFICES ASSUME NEW t \in S, NEW n \in DOMAIN kdesc[t].entries
               PROVE  kdesc[t].entries[n].addr \in Words
    BY DEF WordsOf
  <2>1. kdesc[t].entries \in Seq(Entries)
    BY <1>1, <1>2
  <2> QED
    BY <2>1, IndicesOf
<1>4. CASE H = {}
  BY <1>3, <1>4
<1>5. CASE H # {}
  <2>1. PICK b \in H : \A a \in H : a <= b
    BY <1>5, Highest
  <2>2. PICK t \in S : mem[b] = KcasTag(t, kdesc[t].seq)
    OBVIOUS
  <2>3. mem[b] \in KTags /\ mem[b].by = t /\ mem[b].seq = kdesc[t].seq
    BY <1>2, <2>2, WordKinds DEF KcasTag
  <2>4. Follows(mem[b], b) /\ Open(mem[b])
    BY <1>1, <2>3 DEF OrderInv, Open
  <2>5. ASSUME NEW u \in S \ {t}, NEW a \in WordsOf(kdesc[t].entries),
               mem[a] = KcasTag(u, kdesc[u].seq)
        PROVE  FALSE
    <3>1. a \in Words /\ a \in H /\ a <= b
      BY <1>3, <2>1, <2>5
    <3>2. mem[a] # mem[b]
      BY <2>2, <2>5 DEF KcasTag
    <3>3. a < b
      BY <3>1, <3>2 DEF Words
    <3>4. PICK n \in DOMAIN kdesc[t].entries : a = kdesc[t].entries[n].addr
      BY DEF WordsOf
    <3> QED
      BY <2>3, <2>4, <3>2, <3>3, <3>4 DEF Follows
  <2> QED
    BY <2>5
<1> QED
  BY <1>4, <1>5

(* Helpers never wait for each other in a circle, whatever the k-CASes are *)
(* and however late a helper comes, since execute sorts the entries.       *)
THEOREM HelpersDoNotCircle == Spec => []NoHelpCycle
<1>1. Init => OrderInv
  BY OrderInit
<1>2. KInv /\ OrderInv /\ [Next]_vars => OrderInv'
  BY OrderNext
<1>3. KInv /\ OrderInv => NoHelpCycle
  BY NoCircle
<1> QED
  BY <1>1, <1>2, <1>3, KcasInvariant, PTL DEF Spec

-----------------------------------------------------------------------------
(* Reclamation. *)
Bags == 0 .. NUMBER_OF_EPOCH_BAGS - 1
Even(n) == n % 2 = 0
Starting == {"scan", "advance", "enter"}
Inside == {"inside", "retire", "done"}
Outside == {"quiescent", "rotate", "announce"}

EpochTypeOK ==
  /\ epoch \in Nat
  /\ announcedEpoch \in [D!Threads -> Nat]
  /\ buffer \in [D!Threads -> Seq(Nat)]
  /\ localEpoch \in [D!Threads -> Nat]
  /\ checked \in [D!Threads -> Nat]
  /\ started \in [D!Threads -> Nat]
  /\ debraPc \in [D!Threads -> Outside \cup Starting \cup Inside]

(* What a thread read is an epoch, unless it has not started any operation. *)
EpochsEven ==
  /\ Even(epoch)
  /\ \A t \in D!Threads :
       /\ Even(started[t]) /\ started[t] <= epoch
       /\ \/ Even(localEpoch[t]) /\ localEpoch[t] <= epoch
          \/ localEpoch[t] = 1 /\ debraPc[t] = "quiescent"

(* What is in the store buffer of a thread depends on where it is. *)
StoresInOrder ==
  \A t \in D!Threads :
    /\ debraPc[t] \in Outside =>
         \/ Len(buffer[t]) = 0 /\ ~ Even(announcedEpoch[t])
         \/ Len(buffer[t]) = 1 /\ ~ Even(buffer[t][1])
    /\ debraPc[t] \in Starting =>
         \/ Len(buffer[t]) = 0 /\ announcedEpoch[t] = localEpoch[t]
         \/ Len(buffer[t]) = 1 /\ buffer[t][1] = localEpoch[t]
         \/ /\ Len(buffer[t]) = 2 /\ ~ Even(buffer[t][1])
            /\ buffer[t][2] = localEpoch[t]
    /\ debraPc[t] \in Inside =>
         Len(buffer[t]) = 0 /\ announcedEpoch[t] = localEpoch[t]

(* An announcement that others see holds the epoch, *)
AnnouncementHolds ==
  \A t \in D!Threads : Even(announcedEpoch[t]) =>
    announcedEpoch[t] <= started[t] /\ epoch <= started[t] + 2

(* because nobody's scan in the epoch after it gets past it. *)
ScanStops ==
  \A c, t \in D!Threads :
    (c # t /\ Even(announcedEpoch[t]) /\ epoch = started[t] + 2
       /\ localEpoch[c] = epoch) => checked[c] <= t

ScanComplete == \A c \in D!Threads : debraPc[c] = "advance" => checked[c] >= NUM_PROCESSES

EpochInv == /\ D!Proper /\ EpochTypeOK /\ EpochsEven /\ StoresInOrder
            /\ AnnouncementHolds /\ ScanStops /\ ScanComplete

-----------------------------------------------------------------------------
NodeTypeOK ==
  /\ epochbags \in [D!Threads -> [Bags -> SUBSET Records]]
  /\ index \in [D!Threads -> Bags]
  /\ linked \in SUBSET Records
  /\ free \in SUBSET Records
  /\ own \in [D!Threads -> SUBSET Records]
  /\ borrowed \in [D!Threads -> SUBSET Records]
  /\ late \in [D!Threads -> SUBSET Records]
  /\ unlinked \in [D!Threads -> SUBSET Records]
  /\ leads \in [Records -> SUBSET Records]
  /\ unlinkedAt \in [Records -> Int]

(* How many rotations ago bag b of u was the current one. *)
Age(u, b) == IF b <= index[u] THEN index[u] - b
             ELSE index[u] - b + NUMBER_OF_EPOCH_BAGS

(* A node is in one place. *)
OnePlace ==
  /\ linked \cap free = {}
  /\ \A t \in D!Threads : unlinked[t] \cap (linked \cup free) = {}
  /\ \A t, u \in D!Threads : unlinked[t] \cap unlinked[u] # {} => t = u
  /\ \A u \in D!Threads, b \in Bags : epochbags[u][b] \cap (linked \cup free) = {}
  /\ \A t, u \in D!Threads, b \in Bags : unlinked[t] \cap epochbags[u][b] = {}
  /\ \A u, v \in D!Threads, b, c \in Bags :
       epochbags[u][b] \cap epochbags[v][c] # {} => u = v /\ b = c

(* The rotations since a node was retired, the pending one too, were made  *)
(* at epochs that followed each other.                                     *)
RotationsTell ==
  \A u \in D!Threads : \A b \in Bags : \A r \in epochbags[u][b] :
    /\ Even(localEpoch[u])
    /\ Age(u, b) >= 1 => localEpoch[u] >= unlinkedAt[r] + 2 * (Age(u, b) - 1)
    /\ debraPc[u] = "rotate" => localEpoch[u] >= unlinkedAt[r] + 2 * Age(u, b)

OldBagsEmpty ==
  \A u \in D!Threads, b \in Bags :
    Age(u, b) >= NUMBER_OF_EPOCH_BAGS - NUMBER_OF_ALWAYS_EMPTY_EPOCH_BAGS
      => epochbags[u][b] = {}

TakenOutBefore == \A r \in Records : unlinkedAt[r] <= epoch

FreeIsOld == \A r \in free : unlinkedAt[r] + 8 <= epoch

(* What an operation holds was in the structure after it started; what it  *)
(* got from another was in the structure after the other started; what it  *)
(* got from one that had ended was in the structure after that one         *)
(* started, which the late helper overlapped, as this one the late helper. *)
HeldIsRecent ==
  \A t \in D!Threads :
    /\ debraPc[t] \notin Inside => own[t] = {} /\ borrowed[t] = {} /\ late[t] = {}
    /\ \A r \in own[t] \ linked : unlinkedAt[r] >= started[t]
    /\ \A r \in borrowed[t] \ linked : unlinkedAt[r] >= started[t] - 2
    /\ \A r \in late[t] \ linked : unlinkedAt[r] >= started[t] - 4

LeadsLater ==
  \A r \in Records : \A q \in leads[r] \ linked : unlinkedAt[q] >= unlinkedAt[r]

NodeInv == /\ NodeTypeOK /\ OnePlace /\ RotationsTell /\ OldBagsEmpty
           /\ TakenOutBefore /\ FreeIsOld /\ HeldIsRecent /\ LeadsLater
-----------------------------------------------------------------------------
LEMMA Parity ==
  /\ \A n \in Nat : Even(n) => ~ Even(n + 1) /\ Even(n + 2)
  /\ \A n \in Nat : Even(n) => D!BITS_EPOCH(n) = n /\ ~ D!QUIESCENT(n)
  /\ \A n \in Nat : D!QUIESCENT(n) <=> ~ Even(n)
  /\ \A n \in Nat : \A m \in Nat : Even(n) /\ Even(m) /\ n < m => n + 2 <= m
BY DEF Even, D!BITS_EPOCH, D!QUIESCENT, D!EPOCH_INCREMENT

(* The initial state. *)
LEMMA EpochInit == D!Proper /\ D!Init => EpochInv
<1> SUFFICES ASSUME D!Proper, D!Init PROVE EpochInv
  OBVIOUS
<1> USE DEF D!Init, Even, D!GET_WITH_QUIESCENT
<1>1. EpochTypeOK
  BY DEF EpochTypeOK, Outside
<1>2. EpochsEven
  BY DEF EpochsEven
<1>3. StoresInOrder
  BY DEF StoresInOrder, Outside, Starting, Inside
<1>4. AnnouncementHolds /\ ScanStops /\ ScanComplete
  BY DEF AnnouncementHolds, ScanStops, ScanComplete
<1> QED
  BY <1>1, <1>2, <1>3, <1>4 DEF EpochInv

(* The oldest store becomes visible: a quiescent announcement, or the epoch *)
(* that was read; then the announcement counts from now on.                *)
LEMMA EpochDrain ==
  ASSUME EpochInv, NEW t \in D!Threads, D!Drain(t)
  PROVE  EpochInv'
<1> DEFINE a == buffer[t][1]
<1>1. /\ buffer[t] \in Seq(Nat) /\ Len(buffer[t]) >= 1 /\ a \in Nat
      /\ a = Head(buffer[t])
  BY DEF EpochInv, EpochTypeOK, D!Drain
<1>2. /\ announcedEpoch' = [announcedEpoch EXCEPT ![t] = a]
      /\ buffer' = [buffer EXCEPT ![t] = Tail(@)]
      /\ started' = [started EXCEPT ![t] = IF Even(a) THEN epoch ELSE 0]
      /\ UNCHANGED <<epoch, localEpoch, checked, debraPc>>
  BY <1>1, Parity DEF D!Drain
<1>3. /\ Len(buffer'[t]) = Len(buffer[t]) - 1
      /\ Len(buffer[t]) = 2 => buffer'[t][1] = buffer[t][2]
  BY <1>1, <1>2 DEF EpochInv, EpochTypeOK
<1>4. EpochTypeOK'
  BY <1>1, <1>2 DEF EpochInv, EpochTypeOK
<1>5. EpochsEven'
  <2>1. Even(0)
    BY DEF Even
  <2> QED
    BY <1>2, <2>1 DEF EpochInv, EpochTypeOK, EpochsEven
<1>6. debraPc[t] \in Outside \cup Starting /\ (Even(a) => debraPc[t] \in Starting /\ a <= epoch)
  BY <1>1 DEF EpochInv, EpochTypeOK, StoresInOrder, EpochsEven, Outside, Starting, Inside
<1>7. StoresInOrder'
  <2> SUFFICES ASSUME NEW u \in D!Threads PROVE StoresInOrder!(u)'
    BY DEF StoresInOrder
  <2>1. ASSUME u # t PROVE StoresInOrder!(u)'
    BY <1>2, <2>1 DEF EpochInv, EpochTypeOK, StoresInOrder
  <2>2. ASSUME u = t PROVE StoresInOrder!(u)'
    BY <1>1, <1>2, <1>3, <1>6, <2>2
       DEF EpochInv, EpochTypeOK, StoresInOrder, Outside, Starting, Inside
  <2> QED
    BY <2>1, <2>2
<1>8. AnnouncementHolds' /\ ScanStops' /\ ScanComplete'
  BY <1>1, <1>2, <1>6, SMTT(30) DEF EpochInv, EpochTypeOK, AnnouncementHolds, ScanStops, ScanComplete
<1> QED
  BY <1>4, <1>5, <1>7, <1>8 DEF EpochInv

LEMMA EpochStartOp ==
  ASSUME EpochInv, NEW t \in D!Threads, D!StartOp(t)
  PROVE  EpochInv'
<1>1. /\ localEpoch' = [localEpoch EXCEPT ![t] = epoch]
      /\ UNCHANGED <<epoch, announcedEpoch, buffer, started>>
      /\ debraPc[t] = "quiescent"
  BY DEF D!StartOp
<1>2. PICK p \in {"announce", "rotate"}, k \in {checked[t], 0} :
        /\ debraPc' = [debraPc EXCEPT ![t] = p] /\ checked' = [checked EXCEPT ![t] = k]
        /\ epoch # localEpoch[t] => k = 0
  BY DEF D!StartOp, D!Goto, EpochInv, EpochTypeOK
<1>3. EpochTypeOK'
  BY <1>1, <1>2 DEF EpochInv, EpochTypeOK, Outside
<1>4. EpochsEven'
  BY <1>1, <1>2 DEF EpochInv, EpochTypeOK, EpochsEven
<1>5. StoresInOrder'
  BY <1>1, <1>2 DEF EpochInv, EpochTypeOK, StoresInOrder, Outside, Starting, Inside
<1>6. AnnouncementHolds' /\ ScanComplete'
  BY <1>1, <1>2 DEF EpochInv, EpochTypeOK, AnnouncementHolds, ScanComplete
<1>7. ScanStops'
  BY <1>1, <1>2 DEF EpochInv, EpochTypeOK, ScanStops, D!Threads
<1> QED
  BY <1>3, <1>4, <1>5, <1>6, <1>7 DEF EpochInv

LEMMA EpochRotate ==
  ASSUME EpochInv, NEW t \in D!Threads, D!Rotate(t)
  PROVE  EpochInv'
<1>1. /\ UNCHANGED <<epoch, announcedEpoch, buffer, localEpoch, checked, started>>
      /\ debraPc[t] = "rotate" /\ debraPc' = [debraPc EXCEPT ![t] = "announce"]
  BY DEF D!Rotate, D!epochVars, D!Goto
<1>2. EpochTypeOK' /\ EpochsEven'
  BY <1>1 DEF EpochInv, EpochTypeOK, EpochsEven, Outside
<1>3. StoresInOrder'
  BY <1>1 DEF EpochInv, EpochTypeOK, StoresInOrder, Outside, Starting, Inside
<1>4. AnnouncementHolds' /\ ScanStops' /\ ScanComplete'
  BY <1>1 DEF EpochInv, EpochTypeOK, AnnouncementHolds, ScanStops, ScanComplete
<1> QED
  BY <1>2, <1>3, <1>4 DEF EpochInv

(* A store at the end of the buffer, as of Announce and of EndOp. *)
LEMMA Appended ==
  ASSUME EpochTypeOK, NEW t \in D!Threads, NEW a \in Nat, D!Store(t, a)
  PROVE  /\ buffer' \in [D!Threads -> Seq(Nat)]
         /\ \A u \in D!Threads \ {t} : buffer'[u] = buffer[u]
         /\ Len(buffer'[t]) = Len(buffer[t]) + 1
         /\ buffer'[t][Len(buffer[t]) + 1] = a
         /\ \A i \in 1 .. Len(buffer[t]) : buffer'[t][i] = buffer[t][i]
BY DEF EpochTypeOK, D!Store

LEMMA EpochAnnounce ==
  ASSUME EpochInv, NEW t \in D!Threads, D!Announce(t)
  PROVE  EpochInv'
<1>1. /\ UNCHANGED <<epoch, announcedEpoch, localEpoch, checked, started>>
      /\ debraPc[t] = "announce" /\ debraPc' = [debraPc EXCEPT ![t] = "scan"]
      /\ D!Store(t, localEpoch[t]) /\ localEpoch[t] \in Nat
  BY DEF D!Announce, D!Goto, EpochInv, EpochTypeOK
<1>2. EpochTypeOK' /\ EpochsEven'
  BY <1>1, Appended DEF EpochInv, EpochTypeOK, EpochsEven, Starting
<1>3. StoresInOrder'
  <2> SUFFICES ASSUME NEW u \in D!Threads PROVE StoresInOrder!(u)'
    BY DEF StoresInOrder
  <2>1. ASSUME u # t PROVE StoresInOrder!(u)'
    BY <1>1, <2>1, Appended, SMTT(30) DEF EpochInv, EpochTypeOK, StoresInOrder
  <2>2. ASSUME u = t PROVE StoresInOrder!(u)'
    <3>1. \/ Len(buffer[t]) = 0
          \/ Len(buffer[t]) = 1 /\ ~ Even(buffer[t][1])
      BY <1>1 DEF EpochInv, StoresInOrder, Outside
    <3>2. \/ Len(buffer'[t]) = 1 /\ buffer'[t][1] = localEpoch[t]
          \/ /\ Len(buffer'[t]) = 2 /\ ~ Even(buffer'[t][1])
             /\ buffer'[t][2] = localEpoch[t]
      <4>1. EpochTypeOK
        BY DEF EpochInv
      <4>2. /\ Len(buffer'[t]) = Len(buffer[t]) + 1
            /\ buffer'[t][Len(buffer[t]) + 1] = localEpoch[t]
            /\ \A i \in 1 .. Len(buffer[t]) : buffer'[t][i] = buffer[t][i]
        BY <1>1, <4>1, Appended
      <4> QED
        BY <3>1, <4>2
    <3> QED
      BY <1>1, <2>2, <3>2 DEF EpochInv, EpochTypeOK, Outside, Starting, Inside
  <2> QED
    BY <2>1, <2>2
<1>4. AnnouncementHolds' /\ ScanStops' /\ ScanComplete'
  BY <1>1 DEF EpochInv, EpochTypeOK, AnnouncementHolds, ScanStops, ScanComplete
<1> QED
  BY <1>2, <1>3, <1>4 DEF EpochInv

(* A scan gets past no thread whose announcement is older than the epoch. *)
LEMMA EpochScan ==
  ASSUME EpochInv, NEW t \in D!Threads, D!Scan(t)
  PROVE  EpochInv'
<1>1. /\ UNCHANGED <<epoch, announcedEpoch, buffer, localEpoch, started>>
      /\ debraPc[t] = "scan"
  BY DEF D!Scan
<1>2. PICK p \in {"advance", "enter"}, k \in {checked[t], checked[t] + 1} :
        /\ debraPc' = [debraPc EXCEPT ![t] = p] /\ checked' = [checked EXCEPT ![t] = k]
        /\ p = "advance" => k >= NUM_PROCESSES
        /\ k = checked[t] \/ checked[t] = t
             \/ D!BITS_EPOCH(announcedEpoch[checked[t]]) = localEpoch[t]
             \/ D!QUIESCENT(announcedEpoch[checked[t]])
  <2>1. checked[t] \in Nat /\ checked = [checked EXCEPT ![t] = checked[t]]
    BY DEF EpochInv, EpochTypeOK
  <2> QED
    BY <2>1 DEF D!Scan, D!Goto
<1>3. EpochTypeOK'
  BY <1>1, <1>2 DEF EpochInv, EpochTypeOK, Starting
<1>4. EpochsEven'
  BY <1>1, <1>2 DEF EpochInv, EpochTypeOK, EpochsEven
<1>5. StoresInOrder'
  BY <1>1, <1>2 DEF EpochInv, EpochTypeOK, StoresInOrder, Outside, Starting, Inside
<1>6. AnnouncementHolds' /\ ScanComplete'
  BY <1>1, <1>2 DEF EpochInv, EpochTypeOK, AnnouncementHolds, ScanComplete
<1>7. ScanStops'
  <2> SUFFICES ASSUME NEW c \in D!Threads, NEW u \in D!Threads,
                      c # u, Even(announcedEpoch[u]), epoch = started[u] + 2,
                      localEpoch[c] = epoch
               PROVE  checked'[c] <= u
    BY <1>1 DEF ScanStops
  <2>1. checked[c] <= u /\ u \in Nat /\ checked[c] \in Nat
    BY DEF EpochInv, EpochTypeOK, ScanStops, D!Threads
  <2>2. announcedEpoch[u] < localEpoch[c] /\ announcedEpoch[u] \in Nat
    BY DEF EpochInv, EpochTypeOK, AnnouncementHolds
  <2>3. /\ D!BITS_EPOCH(announcedEpoch[u]) # localEpoch[c]
        /\ ~ D!QUIESCENT(announcedEpoch[u])
    BY <2>2, Parity DEF EpochInv, EpochTypeOK
  <2>4. ASSUME c = t, checked[t] = u PROVE checked'[c] <= u
    BY <1>2, <2>1, <2>3, <2>4 DEF EpochInv, EpochTypeOK
  <2> QED
    BY <1>2, <2>1, <2>4 DEF EpochInv, EpochTypeOK
<1> QED
  BY <1>3, <1>4, <1>5, <1>6, <1>7 DEF EpochInv

(* The epoch advances only past announcements of that epoch. *)
LEMMA EpochAdvance ==
  ASSUME EpochInv, NEW t \in D!Threads, D!Advance(t)
  PROVE  EpochInv'
<1>1. /\ UNCHANGED <<announcedEpoch, buffer, localEpoch, checked, started>>
      /\ debraPc[t] = "advance" /\ debraPc' = [debraPc EXCEPT ![t] = "enter"]
      /\ buffer[t] = << >>
      /\ epoch' = IF epoch = localEpoch[t] THEN epoch + 2 ELSE epoch
  BY DEF D!Advance, D!Goto, D!EPOCH_INCREMENT
<1>2. epoch \in Nat /\ Even(epoch) /\ Even(epoch')
  BY <1>1, Parity DEF EpochInv, EpochTypeOK, EpochsEven
<1>3. EpochTypeOK'
  BY <1>1, <1>2 DEF EpochInv, EpochTypeOK, Starting
<1>4. EpochsEven'
  BY <1>1, <1>2 DEF EpochInv, EpochTypeOK, EpochsEven
<1>5. StoresInOrder'
  BY <1>1 DEF EpochInv, EpochTypeOK, StoresInOrder, Outside, Starting, Inside
<1>6. announcedEpoch[t] = localEpoch[t]
  BY <1>1 DEF EpochInv, StoresInOrder, Outside, Starting, Inside
<1>7. AnnouncementHolds'
  <2> SUFFICES ASSUME NEW u \in D!Threads, Even(announcedEpoch[u])
               PROVE  announcedEpoch[u] <= started[u] /\ epoch' <= started[u] + 2
    BY <1>1 DEF AnnouncementHolds
  <2>1. /\ announcedEpoch[u] <= started[u] /\ epoch <= started[u] + 2
        /\ started[u] <= epoch /\ Even(started[u])
        /\ announcedEpoch[u] \in Nat /\ started[u] \in Nat
    BY DEF EpochInv, EpochTypeOK, EpochsEven, AnnouncementHolds
  <2>2. epoch = started[u] \/ epoch = started[u] + 2
    BY <1>2, <2>1, Parity
  <2>3. ASSUME epoch = localEpoch[t] PROVE epoch = started[u]
    <3>1. ASSUME u = t PROVE epoch = started[u]
      BY <1>2, <1>6, <2>1, <2>3, <3>1
    <3>2. ASSUME u # t, epoch = started[u] + 2 PROVE FALSE
      <4>1. checked[t] <= u /\ checked[t] >= NUM_PROCESSES /\ checked[t] \in Nat
        BY <1>1, <2>3, <3>2 DEF EpochInv, EpochTypeOK, ScanStops, ScanComplete
      <4> QED
        BY <4>1 DEF EpochInv, D!Proper, D!Threads
    <3> QED
      BY <2>2, <3>1, <3>2
  <2> QED
    BY <1>1, <1>2, <2>1, <2>3
<1>8. ScanStops'
  <2> SUFFICES ASSUME NEW c \in D!Threads, localEpoch[c] = epoch'
               PROVE  epoch' = epoch
    BY <1>1 DEF EpochInv, EpochTypeOK, ScanStops
  <2>1. localEpoch[c] <= epoch \/ localEpoch[c] = 1
    BY DEF EpochInv, EpochsEven
  <2> QED
    BY <1>1, <1>2, <2>1 DEF EpochInv, EpochTypeOK
<1>9. ScanComplete'
  BY <1>1 DEF EpochInv, EpochTypeOK, ScanComplete
<1> QED
  BY <1>3, <1>4, <1>5, <1>7, <1>8, <1>9 DEF EpochInv

LEMMA EpochEnter ==
  ASSUME EpochInv, NEW t \in D!Threads, D!Enter(t)
  PROVE  EpochInv'
<1>1. /\ UNCHANGED <<epoch, announcedEpoch, buffer, localEpoch, checked, started>>
      /\ debraPc[t] = "enter" /\ debraPc' = [debraPc EXCEPT ![t] = "inside"]
      /\ buffer[t] = << >>
  BY DEF D!Enter, D!epochVars, D!Goto
<1>2. EpochTypeOK' /\ EpochsEven'
  BY <1>1 DEF EpochInv, EpochTypeOK, EpochsEven, Inside
<1>3. StoresInOrder'
  BY <1>1 DEF EpochInv, EpochTypeOK, StoresInOrder, Outside, Starting, Inside
<1>4. AnnouncementHolds' /\ ScanStops' /\ ScanComplete'
  BY <1>1 DEF EpochInv, EpochTypeOK, AnnouncementHolds, ScanStops, ScanComplete
<1> QED
  BY <1>2, <1>3, <1>4 DEF EpochInv

LEMMA EpochEndOp ==
  ASSUME EpochInv, NEW t \in D!Threads, D!EndOp(t)
  PROVE  EpochInv'
<1> DEFINE q == localEpoch[t] + 1
<1>1. /\ UNCHANGED <<epoch, announcedEpoch, localEpoch, checked, started>>
      /\ debraPc[t] \in Inside /\ debraPc' = [debraPc EXCEPT ![t] = "quiescent"]
      /\ D!Store(t, q) /\ q \in Nat
  BY DEF D!EndOp, D!Goto, EpochInv, EpochTypeOK, D!GET_WITH_QUIESCENT, Inside
<1>2. EpochTypeOK' /\ EpochsEven'
  BY <1>1, Appended DEF EpochInv, EpochTypeOK, EpochsEven, Outside, Inside
<1>3. Len(buffer[t]) = 0 /\ ~ Even(q)
  BY <1>1, Parity DEF EpochInv, EpochTypeOK, EpochsEven, StoresInOrder, Inside
<1>4. StoresInOrder'
  <2> SUFFICES ASSUME NEW u \in D!Threads PROVE StoresInOrder!(u)'
    BY DEF StoresInOrder
  <2>1. ASSUME u # t PROVE StoresInOrder!(u)'
    BY <1>1, <2>1, Appended, SMTT(30) DEF EpochInv, EpochTypeOK, StoresInOrder
  <2>2. ASSUME u = t PROVE StoresInOrder!(u)'
    <3>1. Len(buffer'[t]) = 1 /\ buffer'[t][1] = q
      <4>1. EpochTypeOK
        BY DEF EpochInv
      <4>2. Len(buffer'[t]) = Len(buffer[t]) + 1 /\ buffer'[t][Len(buffer[t]) + 1] = q
        BY <1>1, <4>1, Appended
      <4> QED
        BY <1>3, <4>2
    <3> QED
      BY <1>1, <1>3, <2>2, <3>1 DEF EpochInv, EpochTypeOK, Outside, Starting, Inside
  <2> QED
    BY <2>1, <2>2
<1>5. AnnouncementHolds' /\ ScanStops' /\ ScanComplete'
  BY <1>1 DEF EpochInv, EpochTypeOK, AnnouncementHolds, ScanStops, ScanComplete
<1> QED
  BY <1>2, <1>4, <1>5 DEF EpochInv

(* What an operation does to nodes leaves the epochs alone. *)
LEMMA EpochInside ==
  ASSUME EpochInv, NEW t \in D!Threads,
         D!Reach(t) \/ D!Follow(t) \/ D!Borrow(t) \/ D!BorrowLate(t)
         \/ D!Link(t) \/ D!Unlink(t) \/ D!Retire(t)
  PROVE  EpochInv'
<1>1. UNCHANGED <<epoch, announcedEpoch, buffer, localEpoch, checked, started>>
  BY DEF D!Reach, D!Follow, D!Borrow, D!BorrowLate, D!Link, D!Unlink, D!Retire,
         D!epochVars
<1>2. PICK p \in Inside : debraPc[t] \in Inside /\ debraPc' = [debraPc EXCEPT ![t] = p]
  BY DEF D!Reach, D!Follow, D!Borrow, D!BorrowLate, D!Link, D!Unlink, D!Retire,
         D!Goto, Inside, EpochInv, EpochTypeOK
<1>3. EpochTypeOK' /\ EpochsEven'
  BY <1>1, <1>2 DEF EpochInv, EpochTypeOK, EpochsEven, Inside
<1>4. StoresInOrder'
  BY <1>1, <1>2 DEF EpochInv, EpochTypeOK, StoresInOrder, Outside, Starting, Inside
<1>5. AnnouncementHolds' /\ ScanStops' /\ ScanComplete'
  BY <1>1, <1>2 DEF EpochInv, EpochTypeOK, AnnouncementHolds, ScanStops, ScanComplete, Inside
<1> QED
  BY <1>3, <1>4, <1>5 DEF EpochInv

LEMMA EpochStutter == EpochInv /\ UNCHANGED D!vars => EpochInv'
<1> SUFFICES ASSUME EpochInv, UNCHANGED D!vars PROVE EpochInv'
  OBVIOUS
<1>1. UNCHANGED <<epoch, announcedEpoch, buffer, localEpoch, checked, started, debraPc>>
  BY DEF D!vars, D!epochVars
<1> QED
  BY <1>1 DEF EpochInv, EpochTypeOK, EpochsEven, StoresInOrder, AnnouncementHolds,
              ScanStops, ScanComplete

LEMMA EpochNext == EpochInv /\ [D!Next]_D!vars => EpochInv'
<1> SUFFICES ASSUME EpochInv, D!Next PROVE EpochInv'
  BY EpochStutter
<1>1. PICK t \in D!Threads : D!Step(t)
  BY DEF D!Next
<1> QED
  BY <1>1, EpochDrain, EpochStartOp, EpochRotate, EpochAnnounce, EpochScan,
     EpochAdvance, EpochEnter, EpochEndOp, EpochInside DEF D!Step

(* While an operation is under way the epoch advances at most once. *)
THEOREM GraceHolds == D!Spec => []GracePeriod
<1>1. EpochInv => GracePeriod
  BY Parity DEF EpochInv, EpochTypeOK, StoresInOrder, EpochsEven, AnnouncementHolds,
            GracePeriod, D!GracePeriod, Inside, D!EPOCH_INCREMENT
<1>2. D!Init => EpochInv
  BY DebraAssumption, EpochInit
<1> QED
  BY <1>1, <1>2, EpochNext, PTL DEF D!Spec

-----------------------------------------------------------------------------
(* One rotation makes every bag one older, but for the one it starts over; *)
(* the one it empties is then of the age at which nodes are deleted.       *)
LEMMA Mod ==
  \A n \in Nat, x \in Nat : x < 2 * n => x % n = (IF x < n THEN x ELSE x - n)
<1> TAKE n \in Nat, x \in Nat
<1> HAVE x < 2 * n
<1> QED
  OBVIOUS

LEMMA Rotated ==
  ASSUME D!Proper, NEW i \in Bags
  PROVE  LET N == NUMBER_OF_EPOCH_BAGS
             E == NUMBER_OF_ALWAYS_EMPTY_EPOCH_BAGS
             j == (i + 1) % N
             f == (j + E) % N
         IN /\ j \in Bags /\ f \in Bags /\ j # f
            /\ j = (IF i + 1 = N THEN 0 ELSE i + 1)
            /\ f = (IF j + E < N THEN j + E ELSE j + E - N)
<1>1. PICK n \in Nat, e \in Nat : /\ n = NUMBER_OF_EPOCH_BAGS
                                /\ e = NUMBER_OF_ALWAYS_EMPTY_EPOCH_BAGS
                                /\ e >= 1 /\ n - e >= 5 /\ i \in 0 .. n - 1
  BY DEF Bags, D!Proper
<1>2. PICK x \in Nat : x = i + 1 /\ x <= n /\ x < 2 * n
  BY <1>1
<1>3. x % n = (IF x < n THEN x ELSE x - n)
  BY <1>2, Mod
<1>4. PICK j \in Nat : j = (IF i + 1 = n THEN 0 ELSE i + 1) /\ j = x % n /\ j < n
  BY <1>1, <1>2, <1>3
<1>5. PICK y \in Nat : y = j + e /\ y < 2 * n
  BY <1>1, <1>4
<1>6. y % n = (IF y < n THEN y ELSE y - n)
  BY <1>5, Mod
<1>7. (i + 1) % NUMBER_OF_EPOCH_BAGS = j
  BY <1>1, <1>2, <1>4
<1>8. (j + NUMBER_OF_ALWAYS_EMPTY_EPOCH_BAGS) % NUMBER_OF_EPOCH_BAGS
        = (IF y < n THEN y ELSE y - n)
  BY <1>1, <1>5, <1>6
<1> QED
  BY <1>1, <1>4, <1>5, <1>7, <1>8 DEF Bags

LEMMA NodeInit == D!Proper /\ D!Init => NodeInv
<1> SUFFICES ASSUME D!Proper, D!Init PROVE NodeInv
  OBVIOUS
<1>1. /\ \A u \in D!Threads, b \in Bags : epochbags[u][b] = {}
      /\ \A t \in D!Threads : /\ own[t] = {} /\ borrowed[t] = {} /\ late[t] = {}
                              /\ unlinked[t] = {} /\ debraPc[t] = "quiescent"
  BY DEF D!Init, Bags
<1>2. NodeTypeOK
  BY DEF D!Proper, D!Init, NodeTypeOK, Bags, D!Never
<1>3. OnePlace
  BY <1>1 DEF D!Proper, D!Init, OnePlace
<1>4. RotationsTell /\ OldBagsEmpty
  BY <1>1 DEF RotationsTell, OldBagsEmpty
<1>5. TakenOutBefore /\ FreeIsOld
  BY DEF D!Init, TakenOutBefore, FreeIsOld, D!Never
<1>6. HeldIsRecent /\ LeadsLater
  BY <1>1 DEF D!Init, HeldIsRecent, LeadsLater
<1> QED
  BY <1>2, <1>3, <1>4, <1>5, <1>6 DEF NodeInv

(* Steps that leave nodes, bags and what threads read alone. *)
LEMMA NodeFrame ==
  ASSUME EpochInv, EpochInv', NodeInv,
         UNCHANGED <<D!bagVars, D!nodeVars, localEpoch>>, epoch <= epoch',
         \A t \in D!Threads :
           /\ debraPc'[t] = "rotate" => debraPc[t] = "rotate"
           /\ debraPc[t] \in Inside => debraPc'[t] \in Inside /\ started'[t] = started[t]
  PROVE  NodeInv'
<1>1. /\ UNCHANGED <<epochbags, index, linked, free, own, borrowed, late, unlinked,
                     leads, unlinkedAt, localEpoch>>
      /\ epoch \in Nat /\ epoch' \in Nat
  BY DEF D!bagVars, D!nodeVars, EpochInv, EpochTypeOK
<1>2. NodeTypeOK' /\ LeadsLater' /\ OldBagsEmpty'
  BY <1>1 DEF NodeInv, NodeTypeOK, LeadsLater, OldBagsEmpty, Age
<1>3. OnePlace'
  BY <1>1 DEF NodeInv, OnePlace
<1>4. RotationsTell'
  BY <1>1 DEF NodeInv, RotationsTell, Age
<1>5. TakenOutBefore' /\ FreeIsOld'
  BY <1>1 DEF NodeInv, NodeTypeOK, TakenOutBefore, FreeIsOld
<1>6. HeldIsRecent'
  BY <1>1 DEF NodeInv, HeldIsRecent
<1> QED
  BY <1>2, <1>3, <1>4, <1>5, <1>6 DEF NodeInv

LEMMA NodeGuard ==
  ASSUME EpochInv, EpochInv', NodeInv, NEW t \in D!Threads,
         D!Drain(t) \/ D!Announce(t) \/ D!Scan(t) \/ D!Advance(t) \/ D!Enter(t)
  PROVE  NodeInv'
<1>1. ASSUME D!Drain(t) PROVE NodeInv'
  <2>1. debraPc[t] \notin Inside
    BY <1>1 DEF D!Drain, EpochInv, EpochTypeOK, StoresInOrder
  <2> QED
    BY <1>1, <2>1, NodeFrame, SMTT(30) DEF D!Drain, EpochInv, EpochTypeOK
<1>2. ASSUME D!Announce(t) PROVE NodeInv'
  BY <1>2, NodeFrame DEF D!Announce, D!Goto, Inside, EpochInv, EpochTypeOK
<1>3. ASSUME D!Scan(t) PROVE NodeInv'
  <2>1. PICK p \in {"advance", "enter"} : debraPc' = [debraPc EXCEPT ![t] = p]
    BY <1>3 DEF D!Scan, D!Goto
  <2>2. /\ UNCHANGED <<D!bagVars, D!nodeVars, localEpoch, epoch, started>>
        /\ debraPc[t] = "scan" /\ epoch \in Nat
    BY <1>3 DEF D!Scan, EpochInv, EpochTypeOK
  <2>3. \A u \in D!Threads : /\ debraPc'[u] = "rotate" => debraPc[u] = "rotate"
                             /\ debraPc[u] \in Inside => debraPc'[u] \in Inside
    <3>1. DOMAIN debraPc = D!Threads
      BY DEF EpochInv, EpochTypeOK
    <3>2. debraPc[t] \notin Inside /\ p # "rotate"
      BY <2>1, <2>2 DEF Inside
    <3> QED
      BY <2>1, <3>1, <3>2
  <2>4. epoch <= epoch' /\ \A u \in D!Threads : started'[u] = started[u]
    BY <2>2
  <2> QED
    BY <2>2, <2>3, <2>4, NodeFrame
<1>4. ASSUME D!Advance(t) PROVE NodeInv'
  BY <1>4, NodeFrame DEF D!Advance, D!Goto, Inside, EpochInv, EpochTypeOK, D!EPOCH_INCREMENT
<1>5. ASSUME D!Enter(t) PROVE NodeInv'
  <2>1. /\ UNCHANGED <<D!bagVars, D!nodeVars, localEpoch>> /\ UNCHANGED <<epoch, started>>
        /\ debraPc[t] = "enter" /\ debraPc' = [debraPc EXCEPT ![t] = "inside"]
    BY <1>5 DEF D!Enter, D!epochVars, D!Goto
  <2>2. \A u \in D!Threads :
          /\ debraPc'[u] = "rotate" => debraPc[u] = "rotate"
          /\ debraPc[u] \in Inside => debraPc'[u] \in Inside /\ started'[u] = started[u]
    BY <2>1 DEF Inside, EpochInv, EpochTypeOK
  <2>3. epoch <= epoch'
    BY <2>1 DEF EpochInv, EpochTypeOK
  <2> QED
    BY <2>1, <2>2, <2>3, NodeFrame
<1> QED
  BY <1>1, <1>2, <1>3, <1>4, <1>5

LEMMA NodeStutter ==
  ASSUME EpochInv, EpochInv', NodeInv, UNCHANGED D!vars
  PROVE  NodeInv'
BY NodeFrame DEF D!vars, D!epochVars, EpochInv, EpochTypeOK

(* The epoch read is one that follows those of the rotations before. *)
LEMMA NodeStartOp ==
  ASSUME EpochInv, EpochInv', NodeInv, NEW t \in D!Threads, D!StartOp(t)
  PROVE  NodeInv'
<1>1. /\ UNCHANGED <<epochbags, index, linked, free, own, borrowed, late, unlinked,
                     leads, unlinkedAt, epoch, started>>
      /\ localEpoch' = [localEpoch EXCEPT ![t] = epoch]
      /\ debraPc[t] = "quiescent" /\ epoch \in Nat
  BY DEF D!StartOp, D!bagVars, D!nodeVars, EpochInv, EpochTypeOK
<1>2. PICK p \in {"announce", "rotate"} :
        debraPc' = [debraPc EXCEPT ![t] = p] /\ (p = "rotate" => epoch # localEpoch[t])
  BY DEF D!StartOp, D!Goto
<1>3. NodeTypeOK' /\ LeadsLater' /\ OldBagsEmpty' /\ TakenOutBefore' /\ FreeIsOld'
  BY <1>1 DEF NodeInv, NodeTypeOK, LeadsLater, OldBagsEmpty, Age, TakenOutBefore, FreeIsOld
<1>4. OnePlace'
  BY <1>1 DEF NodeInv, OnePlace
<1>5. HeldIsRecent'
  BY <1>1, <1>2 DEF NodeInv, HeldIsRecent, EpochInv, EpochTypeOK, Inside
<1>6. RotationsTell'
  <2> SUFFICES ASSUME NEW u \in D!Threads, NEW b \in Bags, NEW r \in epochbags[u][b]
               PROVE  /\ Even(localEpoch'[u])
                      /\ Age(u, b) >= 1 => localEpoch'[u] >= unlinkedAt[r] + 2 * (Age(u, b) - 1)
                      /\ debraPc'[u] = "rotate" => localEpoch'[u] >= unlinkedAt[r] + 2 * Age(u, b)
    BY <1>1 DEF RotationsTell, Age
  <2>1. /\ Even(localEpoch[u])
        /\ Age(u, b) >= 1 => localEpoch[u] >= unlinkedAt[r] + 2 * (Age(u, b) - 1)
        /\ debraPc[u] = "rotate" => localEpoch[u] >= unlinkedAt[r] + 2 * Age(u, b)
    BY DEF NodeInv, RotationsTell
  <2>2. /\ r \in Records /\ unlinkedAt[r] \in Int /\ unlinkedAt[r] <= epoch
        /\ Age(u, b) \in Nat /\ localEpoch[u] \in Nat
    <3>1. r \in Records /\ b \in Bags /\ index[u] \in Bags
      BY DEF NodeInv, NodeTypeOK
    <3>2. Age(u, b) \in Nat
      BY <3>1 DEF EpochInv, D!Proper, Age, Bags
    <3> QED
      BY <3>1, <3>2 DEF NodeInv, NodeTypeOK, TakenOutBefore, EpochInv, EpochTypeOK
  <2>3. ASSUME u = t PROVE /\ Even(localEpoch'[u])
                           /\ Age(u, b) >= 1 => localEpoch'[u] >= unlinkedAt[r] + 2 * (Age(u, b) - 1)
                           /\ debraPc'[u] = "rotate" => localEpoch'[u] >= unlinkedAt[r] + 2 * Age(u, b)
    <3>1. localEpoch'[u] = epoch /\ Even(epoch) /\ debraPc'[u] = p
      BY <1>1, <1>2, <2>3 DEF EpochInv, EpochTypeOK, EpochsEven
    <3>2. localEpoch[u] # 1
      BY <2>1 DEF Even
    <3>3. localEpoch[u] <= epoch /\ (epoch # localEpoch[u] => localEpoch[u] + 2 <= epoch)
      BY <1>1, <2>1, <2>2, <3>1, <3>2, Parity DEF EpochInv, EpochsEven
    <3>4. Age(u, b) >= 1 => epoch >= unlinkedAt[r] + 2 * (Age(u, b) - 1)
      BY <1>1, <2>1, <2>2, <3>3
    <3>5. p = "rotate" => epoch >= unlinkedAt[r] + 2 * Age(u, b)
      BY <1>1, <1>2, <2>1, <2>2, <2>3, <3>3
    <3> QED
      BY <3>1, <3>4, <3>5
  <2> QED
    BY <1>1, <1>2, <2>1, <2>3 DEF EpochInv, EpochTypeOK
<1> QED
  BY <1>3, <1>4, <1>5, <1>6 DEF NodeInv

(* A rotation deletes nodes that were taken out at least four epochs ago. *)
LEMMA NodeRotate ==
  ASSUME EpochInv, EpochInv', NodeInv, NEW t \in D!Threads, D!Rotate(t)
  PROVE  NodeInv'
<1> DEFINE N == NUMBER_OF_EPOCH_BAGS
           E == NUMBER_OF_ALWAYS_EMPTY_EPOCH_BAGS
           j == (index[t] + 1) % N
           f == (j + E) % N
<1>1. /\ UNCHANGED <<epoch, localEpoch, started, linked, own, borrowed, late, unlinked,
                     leads, unlinkedAt>>
      /\ free' = free \cup epochbags[t][f]
      /\ epochbags' = [epochbags EXCEPT ![t][f] = {}]
      /\ index' = [index EXCEPT ![t] = j]
      /\ debraPc[t] = "rotate" /\ debraPc' = [debraPc EXCEPT ![t] = "announce"]
  BY DEF D!Rotate, D!epochVars, D!Goto
<1>2. /\ N \in Nat /\ E \in Nat /\ E >= 1 /\ N - E >= 5
      /\ index[t] \in Bags /\ j \in Bags /\ f \in Bags /\ j # f
      /\ j = (IF index[t] + 1 = N THEN 0 ELSE index[t] + 1)
      /\ f = (IF j + E < N THEN j + E ELSE j + E - N)
  BY Rotated DEF EpochInv, D!Proper, NodeInv, NodeTypeOK
<1> HIDE DEF j, f
<1>3. /\ epochbags'[t][f] = {}
      /\ \A u \in D!Threads, b \in Bags :
           (u # t \/ b # f) => epochbags'[u][b] = epochbags[u][b]
      /\ \A u \in D!Threads \ {t} : index'[u] = index[u]
      /\ index'[t] = j
  BY <1>1, <1>2 DEF NodeInv, NodeTypeOK
<1>4. /\ \A u \in D!Threads \ {t}, b \in Bags : Age(u, b)' = Age(u, b)
      /\ \A b \in Bags : Age(t, b)' = (IF b = j THEN 0 ELSE Age(t, b) + 1)
      /\ \A b \in Bags : Age(t, b) \in Nat /\ Age(t, b) < N
      /\ Age(t, j) = N - 1 /\ Age(t, f) = N - E - 1
      /\ \A b \in Bags : Age(t, b) = N - E - 1 => b = f
  <2>1. \A u \in D!Threads \ {t}, b \in Bags : Age(u, b)' = Age(u, b)
    BY <1>3 DEF Age
  <2>2. \A b \in Bags : Age(t, b)' = (IF b = j THEN 0 ELSE Age(t, b) + 1)
    BY <1>2, <1>3 DEF Age, Bags
  <2>3. \A b \in Bags : Age(t, b) \in Nat /\ Age(t, b) < N
    BY <1>2 DEF Age, Bags
  <2>4. Age(t, j) = N - 1 /\ Age(t, f) = N - E - 1
    BY <1>2 DEF Age, Bags
  <2>5. \A b \in Bags : Age(t, b) = N - E - 1 => b = f
    BY <1>2 DEF Age, Bags
  <2> QED
    BY <2>1, <2>2, <2>3, <2>4, <2>5
<1>5. NodeTypeOK'
  BY <1>1, <1>2 DEF NodeInv, NodeTypeOK
<1>6. OnePlace'
  <2>2. \A u \in D!Threads, b \in Bags : epochbags'[u][b] \subseteq epochbags[u][b]
    BY <1>3
  <2>3. /\ linked \cap free' = {}
        /\ \A u \in D!Threads : unlinked[u] \cap (linked \cup free') = {}
    BY <1>1, <1>2 DEF NodeInv, OnePlace
  <2>4. \A u \in D!Threads, b \in Bags : epochbags'[u][b] \cap (linked \cup free') = {}
    <3> SUFFICES ASSUME NEW u \in D!Threads, NEW b \in Bags, NEW r \in epochbags'[u][b]
                 PROVE  r \notin linked \cup free'
      OBVIOUS
    <3>1. r \in epochbags[u][b] /\ r \notin linked \cup free
      BY <2>2 DEF NodeInv, OnePlace
    <3>2. r \notin epochbags[t][f]
      <4>1. ASSUME r \in epochbags[t][f] PROVE u = t /\ b = f
        BY <1>2, <3>1, <4>1 DEF NodeInv, OnePlace
      <4> QED
        BY <1>3, <4>1
    <3> QED
      BY <1>1, <3>1, <3>2
  <2> QED
    BY <1>1, <2>2, <2>3, <2>4 DEF NodeInv, OnePlace
<1>7. RotationsTell'
  <2> SUFFICES ASSUME NEW u \in D!Threads, NEW b \in Bags, NEW r \in epochbags'[u][b]
               PROVE  /\ Even(localEpoch[u])
                      /\ Age(u, b)' >= 1 => localEpoch[u] >= unlinkedAt[r] + 2 * (Age(u, b)' - 1)
                      /\ debraPc'[u] = "rotate" => localEpoch[u] >= unlinkedAt[r] + 2 * Age(u, b)'
    BY <1>1 DEF RotationsTell
  <2>1. r \in epochbags[u][b] /\ (u # t \/ b # f)
    BY <1>3
  <2>2. /\ Even(localEpoch[u])
        /\ Age(u, b) >= 1 => localEpoch[u] >= unlinkedAt[r] + 2 * (Age(u, b) - 1)
        /\ debraPc[u] = "rotate" => localEpoch[u] >= unlinkedAt[r] + 2 * Age(u, b)
    BY <2>1 DEF NodeInv, RotationsTell
  <2>3. ASSUME u # t PROVE Age(u, b)' = Age(u, b) /\ debraPc'[u] = debraPc[u]
    BY <1>1, <1>4, <2>3 DEF EpochInv, EpochTypeOK
  <2>4. ASSUME u = t PROVE /\ debraPc'[u] # "rotate"
                           /\ Age(u, b)' >= 1 => Age(u, b)' - 1 = Age(u, b)
                           /\ debraPc[u] = "rotate"
    <3>1. debraPc'[u] # "rotate" /\ debraPc[u] = "rotate"
      BY <1>1, <2>4 DEF EpochInv, EpochTypeOK
    <3>2. /\ Age(u, b)' = (IF b = j THEN 0 ELSE Age(u, b) + 1)
          /\ Age(u, b) \in Nat
      BY <1>4, <2>4
    <3> QED
      BY <3>1, <3>2
  <2> QED
    BY <2>2, <2>3, <2>4
<1>8. OldBagsEmpty'
  <2> SUFFICES ASSUME NEW u \in D!Threads, NEW b \in Bags, Age(u, b)' >= N - E
               PROVE  epochbags'[u][b] = {}
    BY DEF OldBagsEmpty
  <2>1. ASSUME u # t PROVE epochbags'[u][b] = {}
    BY <1>3, <1>4, <2>1 DEF NodeInv, OldBagsEmpty
  <2>2. ASSUME u = t, b # f PROVE epochbags'[u][b] = {}
    <3>1. b # j /\ Age(t, b) + 1 >= N - E /\ Age(t, b) # N - E - 1
      BY <1>2, <1>4, <2>2
    <3>2. Age(t, b) >= N - E
      BY <1>2, <1>4, <3>1
    <3> QED
      BY <1>3, <2>2, <3>2 DEF NodeInv, OldBagsEmpty
  <2> QED
    BY <1>3, <2>1, <2>2
<1>9. FreeIsOld'
  <2> SUFFICES ASSUME NEW r \in epochbags[t][f] PROVE unlinkedAt[r] + 8 <= epoch
    BY <1>1 DEF NodeInv, FreeIsOld
  <2>1. localEpoch[t] >= unlinkedAt[r] + 2 * (N - E - 1)
    BY <1>1, <1>2, <1>4 DEF NodeInv, RotationsTell
  <2>2. localEpoch[t] <= epoch /\ localEpoch[t] \in Nat /\ epoch \in Nat
    BY <1>1 DEF EpochInv, EpochsEven, EpochTypeOK
  <2>3. unlinkedAt[r] \in Int
    BY <1>2 DEF NodeInv, NodeTypeOK
  <2> QED
    BY <1>2, <2>1, <2>2, <2>3
<1>10. TakenOutBefore' /\ LeadsLater'
  BY <1>1 DEF NodeInv, TakenOutBefore, LeadsLater
<1>11. HeldIsRecent'
  <2>1. \A u \in D!Threads : debraPc'[u] \in Inside <=> debraPc[u] \in Inside
    BY <1>1 DEF EpochInv, EpochTypeOK, Inside
  <2> QED
    BY <1>1, <2>1 DEF NodeInv, HeldIsRecent
<1> QED
  BY <1>5, <1>6, <1>7, <1>8, <1>9, <1>10, <1>11 DEF NodeInv

(* What an operation holds beside what it held is as recent. *)
LEMMA NodeHolds ==
  ASSUME EpochInv, NodeInv, NEW t \in D!Threads, debraPc[t] \in Inside,
         UNCHANGED <<D!epochVars, D!bagVars, debraPc, linked, free, unlinked, leads, unlinkedAt>>,
         own' \in [D!Threads -> SUBSET Records], borrowed' \in [D!Threads -> SUBSET Records],
         late' \in [D!Threads -> SUBSET Records],
         \A u \in D!Threads \ {t} :
           own'[u] = own[u] /\ borrowed'[u] = borrowed[u] /\ late'[u] = late[u],
         \A r \in own'[t] \ linked : unlinkedAt[r] >= started[t],
         \A r \in borrowed'[t] \ linked : unlinkedAt[r] >= started[t] - 2,
         \A r \in late'[t] \ linked : unlinkedAt[r] >= started[t] - 4
  PROVE  NodeInv'
<1>1. UNCHANGED <<epochbags, index, linked, free, unlinked, leads, unlinkedAt,
                  localEpoch, epoch, started, debraPc>>
  BY DEF D!bagVars, D!epochVars
<1>2. NodeTypeOK' /\ LeadsLater' /\ OldBagsEmpty' /\ TakenOutBefore' /\ FreeIsOld'
  BY <1>1 DEF NodeInv, NodeTypeOK, LeadsLater, OldBagsEmpty, Age, TakenOutBefore, FreeIsOld
<1>3. OnePlace' /\ RotationsTell'
  BY <1>1 DEF NodeInv, OnePlace, RotationsTell, Age
<1>4. HeldIsRecent'
  BY <1>1 DEF NodeInv, HeldIsRecent
<1> QED
  BY <1>2, <1>3, <1>4 DEF NodeInv

LEMMA NodeReach ==
  ASSUME EpochInv, NodeInv, NEW t \in D!Threads, D!Reach(t)
  PROVE  NodeInv'
<1>1. PICK r \in linked : own' = [own EXCEPT ![t] = @ \cup {r}]
  BY DEF D!Reach
<1>2. /\ UNCHANGED <<D!epochVars, D!bagVars, debraPc, linked, free, borrowed, late, unlinked, leads, unlinkedAt>>
      /\ debraPc[t] \in Inside
  BY DEF D!Reach, Inside
<1>3. /\ own' \in [D!Threads -> SUBSET Records] /\ borrowed' \in [D!Threads -> SUBSET Records]
      /\ late' \in [D!Threads -> SUBSET Records]
      /\ \A u \in D!Threads \ {t} :
           own'[u] = own[u] /\ borrowed'[u] = borrowed[u] /\ late'[u] = late[u]
      /\ own'[t] = own[t] \cup {r} /\ borrowed'[t] = borrowed[t] /\ late'[t] = late[t]
  BY <1>1, <1>2 DEF NodeInv, NodeTypeOK
<1>4. /\ \A q \in own'[t] \ linked : unlinkedAt[q] >= started[t]
      /\ \A q \in borrowed'[t] \ linked : unlinkedAt[q] >= started[t] - 2
      /\ \A q \in late'[t] \ linked : unlinkedAt[q] >= started[t] - 4
  BY <1>3 DEF NodeInv, HeldIsRecent
<1> QED
  BY <1>2, <1>3, <1>4, NodeHolds

LEMMA NodeFollow ==
  ASSUME EpochInv, NodeInv, NEW t \in D!Threads, D!Follow(t)
  PROVE  NodeInv'
<1>1. PICK r \in own[t] \ linked : \E q \in leads[r] : own' = [own EXCEPT ![t] = @ \cup {q}]
  BY DEF D!Follow
<1> PICK q \in leads[r] : own' = [own EXCEPT ![t] = @ \cup {q}]
  BY <1>1
<1>2. /\ UNCHANGED <<D!epochVars, D!bagVars, debraPc, linked, free, borrowed, late, unlinked, leads, unlinkedAt>>
      /\ debraPc[t] \in Inside
  BY DEF D!Follow, Inside
<1>3. /\ own' \in [D!Threads -> SUBSET Records] /\ borrowed' \in [D!Threads -> SUBSET Records]
      /\ late' \in [D!Threads -> SUBSET Records]
      /\ \A u \in D!Threads \ {t} :
           own'[u] = own[u] /\ borrowed'[u] = borrowed[u] /\ late'[u] = late[u]
      /\ own'[t] = own[t] \cup {q} /\ borrowed'[t] = borrowed[t] /\ late'[t] = late[t]
      /\ r \in Records /\ q \in Records
  BY <1>1, <1>2 DEF NodeInv, NodeTypeOK
<1>4. q \notin linked => unlinkedAt[q] >= started[t]
  <2>1. unlinkedAt[r] >= started[t]
    BY <1>1 DEF NodeInv, HeldIsRecent
  <2>2. q \notin linked => unlinkedAt[q] >= unlinkedAt[r]
    BY <1>1, <1>3 DEF NodeInv, LeadsLater
  <2>3. unlinkedAt[q] \in Int /\ unlinkedAt[r] \in Int /\ started[t] \in Nat
    BY <1>3 DEF NodeInv, NodeTypeOK, EpochInv, EpochTypeOK
  <2> QED
    BY <2>1, <2>2, <2>3
<1>5. /\ \A p \in own'[t] \ linked : unlinkedAt[p] >= started[t]
      /\ \A p \in borrowed'[t] \ linked : unlinkedAt[p] >= started[t] - 2
      /\ \A p \in late'[t] \ linked : unlinkedAt[p] >= started[t] - 4
  BY <1>3, <1>4 DEF NodeInv, HeldIsRecent
<1> QED
  BY <1>2, <1>3, <1>5, NodeHolds

(* The other operation is under way, so it started at most one epoch ago. *)
LEMMA NodeBorrow ==
  ASSUME EpochInv, NodeInv, NEW t \in D!Threads, D!Borrow(t)
  PROVE  NodeInv'
<1>1. PICK u \in D!Threads \ {t} : borrowed' = [borrowed EXCEPT ![t] = @ \cup own[u]]
  BY DEF D!Borrow
<1>2. /\ UNCHANGED <<D!epochVars, D!bagVars, debraPc, linked, free, own, late, unlinked, leads, unlinkedAt>>
      /\ debraPc[t] \in Inside
  BY DEF D!Borrow, Inside
<1>3. /\ own' \in [D!Threads -> SUBSET Records] /\ borrowed' \in [D!Threads -> SUBSET Records]
      /\ late' \in [D!Threads -> SUBSET Records]
      /\ \A v \in D!Threads \ {t} :
           own'[v] = own[v] /\ borrowed'[v] = borrowed[v] /\ late'[v] = late[v]
      /\ own'[t] = own[t] /\ borrowed'[t] = borrowed[t] \cup own[u]
      /\ late'[t] = late[t]
  BY <1>1, <1>2 DEF NodeInv, NodeTypeOK
<1>4. ASSUME NEW q \in own[u] \ linked PROVE unlinkedAt[q] >= started[t] - 2
  <2>1. unlinkedAt[q] >= started[u] /\ debraPc[u] \in Inside
    BY DEF NodeInv, HeldIsRecent
  <2>2. Even(announcedEpoch[u])
    BY <2>1, Parity DEF EpochInv, EpochTypeOK, EpochsEven, StoresInOrder, Inside
  <2>3. epoch <= started[u] + 2 /\ started[t] <= epoch
    BY <2>2 DEF EpochInv, AnnouncementHolds, EpochsEven
  <2>4. /\ unlinkedAt[q] \in Int /\ started[t] \in Nat /\ started[u] \in Nat
        /\ epoch \in Nat
    BY DEF NodeInv, NodeTypeOK, EpochInv, EpochTypeOK
  <2> QED
    BY <2>1, <2>3, <2>4
<1>5. /\ \A q \in own'[t] \ linked : unlinkedAt[q] >= started[t]
      /\ \A q \in borrowed'[t] \ linked : unlinkedAt[q] >= started[t] - 2
      /\ \A q \in late'[t] \ linked : unlinkedAt[q] >= started[t] - 4
  BY <1>3, <1>4 DEF NodeInv, HeldIsRecent
<1> QED
  BY <1>2, <1>3, <1>5, NodeHolds

(* The late helper is still inside, so it started at most one epoch ago,   *)
(* and what it got for the ended operation is as old as that for a helper. *)
LEMMA NodeBorrowLate ==
  ASSUME EpochInv, NodeInv, NEW t \in D!Threads, D!BorrowLate(t)
  PROVE  NodeInv'
<1>1. PICK u \in D!Threads \ {t} : late' = [late EXCEPT ![t] = @ \cup borrowed[u]]
  BY DEF D!BorrowLate
<1>2. /\ UNCHANGED <<D!epochVars, D!bagVars, debraPc, linked, free, own, borrowed, unlinked,
                     leads, unlinkedAt>>
      /\ debraPc[t] \in Inside
  BY DEF D!BorrowLate, Inside
<1>3. /\ own' \in [D!Threads -> SUBSET Records] /\ borrowed' \in [D!Threads -> SUBSET Records]
      /\ late' \in [D!Threads -> SUBSET Records]
      /\ \A v \in D!Threads \ {t} :
           own'[v] = own[v] /\ borrowed'[v] = borrowed[v] /\ late'[v] = late[v]
      /\ own'[t] = own[t] /\ borrowed'[t] = borrowed[t]
      /\ late'[t] = late[t] \cup borrowed[u]
  BY <1>1, <1>2 DEF NodeInv, NodeTypeOK
<1>4. ASSUME NEW q \in borrowed[u] \ linked PROVE unlinkedAt[q] >= started[t] - 4
  <2>1. unlinkedAt[q] >= started[u] - 2 /\ debraPc[u] \in Inside
    BY DEF NodeInv, HeldIsRecent
  <2>2. Even(announcedEpoch[u])
    BY <2>1, Parity DEF EpochInv, EpochTypeOK, EpochsEven, StoresInOrder, Inside
  <2>3. epoch <= started[u] + 2 /\ started[t] <= epoch
    BY <2>2 DEF EpochInv, AnnouncementHolds, EpochsEven
  <2>4. /\ unlinkedAt[q] \in Int /\ started[t] \in Nat /\ started[u] \in Nat
        /\ epoch \in Nat
    BY DEF NodeInv, NodeTypeOK, EpochInv, EpochTypeOK
  <2> QED
    BY <2>1, <2>3, <2>4
<1>5. /\ \A q \in own'[t] \ linked : unlinkedAt[q] >= started[t]
      /\ \A q \in borrowed'[t] \ linked : unlinkedAt[q] >= started[t] - 2
      /\ \A q \in late'[t] \ linked : unlinkedAt[q] >= started[t] - 4
  BY <1>3, <1>4 DEF NodeInv, HeldIsRecent
<1> QED
  BY <1>2, <1>3, <1>5, NodeHolds

LEMMA NodeLink ==
  ASSUME EpochInv, NodeInv, NEW t \in D!Threads, D!Link(t)
  PROVE  NodeInv'
<1>1. PICK N \in SUBSET free :
        /\ linked' = linked \cup N /\ free' = free \ N
        /\ leads' = [r \in Records |-> IF r \in N THEN {} ELSE leads[r]]
        /\ unlinkedAt' = [r \in Records |-> IF r \in N THEN D!Never ELSE unlinkedAt[r]]
  BY DEF D!Link
<1>2. /\ UNCHANGED <<epochbags, index, own, borrowed, late, unlinked, localEpoch, epoch, started>>
      /\ debraPc[t] = "inside" /\ debraPc' = [debraPc EXCEPT ![t] = "done"]
      /\ epoch \in Nat /\ N \subseteq Records
  BY DEF D!Link, D!Goto, D!epochVars, D!bagVars, EpochInv, EpochTypeOK, NodeInv, NodeTypeOK
<1>3. /\ \A q \in N : unlinkedAt'[q] = D!Never /\ leads'[q] = {}
      /\ \A q \in Records \ N : unlinkedAt'[q] = unlinkedAt[q] /\ leads'[q] = leads[q]
  BY <1>1, <1>2
<1>4. NodeTypeOK'
  BY <1>1, <1>2 DEF NodeInv, NodeTypeOK, D!Never
<1>5. \A u \in D!Threads : /\ debraPc'[u] = "rotate" <=> debraPc[u] = "rotate"
                           /\ debraPc'[u] \in Inside <=> debraPc[u] \in Inside
  BY <1>2 DEF EpochInv, EpochTypeOK, Inside
<1>6. OnePlace'
  BY <1>1, <1>2 DEF NodeInv, OnePlace
<1>7. \A u \in D!Threads, b \in Bags : epochbags[u][b] \subseteq Records \ N
  BY <1>1 DEF NodeInv, NodeTypeOK, OnePlace
<1>8. RotationsTell' /\ OldBagsEmpty'
  BY <1>2, <1>3, <1>5, <1>7 DEF NodeInv, RotationsTell, OldBagsEmpty, Age
<1>9. TakenOutBefore' /\ FreeIsOld'
  BY <1>1, <1>2, <1>3 DEF NodeInv, NodeTypeOK, TakenOutBefore, FreeIsOld, D!Never
<1>10. HeldIsRecent'
  BY <1>1, <1>2, <1>3, <1>5 DEF NodeInv, NodeTypeOK, HeldIsRecent
<1>11. LeadsLater'
  BY <1>1, <1>2, <1>3 DEF NodeInv, NodeTypeOK, LeadsLater
<1> QED
  BY <1>4, <1>6, <1>8, <1>9, <1>10, <1>11 DEF NodeInv

LEMMA NodeUnlink ==
  ASSUME EpochInv, NodeInv, NEW t \in D!Threads, D!Unlink(t)
  PROVE  NodeInv'
<1>1. PICK N \in SUBSET (own[t] \cap linked) :
        /\ linked' = linked \ N
        /\ unlinked' = [unlinked EXCEPT ![t] = N]
        /\ leads' = [r \in Records |-> IF r \in N THEN linked \ {r} ELSE leads[r]]
        /\ unlinkedAt' = [r \in Records |-> IF r \in N THEN epoch ELSE unlinkedAt[r]]
  BY DEF D!Unlink
<1>2. /\ UNCHANGED <<epochbags, index, own, borrowed, late, free, localEpoch, epoch, started>>
      /\ debraPc[t] = "inside" /\ debraPc' = [debraPc EXCEPT ![t] = "retire"]
      /\ epoch \in Nat /\ N \subseteq Records
  BY DEF D!Unlink, D!Goto, D!epochVars, D!bagVars, EpochInv, EpochTypeOK, NodeInv, NodeTypeOK
<1>3. /\ \A q \in N : unlinkedAt'[q] = epoch /\ leads'[q] = linked \ {q}
      /\ \A q \in Records \ N : unlinkedAt'[q] = unlinkedAt[q] /\ leads'[q] = leads[q]
      /\ unlinked'[t] = N /\ \A u \in D!Threads \ {t} : unlinked'[u] = unlinked[u]
  BY <1>1, <1>2 DEF NodeInv, NodeTypeOK
<1>4. NodeTypeOK'
  BY <1>1, <1>2 DEF NodeInv, NodeTypeOK
<1>5. \A u \in D!Threads : /\ debraPc'[u] = "rotate" <=> debraPc[u] = "rotate"
                           /\ debraPc'[u] \in Inside <=> debraPc[u] \in Inside
  BY <1>2 DEF EpochInv, EpochTypeOK, Inside
<1>6. OnePlace'
  <2>1. /\ N \cap free = {}
        /\ \A u \in D!Threads : unlinked[u] \cap N = {}
        /\ \A u \in D!Threads, b \in Bags : N \cap epochbags[u][b] = {}
    BY <1>1 DEF NodeInv, OnePlace
  <2>2. /\ linked' \cap free' = {}
        /\ \A u \in D!Threads : unlinked'[u] \cap (linked' \cup free') = {}
    BY <1>1, <1>2, <1>3, <2>1 DEF NodeInv, OnePlace
  <2>3. \A u, v \in D!Threads : unlinked'[u] \cap unlinked'[v] # {} => u = v
    BY <1>3, <2>1 DEF NodeInv, OnePlace
  <2>4. \A u \in D!Threads, b \in Bags : epochbags[u][b] \cap (linked' \cup free') = {}
    BY <1>1, <1>2 DEF NodeInv, OnePlace
  <2>5. \A v, u \in D!Threads, b \in Bags : unlinked'[v] \cap epochbags[u][b] = {}
    BY <1>3, <2>1 DEF NodeInv, OnePlace
  <2> QED
    BY <1>2, <2>2, <2>3, <2>4, <2>5 DEF NodeInv, OnePlace
<1>7. \A u \in D!Threads, b \in Bags : epochbags[u][b] \subseteq Records \ N
  BY <1>1 DEF NodeInv, NodeTypeOK, OnePlace
<1>8. RotationsTell' /\ OldBagsEmpty'
  BY <1>2, <1>3, <1>5, <1>7 DEF NodeInv, RotationsTell, OldBagsEmpty, Age
<1>9. TakenOutBefore' /\ FreeIsOld'
  BY <1>1, <1>2, <1>3 DEF NodeInv, NodeTypeOK, OnePlace, TakenOutBefore, FreeIsOld
<1>10. HeldIsRecent'
  <2>1. \A u \in D!Threads : started[u] <= epoch /\ started[u] \in Nat
    BY DEF EpochInv, EpochTypeOK, EpochsEven
  <2> QED
    BY <1>1, <1>2, <1>3, <1>5, <2>1 DEF NodeInv, NodeTypeOK, HeldIsRecent
<1>11. LeadsLater'
  <2> SUFFICES ASSUME NEW x \in Records, NEW q \in leads'[x] \ linked'
               PROVE  unlinkedAt'[q] >= unlinkedAt'[x]
    BY DEF LeadsLater
  <2>1. CASE x \in N
    <3>1. q \in N
      BY <1>1, <1>3, <2>1
    <3> QED
      BY <1>2, <1>3, <2>1, <3>1
  <2>2. CASE x \notin N
    <3>1. q \in leads[x] /\ q \in Records /\ unlinkedAt[x] <= epoch /\ unlinkedAt[x] \in Int
      BY <1>3, <2>2 DEF NodeInv, NodeTypeOK, TakenOutBefore
    <3>2. q \notin N => q \notin linked /\ unlinkedAt[q] >= unlinkedAt[x]
      BY <1>1, <3>1 DEF NodeInv, LeadsLater
    <3> QED
      BY <1>2, <1>3, <2>2, <3>1, <3>2
  <2> QED
    BY <2>1, <2>2
<1> QED
  BY <1>4, <1>6, <1>8, <1>9, <1>10, <1>11 DEF NodeInv

LEMMA NodeRetire ==
  ASSUME EpochInv, NodeInv, NEW t \in D!Threads, D!Retire(t)
  PROVE  NodeInv'
<1> DEFINE i == index[t]
<1>1. PICK r \in unlinked[t] :
        /\ epochbags' = [epochbags EXCEPT ![t][i] = @ \cup {r}]
        /\ unlinked' = [unlinked EXCEPT ![t] = @ \ {r}]
        /\ D!Goto(t, IF unlinked[t] = {r} THEN "done" ELSE "retire")
  BY DEF D!Retire
<1>a. /\ UNCHANGED <<index, linked, free, own, borrowed, late, leads, unlinkedAt,
                     localEpoch, epoch, started>>
      /\ debraPc[t] = "retire"
      /\ \/ debraPc' = [debraPc EXCEPT ![t] = "done"]
         \/ debraPc' = [debraPc EXCEPT ![t] = "retire"]
  BY <1>1 DEF D!Retire, D!Goto, D!epochVars
<1>2. r \in Records /\ i \in Bags
  BY <1>1 DEF NodeInv, NodeTypeOK
<1>3. /\ epochbags'[t][i] = epochbags[t][i] \cup {r}
      /\ \A u \in D!Threads, b \in Bags :
           (u # t \/ b # i) => epochbags'[u][b] = epochbags[u][b]
      /\ unlinked'[t] = unlinked[t] \ {r} /\ \A u \in D!Threads \ {t} : unlinked'[u] = unlinked[u]
  BY <1>1, <1>2 DEF NodeInv, NodeTypeOK
<1> HIDE DEF i
<1>4. NodeTypeOK'
  BY <1>1, <1>a, <1>2 DEF NodeInv, NodeTypeOK
<1>5. /\ debraPc'[t] # "rotate"
      /\ \A u \in D!Threads : /\ debraPc'[u] = "rotate" => debraPc[u] = "rotate" /\ u # t
                              /\ debraPc'[u] \in Inside <=> debraPc[u] \in Inside
  BY <1>a DEF EpochInv, EpochTypeOK, Inside
<1>6. /\ r \notin linked \cup free
      /\ \A u \in D!Threads \ {t} : r \notin unlinked[u]
      /\ \A u \in D!Threads, b \in Bags : r \notin epochbags[u][b]
  BY <1>1, <1>2 DEF NodeInv, OnePlace
<1>7. OnePlace'
  <2>1. \A u \in D!Threads, b \in Bags : epochbags'[u][b] \subseteq epochbags[u][b] \cup {r}
    BY <1>3
  <2>2. \A u \in D!Threads : unlinked'[u] \subseteq unlinked[u] \ {r}
    BY <1>3, <1>6
  <2>3. \A u \in D!Threads : unlinked'[u] \cap (linked \cup free) = {}
    BY <2>2 DEF NodeInv, OnePlace
  <2>4. \A u, v \in D!Threads : unlinked'[u] \cap unlinked'[v] # {} => u = v
    BY <2>2 DEF NodeInv, OnePlace
  <2>5. \A u \in D!Threads, b \in Bags : epochbags'[u][b] \cap (linked \cup free) = {}
    BY <1>6, <2>1 DEF NodeInv, OnePlace
  <2>6. \A v, u \in D!Threads, b \in Bags : unlinked'[v] \cap epochbags'[u][b] = {}
    BY <2>1, <2>2 DEF NodeInv, OnePlace
  <2>7. \A u, v \in D!Threads, b, c \in Bags :
          epochbags'[u][b] \cap epochbags'[v][c] # {} => u = v /\ b = c
    <3> SUFFICES ASSUME NEW u \in D!Threads, NEW v \in D!Threads, NEW b \in Bags, NEW c \in Bags,
                        NEW q \in epochbags'[u][b] \cap epochbags'[v][c]
                 PROVE  u = v /\ b = c
      OBVIOUS
    <3>1. ASSUME q = r PROVE u = t /\ b = i /\ v = t /\ c = i
      BY <1>3, <1>6, <3>1
    <3>2. ASSUME q # r PROVE q \in epochbags[u][b] \cap epochbags[v][c]
      BY <2>1, <3>2
    <3> QED
      BY <3>1, <3>2 DEF NodeInv, OnePlace
  <2> QED
    BY <1>a, <2>3, <2>4, <2>5, <2>6, <2>7 DEF NodeInv, OnePlace
<1>8. Age(t, i) = 0 /\ \A u \in D!Threads, b \in Bags : Age(u, b)' = Age(u, b)
  BY <1>a, <1>2 DEF Age, i, Bags
<1>9. RotationsTell'
  <2>1. Even(localEpoch[t])
    BY <1>a DEF EpochInv, EpochsEven
  <2> SUFFICES ASSUME NEW u \in D!Threads, NEW b \in Bags, NEW q \in epochbags'[u][b]
               PROVE  /\ Even(localEpoch[u])
                      /\ Age(u, b) >= 1 => localEpoch[u] >= unlinkedAt[q] + 2 * (Age(u, b) - 1)
                      /\ debraPc'[u] = "rotate" => localEpoch[u] >= unlinkedAt[q] + 2 * Age(u, b)
    BY <1>a, <1>8 DEF RotationsTell
  <2>2. ASSUME u = t, b = i PROVE Even(localEpoch[u]) /\ Age(u, b) = 0 /\ debraPc'[u] # "rotate"
    BY <1>5, <1>8, <2>1, <2>2
  <2>3. ASSUME u # t \/ b # i PROVE q \in epochbags[u][b]
    BY <1>3, <2>3
  <2>4. ASSUME q \in epochbags[u][b]
        PROVE  /\ Even(localEpoch[u])
               /\ Age(u, b) >= 1 => localEpoch[u] >= unlinkedAt[q] + 2 * (Age(u, b) - 1)
               /\ debraPc'[u] = "rotate" => localEpoch[u] >= unlinkedAt[q] + 2 * Age(u, b)
    BY <1>5, <2>4 DEF NodeInv, RotationsTell
  <2> QED
    BY <2>2, <2>3, <2>4
<1>10. OldBagsEmpty'
  BY <1>3, <1>8 DEF EpochInv, D!Proper, NodeInv, OldBagsEmpty
<1>11. TakenOutBefore' /\ FreeIsOld' /\ LeadsLater'
  BY <1>a DEF NodeInv, TakenOutBefore, FreeIsOld, LeadsLater
<1>12. HeldIsRecent'
  BY <1>a, <1>5 DEF NodeInv, HeldIsRecent
<1> QED
  BY <1>4, <1>7, <1>9, <1>10, <1>11, <1>12 DEF NodeInv

LEMMA NodeEndOp ==
  ASSUME EpochInv, NodeInv, NEW t \in D!Threads, D!EndOp(t)
  PROVE  NodeInv'
<1>1. /\ UNCHANGED <<epochbags, index, linked, free, unlinked, leads, unlinkedAt,
                     localEpoch, epoch, started>>
      /\ own' = [own EXCEPT ![t] = {}] /\ borrowed' = [borrowed EXCEPT ![t] = {}]
      /\ late' = [late EXCEPT ![t] = {}]
      /\ debraPc[t] \in {"inside", "done"} /\ debraPc' = [debraPc EXCEPT ![t] = "quiescent"]
  BY DEF D!EndOp, D!Goto, D!bagVars
<1>2. NodeTypeOK' /\ LeadsLater' /\ OldBagsEmpty' /\ TakenOutBefore' /\ FreeIsOld'
  BY <1>1 DEF NodeInv, NodeTypeOK, LeadsLater, OldBagsEmpty, Age, TakenOutBefore, FreeIsOld
<1>3. \A u \in D!Threads : /\ debraPc'[u] = "rotate" <=> debraPc[u] = "rotate"
                           /\ u # t => debraPc'[u] = debraPc[u]
  <2>1. debraPc'[t] = "quiescent" /\ \A u \in D!Threads \ {t} : debraPc'[u] = debraPc[u]
    BY <1>1 DEF EpochInv, EpochTypeOK
  <2>2. debraPc[t] # "rotate"
    BY <1>1
  <2> QED
    BY <2>1, <2>2
<1>4. OnePlace' /\ RotationsTell'
  BY <1>1, <1>3 DEF NodeInv, OnePlace, RotationsTell, Age
<1>5. HeldIsRecent'
  <2>1. /\ own'[t] = {} /\ borrowed'[t] = {} /\ late'[t] = {}
        /\ \A u \in D!Threads \ {t} :
             own'[u] = own[u] /\ borrowed'[u] = borrowed[u] /\ late'[u] = late[u]
    BY <1>1 DEF NodeInv, NodeTypeOK
  <2> QED
    BY <1>1, <1>3, <2>1 DEF NodeInv, HeldIsRecent
<1> QED
  BY <1>2, <1>4, <1>5 DEF NodeInv

LEMMA NodeNext == EpochInv /\ EpochInv' /\ NodeInv /\ [D!Next]_D!vars => NodeInv'
<1> SUFFICES ASSUME EpochInv, EpochInv', NodeInv, D!Next PROVE NodeInv'
  BY NodeStutter
<1>1. PICK t \in D!Threads : D!Step(t)
  BY DEF D!Next
<1> QED
  BY <1>1, NodeGuard, NodeStartOp, NodeRotate, NodeReach, NodeFollow, NodeBorrow,
     NodeBorrowLate, NodeLink, NodeUnlink, NodeRetire, NodeEndOp DEF D!Step

(* No operation can use a deleted node, whether it reached the node itself *)
(* or got it from an operation that it helps, also from one that has ended *)
(* and whose tag a late helper put back into a word.                       *)
THEOREM NoUseAfterFreeHolds == D!Spec => []NoUseAfterFree
<1>1. ASSUME EpochInv, NodeInv PROVE NoUseAfterFree
  <2> SUFFICES ASSUME NEW t \in D!Threads, NEW r \in free, r \in own[t] \cup borrowed[t] \cup late[t]
               PROVE  FALSE
    BY DEF NoUseAfterFree, D!NoUseAfterFree
  <2>1. /\ r \notin linked /\ r \in Records /\ debraPc[t] \in Inside
        /\ unlinkedAt[r] + 8 <= epoch /\ unlinkedAt[r] \in Int
    BY <1>1 DEF NodeInv, NodeTypeOK, OnePlace, FreeIsOld, HeldIsRecent
  <2>2. /\ epoch <= started[t] + 2 /\ epoch \in Nat /\ started[t] \in Nat
    BY <1>1, <2>1, Parity
       DEF EpochInv, EpochTypeOK, EpochsEven, StoresInOrder, AnnouncementHolds, Inside
  <2>3. unlinkedAt[r] >= started[t] - 4
    BY <1>1, <2>1, <2>2 DEF NodeInv, HeldIsRecent
  <2> QED
    BY <2>1, <2>2, <2>3
<1>2. D!Init => EpochInv /\ NodeInv
  BY DebraAssumption, EpochInit, NodeInit
<1> QED
  BY <1>1, <1>2, EpochNext, NodeNext, PTL DEF D!Spec
==============================================================================
