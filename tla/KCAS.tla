-------------------------------- MODULE KCAS --------------------------------
(***************************************************************************)
(* The lock-free multi-word compare-and-swap of assignment-5 (kcas.h).     *)
(* execute locks its words in address order, each with an RDCSS: it puts a *)
(* tag there if the word holds the old value, and swaps that tag for its   *)
(* own if it is still undecided.  Then it decides and unlocks the words.   *)
(* Whoever meets a tag helps.  The descriptors a tag stands for are        *)
(* reused: each thread has one of each kind, with a sequence number that   *)
(* says which use a tag means.                                             *)
(*                                                                         *)
(* A step is one access to shared memory with the local computation that   *)
(* follows.  A descriptor is copied in one step: a copy counts only if the *)
(* sequence number has not moved afterwards, and the owner moves it before *)
(* it writes the fields.                                                   *)
(***************************************************************************)
EXTENDS MultiWord, FiniteSets

CONSTANTS Threads,     \* the threads
          NumWords,    \* the words have the addresses 1 .. NumWords
          Values,      \* what a word can hold
          EntryLists,  \* the lists of entries that each thread passes to execute
          ReadWords,   \* the words that each thread reads
          Budgets      \* how many operations each thread makes, one way or another

Words == 1 .. NumWords
Entries == [addr : Words, old : Values, new : Values]

(* A k-CAS has an entry at least: the callers add one before they execute. *)
ASSUME KCASAssumption ==
  /\ NumWords \in Nat /\ 0 \in Values
  /\ \A t \in Threads : \A es \in EntryLists[t] : es \in Seq(Entries) /\ es # <<>>
  /\ \A t \in Threads : ReadWords[t] \subseteq Words

VARIABLES mem,         \* the words: values and tags
          kdesc,       \* kcasDescriptors: sequence number, state, entries
          rdesc,       \* rdcssDescriptors
          pc,          \* where each thread is
          stack,       \* its calls of help, the innermost first
          found,       \* the tag it has met and helps
          rd,          \* the RDCSS it executes or helps
          left,        \* the operations it may still make
          had,         \* history: the values each word has had
          cur,         \* the operation it executes
          may,         \* history: the answers justified since its call
          answer       \* what its last operation returned

vars == <<mem, kdesc, rdesc, pc, stack, found, rd, left, had, cur, may, answer>>

Value(v) == [is |-> "value", val |-> v]
RdcssTag(t, s) == [is |-> "rdcss", by |-> t, seq |-> s]
KcasTag(t, s) == [is |-> "kcas", by |-> t, seq |-> s]
NoTag == [is |-> "none"]
NoRdcss == [by |-> NoTag]

(* A call of help: of which k-CAS, with its copy of the entries, at entry i *)
(* of a phase, and what it means to decide or found decided.               *)
Frame(tag, es, n) == [tag |-> tag, entries |-> es, i |-> n, verdict |-> "succeeded"]

Top(t) == Head(stack[t])
At(t) == Top(t).entries[Top(t).i]      \* the entry its innermost help is at

(* Mutant of Sorted: the entries stay in the order they were added. *)
Unsorted(es) == es

(* Entries are sorted by address, those of one word stay in their order. *)
Before(es, m, n) ==
  es[m].addr < es[n].addr \/ (es[m].addr = es[n].addr /\ m <= n)
Place(es, n) == Cardinality({m \in DOMAIN es : Before(es, m, n)})

(* kcasdesc_sort *)
Sorted(es) == [i \in DOMAIN es |-> es[CHOOSE n \in DOMAIN es : Place(es, n) = i]]

Unreadable == -1         \* what a word stands for if its tag is a dead one

(* What a word stands for. *)
Logical(a) ==
  LET w == mem[a]
      d == kdesc[w.by]
  IN IF w.is = "value" THEN w.val
     ELSE IF w.is = "rdcss" THEN rdesc[w.by].old
     ELSE IF d.seq # w.seq THEN Unreadable
     ELSE IF d.state = "succeeded" THEN Counting(d.entries, a).new
     ELSE Counting(d.entries, a).old

LogicalMem == [a \in Words |-> Logical(a)]

Abstract == INSTANCE AtomicKCAS
  WITH memory <- LogicalMem, call <- cur,
       applied <- [t \in Threads |-> cur[t].op = "kcas" /\ kdesc[t].state = "succeeded"]

Init ==
  /\ mem = [a \in Words |-> Value(0)]
  /\ kdesc = [t \in Threads |-> [seq |-> 1, state |-> "undecided", entries |-> <<>>]]
  /\ rdesc = [t \in Threads |-> [seq |-> 1, addr |-> 0, old |-> 0, of |-> NoTag]]
  /\ pc = [t \in Threads |-> "idle"]
  /\ stack = [t \in Threads |-> <<>>]
  /\ found = [t \in Threads |-> NoTag]
  /\ rd = [t \in Threads |-> NoRdcss]
  /\ left \in Budgets
  /\ had = [a \in Words |-> {0}]
  /\ cur = [t \in Threads |-> Abstract!Idle]
  /\ may = [t \in Threads |-> {}]
  /\ answer = [t \in Threads |-> Abstract!Failed]

-----------------------------------------------------------------------------
Goto(t, p) == pc' = [pc EXCEPT ![t] = p]

(* The call of an operation. *)
Called(t, c) ==
  /\ cur' = [cur EXCEPT ![t] = c]
  /\ may' = [may EXCEPT ![t] = Abstract!RightIn(c, LogicalMem)]
  /\ UNCHANGED answer

(* The operation of t returns r. *)
Return(t, r) ==
  /\ Goto(t, "idle")
  /\ stack' = [stack EXCEPT ![t] = <<>>]
  /\ found' = [found EXCEPT ![t] = NoTag]
  /\ cur' = [cur EXCEPT ![t] = Abstract!Idle]
  /\ may' = [may EXCEPT ![t] = {}]
  /\ answer' = [answer EXCEPT ![t] = r]

opVars == <<cur, may, answer>>
rest == <<left, had>>

(* help returns r to its caller: execute returns it too; a thread that     *)
(* helped another starts its read or its entry again.                      *)
HelpReturns(t, r) ==
  IF Tail(stack[t]) = <<>> /\ cur[t].op = "kcas"
  THEN Return(t, r)
  ELSE /\ stack' = [stack EXCEPT ![t] = Tail(@)]
       /\ Goto(t, IF Tail(stack[t]) = <<>> THEN "read" ELSE "prepare")
       /\ found' = [found EXCEPT ![t] = NoTag]
       /\ UNCHANGED opVars

(* Back from rdcssHelpOther to the loop of rdcss or of rdcssRead. *)
RdcssAgain(t) ==
  /\ Goto(t, IF stack[t] = <<>> THEN "read" ELSE "lock")
  /\ found' = [found EXCEPT ![t] = NoTag]

(* The loop of phase 1: on to the next entry, or to the decision. *)
NextEntry(t) ==
  /\ stack' = [stack EXCEPT ![t][1].i = @ + 1]
  /\ Goto(t, IF Top(t).i < Len(Top(t).entries) THEN "prepare" ELSE "decide")

-----------------------------------------------------------------------------
(* The old value of an entry is one that the thread has read before. *)
Usable(es) == \A n \in DOMAIN es : es[n].old \in had[es[n].addr]

(* getDescriptor *)
GetDescriptor(t) ==
  /\ pc[t] = "idle" /\ left[t] > 0
  /\ \E es \in EntryLists[t] : Usable(es)
  /\ left' = [left EXCEPT ![t] = @ - 1]
  /\ kdesc' = [kdesc EXCEPT ![t] =
                 [seq |-> @.seq + 1, state |-> "undecided", entries |-> <<>>]]
  /\ Goto(t, "new")
  /\ UNCHANGED <<mem, rdesc, stack, found, rd, had, opVars>>

(* addValAddr or addPtrAddr for each entry, and execute, up to its help. *)
Execute(t, es) ==
  /\ pc[t] = "new" /\ Usable(es)
  /\ kdesc' = [kdesc EXCEPT ![t].seq = @ + 1, ![t].entries = Sorted(es)]
  /\ stack' = [stack EXCEPT ![t] = <<Frame(KcasTag(t, kdesc'[t].seq), Sorted(es), 1)>>]
  /\ Called(t, [op |-> "kcas", entries |-> es])
  /\ Goto(t, "help")
  /\ UNCHANGED <<mem, rdesc, found, rd, rest>>

(* readPtr and readVal *)
ReadCall(t, a) ==
  /\ pc[t] = "idle" /\ left[t] > 0
  /\ left' = [left EXCEPT ![t] = @ - 1]
  /\ Called(t, [op |-> "read", addr |-> a])
  /\ Goto(t, "read")
  /\ UNCHANGED <<mem, kdesc, rdesc, stack, found, rd, had>>

Read(t) ==
  /\ pc[t] = "read"
  /\ LET w == mem[cur[t].addr]
     IN \/ w.is = "value" /\ Return(t, w.val)
        \/ /\ w.is # "value"
           /\ found' = [found EXCEPT ![t] = w]
           /\ Goto(t, IF w.is = "rdcss" THEN "rdcssHelpOther" ELSE "helpOther")
           /\ UNCHANGED <<stack, opVars>>
  /\ UNCHANGED <<mem, kdesc, rdesc, rd, rest>>

(* Mutant of HelpOther: the helper starts at the third entry. *)
HelpOtherSkips(t) ==
  /\ pc[t] = "helpOther"
  /\ LET k == kdesc[found[t].by]
     IN \/ /\ k.seq = found[t].seq
           /\ stack' = [stack EXCEPT ![t] = <<Frame(found[t], k.entries, 3)>> \o @]
           /\ Goto(t, "help")
           /\ UNCHANGED found
        \/ /\ k.seq # found[t].seq
           /\ Goto(t, IF stack[t] = <<>> THEN "read" ELSE "prepare")
           /\ found' = [found EXCEPT ![t] = NoTag]
           /\ UNCHANGED stack
  /\ UNCHANGED <<mem, kdesc, rdesc, rd, rest, opVars>>

(* helpOther: a helper starts at the second entry, the first is locked. *)
HelpOther(t) ==
  /\ pc[t] = "helpOther"
  /\ LET k == kdesc[found[t].by]
     IN \/ /\ k.seq = found[t].seq
           /\ stack' = [stack EXCEPT ![t] = <<Frame(found[t], k.entries, 2)>> \o @]
           /\ Goto(t, "help")
           /\ UNCHANGED found
        \/ /\ k.seq # found[t].seq
           /\ Goto(t, IF stack[t] = <<>> THEN "read" ELSE "prepare")
           /\ found' = [found EXCEPT ![t] = NoTag]
           /\ UNCHANGED stack
  /\ UNCHANGED <<mem, kdesc, rdesc, rd, rest, opVars>>

-----------------------------------------------------------------------------
(* help reads the state. *)
Help(t) ==
  /\ pc[t] = "help"
  /\ LET k == kdesc[Top(t).tag.by]
     IN \/ k.seq # Top(t).tag.seq /\ HelpReturns(t, Abstract!Failed)
        \/ /\ k.seq = Top(t).tag.seq
           /\ Goto(t, IF k.state # "undecided" THEN "finish"
                      ELSE IF Top(t).i <= Len(Top(t).entries) THEN "prepare"
                      ELSE "decide")
           /\ UNCHANGED <<stack, found, opVars>>
  /\ UNCHANGED <<mem, kdesc, rdesc, rd, rest>>

(* retry_entry: a new RDCSS for the entry *)
Prepare(t) ==
  /\ pc[t] = "prepare"
  /\ rdesc' = [rdesc EXCEPT ![t] = [seq |-> @.seq + 2, addr |-> At(t).addr,
                                    old |-> At(t).old, of |-> Top(t).tag]]
  /\ Goto(t, "lock")
  /\ UNCHANGED <<mem, kdesc, stack, found, rd, rest, opVars>>

(* The CAS of rdcss, and what help does with its outcome. *)
Lock(t) ==
  /\ pc[t] = "lock"
  /\ LET w == mem[At(t).addr]
         mine == RdcssTag(t, rdesc[t].seq)
     IN \/ /\ w = Value(At(t).old)
           /\ mem' = [mem EXCEPT ![At(t).addr] = mine]
           /\ rd' = [rd EXCEPT ![t] = [by |-> mine, addr |-> At(t).addr,
                                       new |-> Value(At(t).old), of |-> Top(t).tag]]
           /\ Goto(t, "rdcssHelp")
           /\ UNCHANGED <<stack, found>>
        \/ /\ w = Top(t).tag
           /\ NextEntry(t)
           /\ UNCHANGED <<mem, rd, found>>
        \/ /\ w.is = "value" /\ w # Value(At(t).old)
           /\ stack' = [stack EXCEPT ![t][1].verdict = "failed"]
           /\ Goto(t, "decide")
           /\ UNCHANGED <<mem, rd, found>>
        \/ /\ w.is # "value" /\ w # Top(t).tag
           /\ found' = [found EXCEPT ![t] = w]
           /\ Goto(t, IF w.is = "rdcss" THEN "rdcssHelpOther" ELSE "helpOther")
           /\ UNCHANGED <<mem, rd, stack>>
  /\ UNCHANGED <<kdesc, rdesc, rest, opVars>>

(* rdcssHelpOther *)
RdcssHelpOther(t) ==
  /\ pc[t] = "rdcssHelpOther"
  /\ LET r == rdesc[found[t].by]
     IN \/ /\ r.seq = found[t].seq
           /\ rd' = [rd EXCEPT ![t] = [by |-> found[t], addr |-> r.addr,
                                       new |-> Value(r.old), of |-> r.of]]
           /\ Goto(t, "rdcssHelp")
           /\ UNCHANGED found
        \/ r.seq # found[t].seq /\ RdcssAgain(t) /\ UNCHANGED rd
  /\ UNCHANGED <<mem, kdesc, rdesc, stack, rest, opVars>>

(* Mutant of RdcssHelp: the tag goes in whatever the state of its k-CAS. *)
RdcssHelpBlind(t) ==
  /\ pc[t] = "rdcssHelp"
  /\ rd' = [rd EXCEPT ![t].new = rd[t].of]
  /\ Goto(t, "rdcssSwap")
  /\ UNCHANGED <<mem, kdesc, rdesc, stack, found, rest, opVars>>

(* rdcssHelp reads the state of the k-CAS: the RDCSS will put the tag of   *)
(* the k-CAS into the word only if that k-CAS is undecided.                *)
RdcssHelp(t) ==
  /\ pc[t] = "rdcssHelp"
  /\ LET k == kdesc[rd[t].of.by]
     IN rd' = IF k.seq = rd[t].of.seq /\ k.state = "undecided"
              THEN [rd EXCEPT ![t].new = rd[t].of] ELSE rd
  /\ Goto(t, "rdcssSwap")
  /\ UNCHANGED <<mem, kdesc, rdesc, stack, found, rest, opVars>>

(* rdcssHelp replaces the tag of the RDCSS. *)
RdcssSwap(t) ==
  /\ pc[t] = "rdcssSwap"
  /\ mem' = [mem EXCEPT ![rd[t].addr] = IF @ = rd[t].by THEN rd[t].new ELSE @]
  /\ rd' = [rd EXCEPT ![t] = NoRdcss]
  /\ IF rd[t].by.by = t
     THEN NextEntry(t) /\ UNCHANGED found
     ELSE RdcssAgain(t) /\ UNCHANGED stack
  /\ UNCHANGED <<kdesc, rdesc, rest, opVars>>

-----------------------------------------------------------------------------
(* What the change of the state of a k-CAS does to the operations running. *)
Decided(k, verdict) ==
  LET after == IF verdict = "succeeded" THEN Swapped(LogicalMem, k.entries)
               ELSE LogicalMem
  IN /\ may' = [u \in Threads |-> may[u] \cup Abstract!RightIn(cur[u], after)]
     /\ had' = [a \in Words |-> had[a] \cup {after[a]}]

(* SEQBITS_CAS_FIELD *)
Decide(t) ==
  /\ pc[t] = "decide"
  /\ LET k == kdesc[Top(t).tag.by]
         open == k.seq = Top(t).tag.seq /\ k.state = "undecided"
     IN \/ /\ open
           /\ kdesc' = [kdesc EXCEPT ![Top(t).tag.by].state = Top(t).verdict]
           /\ Decided(k, Top(t).verdict)
        \/ ~ open /\ UNCHANGED <<kdesc, may, had>>
  /\ Goto(t, "finish")
  /\ UNCHANGED <<mem, rdesc, stack, found, rd, left, cur, answer>>

(* Mutant of Finish: a k-CAS that failed leaves its words locked. *)
FinishKeepsLocks(t) ==
  /\ pc[t] = "finish"
  /\ LET k == kdesc[Top(t).tag.by]
     IN \/ /\ k.seq # Top(t).tag.seq \/ k.state = "failed"
           /\ HelpReturns(t, Abstract!Failed)
        \/ /\ k.seq = Top(t).tag.seq /\ k.state = "succeeded"
           /\ stack' = [stack EXCEPT ![t][1].i = 1, ![t][1].verdict = k.state]
           /\ Goto(t, "unlock")
           /\ UNCHANGED <<found, opVars>>
  /\ UNCHANGED <<mem, kdesc, rdesc, rd, rest>>

(* help reads the state again before phase 2. *)
Finish(t) ==
  /\ pc[t] = "finish"
  /\ LET k == kdesc[Top(t).tag.by]
     IN \/ k.seq # Top(t).tag.seq /\ HelpReturns(t, Abstract!Failed)
        \/ /\ k.seq = Top(t).tag.seq
           /\ stack' = [stack EXCEPT ![t][1].i = 1, ![t][1].verdict = k.state]
           /\ Goto(t, "unlock")
           /\ UNCHANGED <<found, opVars>>
  /\ UNCHANGED <<mem, kdesc, rdesc, rd, rest>>

(* One iteration of phase 2. *)
Unlock(t) ==
  /\ pc[t] = "unlock"
  /\ LET ok == Top(t).verdict = "succeeded"
     IN /\ mem' = [mem EXCEPT ![At(t).addr] =
                     IF @ = Top(t).tag
                     THEN Value(IF ok THEN At(t).new ELSE At(t).old) ELSE @]
        /\ IF Top(t).i < Len(Top(t).entries)
           THEN /\ stack' = [stack EXCEPT ![t][1].i = @ + 1]
                /\ UNCHANGED <<pc, found, opVars>>
           ELSE HelpReturns(t, IF ok THEN Abstract!Succeeded ELSE Abstract!Failed)
  /\ UNCHANGED <<kdesc, rdesc, rd, rest>>

-----------------------------------------------------------------------------
CallStep(t) == GetDescriptor(t) \/ \E a \in ReadWords[t] : ReadCall(t, a)

Step(t) ==
  \/ \E es \in EntryLists[t] : Execute(t, es)
  \/ Read(t) \/ HelpOther(t) \/ Help(t) \/ Prepare(t) \/ Lock(t)
  \/ RdcssHelpOther(t) \/ RdcssHelp(t) \/ RdcssSwap(t)
  \/ Decide(t) \/ Finish(t) \/ Unlock(t)

AllDone == \A t \in Threads : pc[t] = "idle" /\ left[t] = 0

(* The program ends when every thread has made its operations. *)
Stop == AllDone /\ UNCHANGED vars

Next == Stop \/ \E t \in Threads : CallStep(t) \/ Step(t)

Spec == Init /\ [][Next]_vars

(* Threads run at any speed, but none stops inside an operation. *)
FairSpec == Spec /\ \A t \in Threads : WF_vars(Step(t))

-----------------------------------------------------------------------------
(* Every operation takes effect at once between its call and its return.   *)
ImplementsKCAS == Abstract!AtomicSpec

(* A tag in a word can still be helped: its descriptor has not been reused *)
(* for another operation.                                                  *)
TagsAlive ==
  \A a \in Words : LET w == mem[a]
                   IN /\ w.is = "kcas" => kdesc[w.by].seq = w.seq
                      /\ w.is = "rdcss" => rdesc[w.by].seq = w.seq

Undecided == {t \in Threads : kdesc[t].state = "undecided"}

(* Helpers do not wait for each other in a circle: of any k-CASes that are *)
(* undecided, there is one that meets in its words no tag of the others    *)
(* (the sort of kcas.h:386 is there "to guarantee progress").              *)
NoHelpCycle ==
  \A S \in SUBSET Undecided : S # {} =>
    \E t \in S : \A u \in S \ {t} : \A a \in WordsOf(kdesc[t].entries) :
      mem[a] # KcasTag(u, kdesc[u].seq)

(* A k-CAS succeeds only while it holds all of its words. *)
SucceedsLocked ==
  [][\A t \in Threads :
       kdesc[t].state # "succeeded" /\ kdesc'[t].state = "succeeded" =>
         \A a \in WordsOf(kdesc[t].entries) : mem[a] = KcasTag(t, kdesc[t].seq)]_vars

(* Every operation ends. *)
OperationsEnd == \A t \in Threads : pc[t] # "idle" ~> pc[t] = "idle"
=============================================================================
