# Verification of the CS798 concurrent objects

The repository holds seven assignments of a course on multi-core programming: counters, Dekker's lock, four hash tables, a
doubly linked list and a search tree over multi-word compare-and-swap (k-CAS), and a tree and a hash table under
transactional lock elision. Each is a small library of concurrent operations with a benchmark that runs it. This directory
models the libraries in TLA+, checks small instances with TLC and proves the central results with TLAPS.

Paths below are relative to `src/`.

## 1. Inventory

| Component (source) | State | Operations | Interacts with | What makes it hard | What makes it correct |
|---|---|---|---|---|---|
| Counters (`assignment-2/counters_impl.h`) | one counter, or one per thread | `inc`, `read` | the workload | a read adds shards that grow; batches held back | linearizable, or a bounded lag |
| Timed workload (`assignment-2/workload_timed.cpp`, `util.h`) | barrier, timer, `incrementsPerformed` | thread function, `runExperiment` | counters | start order, the end of time seen by each thread on its own | timer started first, exact report, it ends |
| Dekker's lock (`assignment-3/q3_2.cpp`; `q3_3.cpp` with fences) | two flags, `turn`, `v` | `lock`, `unlock`, `increment`, `get` | store buffers of x86 in `q3_3` | both raise flags together; stores seen late | exclusion, no lost increment, no starvation |
| Hash table A (`assignment-4/alg_a.h`) | bucket array, a mutex per bucket | `insertIfAbsent`, `erase`, `getSumOfKeys` | benchmark | the sum takes all mutexes | linearizable set, snapshot sum, no deadlock |
| Hash table B (`assignment-4/alg_b.h`) | the same | the same | benchmark | reads without the lock, second look under it | the same |
| Hash table C (`assignment-4/alg_c.h`) | array of atomics | the same | benchmark | lost CASes, tombstones, wrap-around of `h + i` | linearizable, wait-free |
| Hash table D (`assignment-4/alg_d.h`; `alg_d_prime.h` with another constant) | chain of tables, chunk counters, mark bits | the same, and expansion | batched counters | operations on a stale table, helping, waiting, counters that lag | linearizable through every migration, all keys moved once, it ends |
| Batched counter (`assignment-4/util.h`, `assignment-7/common/util.h`) | subcounters, global counter | `inc`, `get`, `getAccurate` | tables | a batch is in two places for a moment | parts agree with the buckets |
| k-CAS (`assignment-5/kcas.h`, `assignment-6/kcas/`) | descriptors of k-CASes and of RDCSSes, words | `execute`, `readPtr`, `readVal` | list, trees | helping, descriptors reused under helpers | atomic multi-word CAS, it ends |
| Doubly linked list (`assignment-5/doubly_linked_list_kcas.h`) | nodes with marks | `contains`, `insertIfAbsent`, `erase` | k-CAS, reclamation | searches over erased nodes, a `next` that is not checked | linearizable set, `prev` mirrors `next` |
| External BST (`assignment-6/trees/external_tree_kcas.h`) | nodes with marks | the same | k-CAS, reclamation | child pointers read several times | linearizable set, one tree |
| Reclamation (`*_reclaim.h`, `recordmgr/reclaimer_debra.h`) | epoch, announcements, bags of nodes | guards, `retire` | list, tree | late announcements, chains of erased nodes, helpers | no node freed that an operation can use |
| Elided tree (`assignment-7/tree/tree.h`, `tree/util.h`) | a sequential tree, a lock | the same as the tree | HTM | transactions against the fallback lock, freed nodes | linearizable set, no freed node read, it ends |
| Elided table (`assignment-7/hash/hashtable.h`) | a sequential table, counters | `insertIfAbsent`, `erase`, expansion | `TLEGuard` | sizes computed from counters | linearizable set, moved keys fit, inserts find room |
| Benchmarks (`assignment-4..7/benchmark.cpp`) | `start`, `done`, `running`, checksums | trial, validation | every structure | validation at quiescence | checksum equals `getSumOfKeys` |

`PROJECT.json` gives each component its status, and lists the hazards found in the survey, each at its line, with the
properties that watch over it.

## 2. Modules

```
abstract          LinSet ------+---------------+----------+        LinCounter      AtomicKCAS
specifications      |          |               |          |            |               |
                BoundedSet     |               |          |            |               |
                    |          |               |          |            |               |
components      ProbeTable  HashTableD   LinkedList   ElidedTree  ShardedCounter     KCAS
                /        \               ExternalTree ElidedTable  TimedRun
        BucketLocks   HashTableC         Debra                     Dekker
         /      \                                                  DekkerTSO
  HashTableA  HashTableB
         \      /
        LockedTables
instances  MC_BucketLocks  MC_HashTableC  MC_HashTableD  MC_Linked  MC_Debra  MC_Elided  MC_Counting  MC_KCAS
proofs          HashTableC_proofs HashTableD_proofs LinkedList_proofs          Counting_proofs
          LockedTables_proofs              KCAS_Debra_proofs  Elided_proofs    SumTheorems
```

`MultiWord` (what a multi-word compare-and-swap does to a memory) is shared by `AtomicKCAS`, `KCAS` and `ExternalTree`.
The list and the tree are modelled over an atomic k-CAS. `KCAS` shows that the code implements one as long as no value
returns to a word (finding 2 is what happens when one does). The words of the list and of the tree do return to old values, after an insert and
an erase of one place, so there the atomicity of the k-CAS is an assumption. `LockedTables`, `MC_Linked`, `MC_Elided`
and `MC_Counting` run one of several programs per behaviour; a variable that never changes says which.

* `LinSet`: a linearizable set. `call[t]` is the running operation of a thread, `seen[t]` the contents the set has had since
  the call. A successful insert or erase takes effect atomically; an operation that changes nothing must be justified by one of
  the contents in `seen[t]`. This states linearizability for objects whose failing operations linearize at a moment that is
  only known later, without prophecy. `BoundedSet` adds that an insert may also be refused, but only when as many keys were
  ever stored as the key has buckets to go to: tombstones are never reused, so a table with few keys may be "full".
  `LinCounter` and `AtomicKCAS` have the same form.
* `ProbeTable`: what `alg_a.h`, `alg_b.h` and `alg_c.h` repeat: the bucket array, the probe sequence
  `((h + i) mod 2^32) mod capacity`, a thread's locals, and leaving an operation. `murmur3` is an arbitrary constant
  function; `Word` stands for 2^32, so that wrap-around of `h + i` happens in the runs.
* `HashTableC`: every load and CAS of a bucket is an action. `HashTableA`, `HashTableB` with `BucketLocks`: lock, critical
  section, unlock. What happens under a bucket's lock is one step, because only the holder of the lock writes the bucket.
  `getSumOfKeys` locks bucket by bucket, and unlocks bucket by bucket. The two have their variables in common; `LockedTables`
  puts them side by side, so that what holds of both is checked and proved once.
* `HashTableD`: every access of the shared words `currentTable`, `chunksClaimed`, `chunksDone`, buckets and counters is an
  action. Tables are numbered in order of publication, and never freed (the code leaks them). `Chunk`, `ProbeLimit` and
  `Flush` are 4096, 50 (10 in `alg_d_prime.h`) and `max(1000, 30 * threads)` in the code. `outcome` records an assertion
  that fails, the exit after a failed allocation, or the end of `insertIfAbsent` without a return. A read of something that
  can no longer change (a mark, `chunksDone` at its final value) is joined with the next step. C++ leaves the order of the
  two `getAccurate` calls in `startExpansion` open; the model takes them from left to right.
* `Dekker`: `q3_2.cpp`, one action per access of an atomic (sequentially consistent); `v++` is a read and a write.
  `DekkerTSO`: `q3_3.cpp`, where each store enters a FIFO store buffer and reaches memory later (`Drain`), a load looks into
  its own buffer first, and `__sync_synchronize()` waits for the buffer to empty. The fences of lines 55 and 35 follow each
  other without an access between them and are one.
* `ShardedCounter`: `CounterShardedLocked` and `CounterShardedWaitfree`; the variable `locked` says which of them is in use,
  as the command line of the workload does.
* `TimedRun`: `workload_timed.cpp` with `CounterApproximate`, from the start of the threads to the final report. Local
  counts are private, so an `inc` is one step. `TimeIsUp` is the passing of `millisToRun`.
* `KCAS`: `kcas.h`, one action per access of shared memory: the two halves of `getDescriptor` and `execute`, each RDCSS (new
  descriptor, CAS, read of the state, swap), the decision and each unlock, for owners and helpers alike. `stack[t]` is the
  recursion of `help`. Descriptors are reused and tags carry sequence numbers. The refinement mapping reads each word through the
  tag in it (`Logical`); a k-CAS takes effect when its state becomes "succeeded". The version of assignment 6 differs in the type
  of its words only.
* `LinkedList`: each read of a pointer in `internalSearch`, the read of `after` and the k-CASes are actions. A node taken out stays
  in `heap` with its mark. In `insertIfAbsent` the marks in the k-CAS are checked as in the code, although `LinksAgree` makes them
  redundant.
* `ExternalTree`: `erase` reads `gp.left`, `p.left` and the children again and again; every read is an action of its own and may
  answer differently. `checksum` is the sum that the threads of `benchmark.cpp` keep. `external_tree_seq.h` is the sequential
  program that the commented-out blocks quote.
* `ElidedTree`: a transaction has a read set, and fails as soon as another thread writes into it, or for no reason. Its writes
  happen all at `_xend`. After `MAX_RETRIES` failures the same code runs under `gLock`, step by step. Freed nodes are
  allocated again, and an insert needs two nodes that are not in use: `Nodes` bounds the memory, and in the runs there is always
  room (otherwise `OperationsEnd` would fail). HTM is external and modelled from this use.
* `ElidedTable`: probes, expansion and counters of `hashtable.h`, step by step inside the guard. `TLEGuard` comes without source
  (`libtle.so`) and is taken to be mutual exclusion, which is what the code relies on.
* `Debra`: `startOp`, the rotation of the bags, the announcement (a relaxed store, so it waits in a store buffer), the scan of
  the other threads, the advance of the epoch, the barrier, and `endOp`. On top, operations are what reclamation sees of the list and the
  tree: reach a node, follow a pointer out of a node that was taken out, get the nodes of another operation's k-CAS (`Borrow`), link, take out,
  retire. `BorrowLate` is the help that finding 2 makes possible: a thread that began to help a k-CAS while it was under way, and is still inside
  its own operation, can put its tag back after it has ended, and `helpOther` looks at nothing but the sequence number. Whoever meets that tag writes to the words that the
  late helper got, and to no others, since the k-CAS is decided; and the late helper cleans the words before it goes on, unless the descriptor is in another use,
  when nobody can help it any more. So the tag is of no use to anyone after the late helper's operation. One k-CAS links or takes out one node in the list and two in the tree. `started` and `unlinkedAt` are history variables. The bags behind `pool_none` delete all their nodes at once.

A definition named in a comment as a mutant of another is a variant with a plausible bug. No specification uses it;
`PROJECT.json` pairs each with the property that detects it.

## 3. What each run shows

| Run | Instance | Shows |
|---|---|---|
| `C` | 3 threads, 2 keys, 2 buckets, hash sums modulo 3 | keys stay unique and reachable, an unlocked sum counts what stays, each operation is wait-free, and the table implements `BoundedSet`. One key's sum wraps around so that it can reach one bucket only |
| `BucketLocks` | algorithm A or B, 2 threads, 2 colliding keys, 3 buckets | both implement `BoundedSet`, sums are snapshots, locks are taken in order, `erase` of B finds its key or a tombstone under the lock (the code after `alg_b.h:102` is dead), and operations never block each other for ever |
| `D` | 2 threads (3 and 1 operations), 2 colliding keys, first table of 2 buckets, chunks of 1, batches of 2, assertions on | the table implements the unbounded `LinSet` through an expansion; nobody works in a table whose migration is not over; marked buckets are frozen; one migration at a time; the counters agree with the buckets in every state; every operation ends |
| `D_zero` | first table of 1 bucket | violation: an assertion of `alg_d.h` (finding 1) |
| `Counting` | `Dekker`, `DekkerTSO` with 3 increments per thread; `ShardedCounter` with main; `TimedRun` with batches of 2 and the timer asked every 2 increments | exclusion, exact counters, no starvation; with store buffers whoever reads `v` sees every earlier increment in memory (`FencesSuffice`); both sharded counters are linearizable; the approximate counter lags by at most `c * numThreads` per thread, its final report is exact, the timer is started before it is asked, the run ends |
| `KCAS` | 3 threads, 2 words; k-CASes of two words in opposite orders, or naming one word twice; one thread with two operations reuses its descriptors | refines `AtomicKCAS`, succeeds only with all words locked, no tag of a reused descriptor in a word, no circle of helpers, every operation ends |
| `KCAS_back` | 2 threads with 3 operations, a word that goes back to an old value | violation: reads that never end (finding 2) |
| `Linked` | list or tree with any of the 8 sets of 3 keys, 3 threads with one operation each | `LinksAgree`, `MarkedLeadOn`, `OneTree`, and both refine `LinSet` |
| `Tree_lost` | tree with one key, one operation against three | violation: a key is lost (finding 3) |
| `Elided` | tree: 2 and 1 operations, 2 retries, an empty or a full tree of 2 keys; table: 3 and 2, or 5 operations of one thread, first table of 2 buckets | both refine `LinSet`, no operation stands on a freed node, every expansion has room for the keys it moves, and for the insert that asked for it if the new table has any bucket, tree operations end even if every transaction aborts |
| `Table_full` | the table alone, 5 operations of one thread | violation: an insert comes to the assertion at the end of its loop (finding 4) |
| `Debra` | 2 threads, 8 bags of which 3 stay empty; 2 nodes in play with 11 and 1 operations, or 1 node with 9 and 4 | the epoch advances at most once during an operation, and no operation can use a deleted node, not even one that meets the tag of its own thread's earlier operation, put back by a late helper |

Bounds, and why they are enough. Two threads are needed for every race in these algorithms, a third for a sum, an insert or a
helper while two others race. Two colliding keys and two or three buckets make each operation of one key pass a bucket of the
other, and make tables fill up with keys and with tombstones. Keys are small numbers, so sums tell the sets apart. Table D
starts with two buckets, so that few operations reach an expansion, a migration with two chunks, and threads left behind on
the table that was replaced. The run does not reach a second expansion: that one may follow another is the matter of the proofs (`HashTableD_proofs`). In `KCAS` two words are the least for an order between entries; the budgets bring each thread to a
second use of its descriptors, and `KCAS_back` adds words that return to an old value together with that reuse. Lists and trees start
filled, so that one operation per thread meets neighbours, an only key and both ends. In `Elided` two retries give a first failure,
a second one and the lock. In `Debra` a node is deleted after five rotations, one less than in the code and the fewest that
are enough, and each rotation takes two operations of the rotating thread, so eleven operations let it delete a node while the other thread is in its only one. In its second instance the other thread
makes four: one whose node is taken out, two that advance the epoch, and one that meets the tag. There a node deleted one rotation sooner would be in use (mutant `RotateFour`). `inPlay` is the nodes an instance of `Debra` may use; `Ops`, `Budgets`, `MaxCount`, `Rounds` and
`MaxIter` bound the operations of a thread; no other bound cuts a behaviour. Symmetry of threads is used in `C` and `Linked`, and of nodes in
`Debra`, which check no liveness. Deadlock checking is off for `Counting`, whose programs end; the other programs that end
have an explicit final step.

## 4. Fairness

Weak fairness of each thread's steps inside an operation, never of its calls: the operating system runs every thread, and a
thread need not call anything. Mutexes get no fairness of their own (`std::mutex` has none), so `BucketLocks` and
`ShardedCounter` claim only that some operation ends. `DekkerTSO` adds that a store buffer drains, which hardware guarantees, and
`TimedRun` that time passes. In `HashTableD` fairness of a waiting thread gives nothing while its loop condition is false; that
`OperationsEnd` holds says that the thread it waits for finishes the chunk it claimed. In `KCAS` operations are bounded in number, so
`OperationsEnd` says that helping comes to an end, and not that a single operation is wait-free. In `ElidedTree` a
transaction may abort for ever as far as fairness goes: the retry budget, and the fallback, are what ends an operation; a thread's
bounded number of operations stands for a lock that is free again and again. Wait-freedom of table C is not stated
with fairness but as an action property: each own step takes the operation further, through at most `3 * Cap + 1` stages.

## 5. Proofs

`HashTableC_proofs` holds for every set of threads and of positive keys, every capacity, word size and hash function
(`TableAssumption` is the only assumption). The inductive invariant `IInv` is the conjunction of

* `TypeOK` and `LocalsOK`: the locals agree with the label, and the history of a running update includes the present;
* `KeysUnique` and `KeysReachable`;
* `PassedBuckets`: a bucket a thread has probed is used up by something else than its key, for good. `KeysUnique` alone is
  not inductive: an insert that stores its key must know that no bucket before and no bucket after holds it. Before: its
  passed buckets. After: if the key were in a later bucket, `KeysReachable` would say that the present one is not empty;
* `LostEraseJustified`: an erase that will fail its CAS has seen a moment at which its key was absent.

The step proof reduces every action to one of three shapes: a claim of an empty bucket (`ClaimKeepsInv`), the burial of a
key (`BuryKeepsInv`), or no change of the buckets (`QuietKeepsInv`). From `IInv` follow `TypeCorrect`, `KeyUniqueness`,
`KeyReachability`, and `Refinement`: algorithm C implements `BoundedSet`. There a failing operation needs a witness in
`seen`: a present key (insert), an empty bucket met after passed ones, hence absence (`AbsentBeforeEmpty`), the exhausted
path (`ExhaustedMeansAbsent`), or the moment recorded by `LostEraseJustified`. A refused insert needs that the used buckets
are at least those of its path, by cardinality. `WaitFreedom` proves that every step of a thread advances `Stage` and
leaves the stages of the others alone. `StableKeysCounted` is the promise of the unlocked `getSumOfKeys`: it returns at least the keys that stay in the table from its call to its end. `SumInv` says of a
running sum that it is the sum of what it found in the buckets it passed, where a key that stays was found, since it does not move (`KeysUnique`, `KeysReachable`).

`LockedTables_proofs` adds `LockAssumption` (`Nobody` is no thread) and shows that algorithms A and B implement algorithm C, whatever the threads,
keys, capacity and hash function: `ImplementsLockFree`. The refinement mapping `absPc` says where a thread of A or B is in C. One that waits for a lock
stays where its last read put it. One that holds the lock has, in C, already read the bucket, or failed its CAS there, since what it will find is fixed: the lemma `OthersStay`
says that a step of a thread changes no bucket that another one has locked. There is one lemma per group of actions that share a shape (`InsertOfA` to `EraseOfB`,
`SumsAreSums`), and each maps an action to a step of C or to none. `EitherInv` adds to the invariant of C, taken over by instantiation, which locks a thread
holds at each label (`HoldsRight`; in `getSumOfKeys` an interval of buckets) and `FoundKey`: a bucket in which `erase` of B has seen its key holds it or a tombstone for ever.
What was proved of C is then true of A and B (`LockedImplementSet`), and `LocksTakenInOrder` and `EraseFindsKeyOrTombstone` follow from `EitherInv`.
`LockedSumIsSnapshot` adds that their `getSumOfKeys` returns the sum of the keys of one moment: the buckets added up so far are locked, so they still hold what was added.

`SumTheorems` is what those proofs need to know of sums. `SumFunctionOnSet`, `FoldFunction` and `SumSet` are folds, which take their elements in an order that `CHOOSE` gives; that the order does
not matter is itself an induction. The induction theorems of the library take an operator, which the provers here cannot instantiate, so `NatInductionIn` and `SubsetInduction` are proved
with a set in its place, from the well-foundedness of `<` and of the strict subset order, and each lemma looks at a smallest set for which it would fail.
From `AddsUpAny` (any element may be taken first) follow the sum with an element more or less, after one change, and of larger numbers, and the sum of the keys of a table
as the sum of its buckets (`SumOfValues`). A fold that starts from a number adds it (`FoldFrom`).

`Counting_proofs` is about the four programs that run `Counting` puts side by side. Two threads compete for the locks, and what is proved of the others holds for
any number of threads; the rounds, the increments, the factor of a batch and the interval between looks at the timer are arbitrary (`RoundsAssumption`; `CountingAssumption`: there is a thread, a batch is not empty, and `Nobody` is no process). `RunOfEach` says that a run of `MC_Counting` is a run
of each program; what is proved of a program is then true of it.

* `Dekker`: `Exclusion` and `NoLostIncrement`. `IInv` is `TypeOK`, `FlagUp` (whoever is past
  the announcement has its flag up, which makes exclusion inductive), `MutualExclusion` and `CountOK` (the counter equals the
  finished increments and those written but not finished, and a thread between read and write of `v` holds the current value).
* `DekkerTSO`: the same of the lock with fences, whatever the store buffers do (`FencesHold`, `FencesDoTheirWork`). The strengthening is `StoresInOrder`, which says for each label
  what a buffer may hold: nothing, or the stores since the last fence, at most three. `FlagUp` then speaks of the flag in memory, from the fence after the announcement on, and
  `CountOK` counts an increment from when its store drains. `Check` enters with an empty buffer, so what it loads is memory, where a thread inside has its flag up. Without the
  fence after the announcement `FlagUp` is not inductive, and `FencesSuffice` fails (the same fence on the second path is its mutant `ReannouncedUnfenced`).
* `TimedRun`: `ReportsBounded`. `TimedInv` is `TimedTypeOK`, `BarrierOK` (`arrived` counts those that have come to the barrier, nobody passes it before
  all have come, and main starts the timer first) and `CountsOK` (the global count and the local ones add up to the increments made, and those that were
  made to the ones that the threads have reported, once they have).
* `ShardedCounter`: `ShardsCount`, that is, both counters implement `LinCounter`, and the locked one returns the total of one moment. `ShardInv` is `ShardTypeOK`, `LocksHeld`
  (which shards a read has locked at each label) and `ReadOK`. The last one carries the refinement: a read that has passed some shards has added up
  no less than they held at the call and no more than they hold now, and `seen` is the interval of all totals since the call; increments by others
  keep that, whether they are behind the read or ahead of it, and so the answer is one of the totals.

`LinkedList_proofs` holds for every set of threads and nodes, every range of keys and any number of operations (`ListAssumption`).
`ListInv` is `TypeOK`, `Sentinels`, `Closed` (pointers of nodes in use lead to nodes in use), `LinksAgree`, `MarkedLeadOn` and
`Remembered`. The k-CAS of `erase` never asks whether `succ.next` is still `after`. What saves it is that it does check
`after.prev = succ` and the mark of `after`: by `LinksAgree` at that moment, `succ.next` must then be `after`. But `LinksAgree` says also that
the list is sorted, and for that it needs `Remembered`: what an operation remembers of `pred`, `succ` and `after` lies on the right sides of its key,
and stays there, since the key of a node never changes. There is one lemma per action.

The second part shows on top of it that the list implements `LinSet` (`Linearizable`). A k-CAS that succeeds adds or removes exactly its key:
`Dense` says that no key of the list lies between a node and the next one. The hard part are the searches, which take no snapshot
and may stand on a node erased long ago. `OnFreshNode` says that they never do so on a node that was erased before their call: there is a
set `F` of nodes that were all in the list at some moment since the call, closed under `next`, with the node of the search in it. A node of `F` that was
erased keeps the `next` it had then, and the two were neighbours in the contents that `seen` recorded, so the answer that a search
reads off from them was right at that moment. The call takes the unmarked nodes for `F`, an insert adds its node, and an erase
changes nothing in `F` but records the contents.

`HashTableD_proofs` holds for every set of threads and of positive keys, every hash function, first capacity, chunk, probe limit and batch, and any number
of operations (`ExpandAssumption`), so for any number of tables. Its invariant `IInv` has three layers.

* `Globals` speaks of the chain of tables. `Chain`: all tables but the last two are migrated for good. `ChunksCounted`: the chunks done and those with an owner are
  the chunks claimed, so a thread that leaves the wait loop of `helpExpansion` finds a complete migration. `OneOwner`: no chunk has two. `MarksTellProgress`: a bucket is marked
  exactly when its chunk's owner has passed it. `CurrentUnmarked`, `KeysUnique` and `KeysReachable` as in table C, but for every table. `MarkedKeysMove` and `MovedKeysMarked`: a key
  marked in the old table is in the new one or in the hands of a thread that copies it, and nothing else is in the new one while keys are moved.
* `InPlace` and `Copier` say what a thread knows: an operation probes only tables whose migration it has seen complete, has passed
  buckets that its key is not in, owns the chunk it migrates, and copies a key that is not in the new table yet.
* `Records`: the contents seen since the call include the present, and an erase whose CAS will fail has seen its key absent.

Two facts carry the rest. `Evolve`: words go one way, a marked one never changes, a key becomes a tombstone only. And the set is *one* set: its contents are the keys
not yet marked in the old table, those in the new one and those in a copier's hands, so neither mark nor copy changes it (`Hidden`); each other step
is a call (`Called`) or the answer of an operation (`Answered`), which inserts, erases, or changes nothing and finds its justification in `seen`. There is one lemma per action. From these
follow `OneMigration`, `MarkedStaysFrozen`, `NewTableIsMoved` (the assertion of `migrate` that the key to be moved is not there yet) and `Refinement`. The theorems hold as long as the program
runs: the steps that fail an assertion or an allocation end it (finding 1).

`CountersTell` is `CountersTellBuckets`: in every state the two counters of a table agree with its buckets, once the batches held back are added.
A thread changes only its own share of a counter (`Share`: the global part and its own, less a batch that is in both and less what is still to be counted), so a step
changes the total as it changes that share (`PartsStep`), and `Balanced` says that the buckets change by as much. Most steps leave nothing to count (`Steady`);
a store adds a bucket and a share (`FilledTells`), a step of the counters moves a share from one part to another (`CounterTells`), a step on one table leaves
the others alone (`UntouchedTells`), and a new table starts with its buckets empty and its counters at zero.

`Elided_proofs` has two parts. The tree's holds for every set of threads, every range of keys, every memory that has the three nodes of the constructor, and every number of retries (`TreeAssumption`).
`IInv` is `TypeOK`, `Shape`, `LockOK` and, per thread, `SearchOK`.

* `Shape`: the linked nodes (in use, without those that an erase under the lock has still to delete) form an external tree. `Frame` keeps the constructor's
  nodes in place, which is why an erase that hits always has a grandparent; in `Children` each inner node has two children and each node one parent; `Ranked` says
  that there is no cycle, by a rank that grows downwards. Insert and erase keep it: `GrownShape`, `ShrunkShape`.
* `SearchOK`: the places of a search are a node, its parent and its grandparent *now* (`OnPath`), and a transaction has read a set closed upwards to the root (`Footprint`).
* `LockOK`: one holder, and no transaction next to it. Without the read of `gLock` in `Begin` it is not inductive.

The argument for `NoFreedNode` is `ReadsNotErased`: to reach the two nodes that an erase takes out one passes the node that it writes to, since that is the only parent. So a
transaction that stands on one of them, or has read one, has the written node in its read set and fails; every other one keeps its path (`SearchKept`). `StaysTree` and
`LockExcludes` state the other two parts.

`TreeImplementsSet` (`ImplementsSet`, for the tree) needs to know what a search finds. `Way(h, k)` is the least set of nodes that a search for `k` does not leave;
as a least set it needs no recursion, and the leaf that `LeafFor` computes by recursion is on it (`LeafForIs`, `LeafForWay`). `SetInv` adds three parts to `IInv`.

* `Sorted`: a leaf is on the way of its key, and an inner node is on the way of its key and of the key before, which part there. Two keys part at one node only (`PartOnce`), so no two inner nodes
  have the same key, and no path is longer than there are keys (`WalkEnds`): that is why the depth to which `LeafFor` looks is enough. A node on two ways is on those of all keys between
  (`WaysBetween`), which puts the new inner node of an insert where `Sorted` wants it.
* `OnWay`: a search stands on the way of its key. Insert and erase keep every way but for the nodes they take out (`GrowWay`, `ShrinkWay`), and a transaction that stands on one of those fails.
* `Asked`: an operation that is not over has seen what the tree holds now.

So a transaction that reaches a leaf has found the leaf of its key in the tree as it is, and its answer is right at that moment (`HitIs`); an insert adds exactly its key (`GrownElements`), an erase removes exactly its key (`ShrunkElements`).
The runs may start from any `SearchTree`, that is, from nodes with `Shape` and `Sorted`; the empty tree of the constructor is one (`EmptyTree`). The full tree, with which a run of `MC_Elided` may also
start, is put together by the run, and that it is one is not proved: there TLC checks the refinement itself.

The table's part holds for finitely many threads, any positive keys below the word size, any hash function into the words, any batch size, probe limit and first
capacity (`TableAssumption`, in `MC_Elided`, whose runs use one structure each: a run of the tree leaves the table `Untouched`). `TableInv` has these parts.

* `InGuard`: one thread is inside, with an operation that fits what it does. `Distinct`: no key is in two buckets. `Placed`: before the bucket of a key, on its path, none is empty.
  `Probing`: the probes so far have met neither the key nor an empty bucket, so a miss is a miss (`NotMet`) although the guard may cover a table full of tombstones.
* `Moving`: during an expansion a key is in the new table or still to be moved, never in both; the new table has no tombstones and four buckets for each key.
* `Counted`: the counters never say that there are fewer keys than there are. It is an inequality because a moved key is counted a second time (section 7).

`ExpansionFits` (`TableFits`) says three things of an expansion: the counters cover the keys (`CountersCover`), every key that it moves finds a bucket (`MovesFit`), and so does the insert that
asked for it, provided the new table has any bucket (`RetryFits`; finding 4 is the case in which it has none). It rests on `Room`. The code probes `(h + i) % capacity` with a `uint32_t` sum, and the sum wraps around where the capacity does not divide 2^32, so
the probes of a key need not pass every bucket. But as many in a row as there are keys, before or after the wrap, go to different buckets if the table has twice as many
(`Window`), and one of these is empty (`FS_PigeonHole`). Twice would do for the keys; the code has four times, which leaves room for the insert (`RetryRoom`).
`TableImplementsSet` (`ImplementsSet`, for the table) says that each step is a stutter, a call or an answer that the contents justify (`TableStep`, from one lemma per action). An operation
under the guard is alone, so it takes effect as it returns; `Move` and `EndExpand` stutter because `Elements` counts the keys still to be moved.

`KCAS_Debra_proofs` has two parts, on the k-CAS and on reclamation, which the list and the tree stand on together. The part on the k-CAS holds for every set of threads, any number of words and of
entries, any values, and any number of operations (`KCASAssumption`: no list of entries is empty, and 0, the contents of a fresh word, is a value). So a descriptor may be reused any number of times, and
each fact must be true of every use that somebody still knows. The inductive invariant `KInv` is `KType` and these parts.

* `FrameOK`: a call of `help` has the entries of its k-CAS, in the order of the descriptor as long as the descriptor is in that use, and if the k-CAS is still undecided (`Open`) its tag is in all words
  before the call's own. `StackOK` adds what is known at each label; above all, a thread about to decide for success has gone through all entries.
* `Begun` and `Comes`: a k-CAS whose tag somebody has met, or brings to a word, has its first word locked as long as it is undecided. This is why an RDCSS of a helper that comes late can do no harm
  to a k-CAS that has not started: nobody but its owner knows it before that.
* `RdcssOK`, `OwnRdcssOK`: a thread in `rdcssHelp` knows the word and the k-CAS of the RDCSS, if its descriptor is still in that use; its own is in the word, or completed by a helper, as long as the k-CAS is
  undecided. So `NextEntry` never passes a word that is not locked.
* `WordOK`: the tag of an RDCSS in a word is of the present use of its descriptor, whose thread is in `rdcssHelp` for that word.

What a step may do to those facts is said once (`KcasOn`, `RdcssOn`, `WordsOn`): uses of a descriptor only go forward, a descriptor keeps its entries during a use, no k-CAS is open again, and a word locked by an open
k-CAS stays locked. The last one has a reason for each way to write a word: a k-CAS unlocks only when decided, and an RDCSS finds its own tag there. Each action keeps the rest. Sorting the entries only
changes their order (`SortedType`, from the fact that the places of the entries are all different). From `KInv` follow `KcasSucceedsLocked`, which is `SucceedsLocked`, and
`RdcssTagsAlive`, the half of `TagsAlive` that is true in general; of the tag of a k-CAS it is false (finding 2), and a word with such a tag of a finished k-CAS is just what `KInv` has to
allow for.

`HelpersDoNotCircle` is `NoHelpCycle`. `OrderInv` adds to `KInv` that the entries of a descriptor are `Ordered`, and that an undecided k-CAS takes its words in that order (`Follows`): if its tag is in a word, or on
its way to one in an RDCSS, all its words of lower addresses are locked. Suppose that some undecided k-CASes all met each other's tags, and look at the one that holds the highest word: the word in which it
meets another's tag is a lower one, so it holds that itself. Only `Ordered` needs to know how the entries are sorted.

The part on reclamation is about `Debra` as `MC_Debra` instantiates it (`D`), beside the k-CAS. It holds for any number of threads, any `MIN_OPS_BEFORE_READ` and any number of bags of which at least one stays empty and five are kept for a
rotation (`Proper`, assumed in `MC_Debra` as `DebraAssumption`; the code keeps six). It has two layers.

* `EpochInv` gives `GraceHolds`. `AnnouncementHolds`: while an operation runs its announcement is visible and names an epoch, and the epoch is at most
  one ahead of the moment it became visible. `StoresInOrder`: what a store buffer may hold at each label. `ScanStops` and `ScanComplete`: a thread that has found all others in epoch e
  cannot be followed by one that runs since before e when its CAS succeeds. The barrier in `Enter` is what makes the announcement visible; without it the
  invariant fails, as the mutant `EnterUnfenced` does.
* `NodeInv` gives `NoUseAfterFreeHolds`. `OnePlace`: a node is linked, taken out, in one bag or free. `RotationsTell`: how often a thread has rotated bounds the epoch
  from below, so a node in an old bag was taken out long ago (`OldBagsEmpty`, `TakenOutBefore`, `FreeIsOld`). `HeldIsRecent`: what an operation reached was taken out no earlier than its start; what it got from one under way, no earlier than
  one epoch before; and what it got from one that had ended, no earlier than two epochs before, because the late helper overlaps both, and each start is at most one epoch from the other. `LeadsLater`: a pointer out of a node taken out leads to one that was linked then, so a walk over erased nodes never goes back in time.
  `FreeIsOld` has to be four epochs, one more than the two that lie between and the one in which the operation itself runs. Four rotations would not do
  (mutant `RotateFour`); five suffice, and the code keeps six.

## 6. Only model-checked

Liveness under fairness (`SomeOperationEnds`, `OperationsEnd`, `NobodyStarves`, `EndsWithFullCount`, `SomeoneFinishes`, `RunEnds`) is beyond
TLAPS here. `Shape` itself is not given to TLC, which would have to look for a rank; its other parts, `LockOK` and `SearchOK` were checked on the
instance of `Elided` before they were proved. Of `KCAS`, `TagsAlive` and `ImplementsKCAS`
are checked on the instance above and not proved; so is the tree over k-CAS. `TagsAlive` and `OneTree` do not hold in general (findings 2 and 3), so only the instances without those cases can have them.
`KInv` was checked on the instance of `KCAS` before it was proved.

## 7. Findings

1. `D_zero`. `alg_d.h:162` asserts that an expansion never finds zero keys. Inserts and erases of the same keys use a
   table up with tombstones until `insertAC` exceeds half the capacity while no key is left: the debug build aborts, and the
   build without assertions goes on to the branch that doubles the capacity. The count may also come out negative, when a batch of erases is
   counted twice, in which case the allocation fails and the program exits; the model has both outcomes, and its
   properties about sets hold as long as the program runs.
2. `KCAS_back`. `rdcssHelp` reads that a k-CAS is undecided and then swaps its tag in (`kcas.h:245-249`). A helper that stops between the
   two, with its RDCSS in a word that has gone back to the old value, lets the owner (which met another value there) decide for
   failure, leave that word alone because it holds the RDCSS, return and reuse its descriptor. The helper then puts the
   tag of the finished k-CAS into the word and leaves it there (`kcas.h:357`). From then on `helpOther` can do nothing for it, and
   `readPtr` and every k-CAS on the word loop for ever, where `kcas.h:386` sorts "to guarantee progress". It needs a value that returns
   and a descriptor that is reused, so run `KCAS` does not meet it.
   A tag that comes back while the descriptor is still in its use can be helped, also by later operations: reclamation has to wait one epoch longer for those (`BorrowLate`).
3. `Tree_lost`. `erase` of the tree reads `p.left` once to find `sibling` and again to find `node` (`external_tree_kcas.h:181-186`). When the leaf is not the left child of `p` at the first read,
   because an insert put an inner node above it, and is again at the second, after an erase, both are the address of `p.left`; the k-CAS then names that word twice and checks the first entry only, the other child of `p`
   is not checked, and the key just inserted there is taken out with `p`. The checksum of `benchmark.cpp:205` no longer agrees.
   It takes one operation against three in one place, so `Linked`, with one operation per thread, does not meet it.
4. `Table_full`. The capacity of a new table is `getAccurateSize() * 4` (`hashtable.h:82`). Inserts and erases of the same keys bring `approxInserts` past half the capacity
   while no key is left; the counters then say zero, the new table has no bucket at all, and the insert that asked for the expansion runs off its loop into `assert(false)`
   (`hashtable.h:128`). Without assertions the function ends without a return. `TableFits` leaves exactly this case out, and `ImplementsSet` takes the failed assertion for a stop. Table D has an
   assertion of its own for it (finding 1), this one has not.

Noted while modelling, and not checked by a run of their own:

* `hashtable.h:90`: `expand` moves keys with `sequentialInsert`, which counts them again (line 124), and then takes the sum for the new count. The "suggested adjustment"
  of line 94 leaves a size that counts moved keys twice. Tables get larger than meant, and `ExpansionFits` proves that every key that is moved finds room.
* `alg_b.h:100` says of the `erase` that finds a tombstone under the lock that its linearization point is that last read. The
  key may be in a later bucket by then; the operation is linearizable, but at an earlier moment.
* `alg_d.h:101`: a first table of 50 buckets or fewer is never seen to be half full, because `get` sees inserts only after a
  batch and the accurate count starts after 50 probes. It fills up, and the next insert fails the assertion of line 269.
* `hashtable.h:72`: the same holds of the table of assignment 7 with 100 buckets or fewer: `get` sees whole batches only, and the accurate count starts after 100 probes, so
  such a table fills up, first or after an expansion, and the next insert comes to the assertion of finding 4. Run `Table_full` has one thread, so that its trace shows the table of no buckets.
* With k-CASes of three words, a thread can come back, through the k-CAS of another, to one that it is helping already: it meets a later word of it that was locked or not yet unlocked when the other was
  decided. So the calls of `help` on its stack are not all of different k-CASes; what keeps helping finite is that undecided ones never wait in a circle (`HelpersDoNotCircle`).
* `external_tree_kcas_reclaim.h` sets `MAX_KCAS` to 1. In `benchmark.cpp` `external_tree_kcas.h` comes first, with 6.
* In `external_tree_kcas_reclaim.h` `getSumOfKeysInSubtree` takes a guard inside its own guard: the end of an inner one makes the thread
  quiescent while the outer goes on. The benchmark calls it when no other thread runs.
* The sequence numbers of descriptors are 48 bits wide (`kcas.h:41`) and wrap around in principle; in the model they do not.

## 8. Not modelled, and why

* `recordmgr/` beyond the DEBRA reclaimer (other reclaimers, pools, block bags), the Bronson tree of assignment 7 with `gstats`: third-party code
  in several copies, most of the repository's lines, of which the programs use the instantiation modelled in `Debra` or only as a baseline.
* `libtle.so`: no source. Its guard is the assumption of `ElidedTable`.
* `q3_1.cpp` and `CounterNaive`: data races on plain variables, which C++ gives no meaning.
* The benchmarks' barrier, timer and output: the timed workload of assignment 2 has the same protocol and is modelled.
* Within modelled parts: the rounding of `(float)oldCapacity` above 2^24 buckets; a new table of D that is too small for the keys
  inserted between the count and the marking (it needs more keys than the runs have); failing memory allocation outside D.

## 9. What could come next

1. Proofs: `ImplementsKCAS`, for the programs in which no value returns to a word, since it is false of others (finding 2).
2. `KCAS` with three words, as the list uses it.
