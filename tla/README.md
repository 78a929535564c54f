# A verification of hnsw-shiro-ef

The repository is a fork of hnswlib: a C++ library (headers under
`src/hnswlib/`) for approximate nearest-neighbour search on a hierarchical
navigable small-world graph, Python bindings, and an adaptive search that
chooses its search width `ef` while it runs, from a table calibrated in advance.
This directory holds TLA+ models of the library, translated from the source,
TLC configurations that check them on small instances, and TLAPS proofs of their
safety properties for all values of the constants. `PROJECT.json` maps every
definition that models code to the lines it stands for.

* `tlc -config MCx.cfg MCx` checks a run; `tlapm XProofs.tla` checks proofs.

Contents: 1 the system, 2 the modules, 3 the runs, 4 the proofs, 5 what the models
assume and leave out, 6 disagreements found, 7 the plan.

## 1. The system

| Component | Source | State | Operations | What makes it correct |
|---|---|---|---|---|
| `ParallelFor` | `shiro_ef.h:143-205`, copy in `python_bindings/bindings.cpp` | an atomic counter, an exception pointer, the threads | one call: claim, run, catch, join | every id once; an exception stops the loop and is reported; it ends |
| Element table of `HierarchicalNSW` | `hnswalg.h` (`addPoint`, `markDelete`, `unmarkDelete`, `getDataByLabel`, `resizeIndex`) | `label_lookup_`, `cur_element_count`, labels and vectors in the slots, delete marks, `num_deleted_`, `deleted_elements` | the same | a label leads to its element and back; counters agree with marks; a slot has one user; the table behaves as a map |
| Graph construction | `hnswalg.h` (`addPoint/3`, `searchBaseLayer`, `getNeighborsByHeuristic2`, `mutuallyConnectNewElement`, `updatePoint`, `repairConnectionsForUpdate`) | links per level, levels, `enterpoint_node_`, `maxlevel_`, the link locks, `global` | insert, update, repair | no deadlock; the code's own integrity checks never fire; no list is read that does not exist; every element stays in reach |
| k-NN search | `hnswalg.h` (`searchKnn`, `searchBaseLayerST`, `searchStopConditionClosest`) | two queues and a visited list per search | search with and without filter, deletions, stop conditions | returns live, allowed elements, at most k, none twice; ends |
| Adaptive search | `hnswalg.h:1348-1919` (`adaptiveSearchKnn`, `adaptiveSearchKnnTest`), 1925-2187 (`searchKnnWithPatienceInProximity`), `estimator.h` | the same, and a statistics phase | search that sets its own `ef` | the results are the best seen before and after the choice of `ef`; enough results; ends |
| `VisitedListPool` | `visited_list_pool.h` | a deque of lists, each with a 16-bit tag and a tag per element | take, reset, mark, give back | one owner per list; marks exact across the wrap of the tag; bounded |
| `BruteforceSearch` | `bruteforce.h` | array of elements, `dict_external_to_internal`, `cur_element_count` | add, remove, search, save, load | a map from labels to points; exact answers |
| Stop conditions | `stop_condition.h` | counters of documents and elements | add, remove, should stop, should drop | counters agree with the queue |
| Sketch | `sketch.h` | a table score -> ef per convergence bucket | look up, interpolate | every lookup is defined and lies between entries of the table |
| `RecallEstimator`, `EfAdapter` | `shiro_ef.h` | score groups, their ef/recall lists, convergence buckets | calibrate, update, serialize | calibration ends; each group gets the smallest ef tried that reaches the recall; a query is served from the table it trained |
| `ApproximatedScoreCalculator` | `estimator.h` | none (floating-point statistics) | score | - |
| Persistence | `hnswalg.h` (`saveIndex`, `loadIndex`), `serialize`/`deserialize` | files | save, load | what is loaded is what was saved, or the load is refused |
| Python bindings | `bindings.cpp`, `LazyIndex.py` | `appr_alg`, `cur_l`, `ep_added`, `index_inited` | `add_items`, `mark_deleted`, `resize_index`, `save_index`, `load_index`, pickling | labels given by default are new; the index is a map that survives a restart |
| Metric spaces, drivers, examples, DARTH/faiss | `space_*.h`, `experiments_driver/`, `examples/`, `benchmarking-darth/` | - | - | not modelled |

### How the parts interact

A driver or the bindings build an index by `ParallelFor` over rows; each call of
`fn` is an `addPoint`. `addPoint` takes the mutex of its label
(`getLabelOpMutex`), finds or claims a slot in the element table, then either
updates the element (`updatePoint`) or inserts it in the graph, taking the link
lock of its own slot for the whole insertion, `global` while it reads the
entry point (to the end if it rises above the top level), and the link locks of
other elements one at a time. Searches, by insertions and by queries, borrow a
visited list from the pool. Queries take no link lock, and look at the delete
marks only if `num_deleted_` is not zero. Calibration (`EfAdapter`) runs batches
of adaptive searches by `ParallelFor` on an index that nobody changes, and
compares with answers computed by brute force.

### What is hard here

* **Concurrency** with five kinds of locks (label mutexes, `label_lookup_lock`,
  `deleted_elements_lock`, link locks, `global`) and much state under none of
  them: delete marks, `num_deleted_`, vectors, the entry point's second read.
* **State read under a lock and used after it**: the slot of a label, the vacant
  slot taken for another label, the entry point and the top level.
* **Partial failure**: an exception in one worker of `ParallelFor`; a filter that
  throws and abandons its visited list; the index full after the label lock
  was taken.
* **Wrap-around**: the 16-bit tag, `size_t` in `ParallelFor`.
* **Long legal sequences**: delete, replace, revive; remove the last, add again.
* **Crash and restart**: `saveIndex` truncates the old file before it writes, and
  never looks at the state of the stream; `loadIndex` deletes the index in memory
  before it knows whether the file is whole.
* **Lists chosen without a lock**: an update reads neighbours and their neighbours,
  chooses, and writes over lists that others have changed since; an insertion
  appends to a list without looking what is in it.
* **Numeric edges**: groups without a hit, buckets without a group, slopes of zero,
  integer divisions, a convergence on a bucket's centre.
* **Liveness**: insertions keep one link lock while they wait for others.

The hazards are listed one by one, with line and property, in `PROJECT.json`.

## 2. The modules

| Module | Models | Proofs | Model-checking module |
|---|---|---|---|
| `ParallelFor` | the parallel loop | `ParallelForProofs` | `MCParallelFor` |
| `LabelSlots` | the element table, step by step | `LabelSlotsProofs` | `MCLabelSlots` |
| `LabelStore` | what the table promises: an atomic label map | `LabelSlotsProofs` (refinement) | (property of `MCLabelSlots`) |
| `VisitedListPool` | the pool and its tags | `VisitedListPoolProofs` | `MCVisitedListPool` |
| `BruteForce` | array, dictionary, scan | `BruteForceProofs` | `MCBruteForce` |
| `PointMap` | what the array promises: a map | `BruteForceProofs` (refinement) | (property of `MCBruteForce`) |
| `GraphBuild` | concurrent insertion into the graph, and update and repair | `GraphBuildProofs` | `MCGraphBuild` |
| `BestFirstSearch` | the search of the base layer: plain, epsilon, adaptive, patience | `BestFirstSearchProofs` | `MCBestFirstSearch` |
| `EfCalibration` | the calibration of ef, and the lookups in its tables | `EfCalibrationProofs` | `MCEfCalibration` |
| `IndexSession` | an index in a process, its file, and restarts | `IndexSessionProofs` | `MCIndexSession` |
| `DurableMap` | what the index and its file promise: a map that is saved and restored | `IndexSessionProofs` (refinement) | (property of `MCIndexSession`) |

Definitions under a comment "Mutant:" are
plausible bugs of a definition that follows them. They are never used by a
specification; replacing the original by one of them makes a property of a run
fail, which shows that the property depends on that piece of the code.

**ParallelFor.** `Claim` is `current.fetch_add(1)` with the test against `end`;
`Call` is `fn`, which returns or throws; `Catch` is the catch block under
`lastExceptMutex`; `Join` is the loop of joins with the rethrow. With one worker
the code takes a plain loop: `SequentialCall`, `SequentialReturn`. `Increment`
has the width of `size_t`.

**LabelSlots.** Each critical section of the code is one step, and each write
outside a critical section is a step of its own. A thread enters with `Begin`,
which takes the label mutex, and follows the code's path:
`markDelete`: `Find`, `Mark`, `CountMark`, `Offer`;
`unmarkDelete`: `Find`, `Unmark`, `CountUnmark`, `Withdraw`;
`getDataByLabel`: `Find`, `Read`;
`addPoint`: `FindOrClaim`, then `Initialise` (new element) or `Update`
(with the `Unmark` steps if the element is deleted), then `StartWrite`,
`EndWrite` for the copy of the vector, torn in between;
`addPoint` with `replace_deleted`: `TakeVacant`, `Relabel`, `Rebind`, the
`Unmark` steps, `StartWrite`, `EndWrite`, or the plain path if nothing is vacant.
`Return` releases the label mutex, for exceptions too. The variable `before` is
a history of the label's element at the call, used by the refinement only.
`Permitted` restricts the callers, not the code (section 5). `MCLabelSlots` lets
`replacing` choose between two indexes: one that replaces deleted elements, and
`Reviving`, an instance of the module without replacement in which two labels share a mutex.

**LabelStore** is the abstract specification: a map from labels to vectors with
a deleted flag, whose operations take effect in one step. The refinement maps
the store to `Element(x)`: what the slot of x says if no operation is under way
on x, else what it said when the operation began. Every operation thus takes
effect when it ends; `Rebind` forgets the label whose slot is taken (`Forget`).

**VisitedListPool.** `GetFree` and `Release` are the sections under `poolguard`;
`Reset` runs outside of it, as in the code; `Visit` is the marking by a search;
`Abandon` is a search left by an exception. `visited` is a history variable.

**BruteForce.** `AddPoint` and `RemovePoint` are one step each, `SearchKnn` is a
pure operator that folds the two loops of the scan over the slots: a slot below k is let in
unconditionally, a later one by comparison with the top, and both only if the filter
allows its label. **PointMap** is the map.

**GraphBuild.** An insertion is a run of steps of one thread. `Claim` takes a slot,
its link lock and a level; `Global` is `templock` with the early release;
`ReadEntry` and `CopyEntry` are the two unguarded reads of `enterpoint_node_`;
`First` is the element that finds the graph empty; `Descend` is one pass of the
greedy descent; `Expand` is the visit of one candidate in `searchBaseLayer`;
`Select` runs the neighbour heuristic and writes the element's own list;
`LinkBack` visits one selected neighbour, under its lock, and prunes its list
when full; `Publish` sets the entry point and releases the locks. An update
(`updatePoint`) begins with `BeginUpdate`, which moves the vector, and
`CopyEntryForUpdate`; per level, `OneHop` reads the element's neighbours, `TwoHop`
theirs, one list at a time, and `Relink` writes over the list of each neighbour
(the choice depends only on what was read before, so it is one step with the
write). `StartRepair` is `repairConnectionsForUpdate`: `Descend` and
`Expand` again, with `SelectAgain` in place of `Select`, then `LinkBack`. Each
`throw` of the code is a step to the state "threw" (`Fail`), and the undefined
`back()` of an empty selection a state of its own. `SetMark` is a deletion in a
quiet state. A link list is the set of the elements in it (`links`) and the number of its
entries that stand there a second time (`again`): only an update looks
whether its element is in a neighbour's list already, so that an insertion may append it
once more, which takes up room in the list (`Size`) and can make it full.

**BestFirstSearch.** The source has four copies of one loop; the model has the
loop once, with a `mode`. `Start` enters the entry point; `Expand` is the head of
the loop up to `candidate_set.pop()`; `Scan` is one round of the loop over the
links, whole: the distance collected, the statistics completed with the choice
of `ef` and the trim, then `Visit`; `EndExpansion` and `CompareTopK` are the end
of an expansion, the latter the block on patience; `Finish` is the break or the
empty queue, with the trim to k (or the filter by epsilon) of the callers. A
round reads the delete mark of its element once, so that it can be one step;
`Mark` is another thread's `markDelete` or `unmarkDelete` between two rounds.
Elements are named by their rank of distance from the query, and a queue is a
set; `Nearest(S, m)` is what popping a max-heap to size m leaves. The order of
the links in a list is any order. The score and the sketch are any choice of `ef`.

**EfCalibration.** The training queries, sorted by convergence, are cut into
buckets (`Bucket`, `Center`, `Target`). Per bucket, `EstimateFirst` and `EstimateSecond`
are the two batches of searches (ef = k and 1.5 k) that give each group of one
score its first two pairs of ef and recall; `Raise` is one round of the loop that
raises a group's ef, `Settle` its head when the recall is reached; `Fill` spreads
the chosen ef over all scores (`Chosen`, `Block`, `Filled`). What a batch of searches
finds is any of `Outcomes`; that a larger ef finds more is not assumed. The
average of nothing is a NaN, which compares false with every number. Reading past the
end of the vector of recalls gives any of `Junk`, and what may be in memory is any float for each
position: negative, larger than any recall, or NaN. So nothing is assumed of a
group's recalls; an ef computed from them that no int can hold is converted to the least int
(`Converted`), as the processors the library is built for do. `Smoothed`, `Bracket` and
`EstimateEf` are the lookups of `Sketch` and of `EfAdapter`, pure operators.

**IndexSession.** One action per call of the bindings: `Create`, `MarkDeleted`,
`UnmarkDeleted`, `Resize`, `Copy` (pickling and unpickling), `Load`,
`LoadRefused`. `add_items` is `BeginAdd`, then one `AddRow` per row in any order
(`Overwrite`, `Append` or `Replace`) or a `FailRow`, then `EndAdd`, which advances
`cur_l` only if all went well. A save is `BeginSave`, which truncates the file, a
`Write` per unit of the file, and `EndSave`, possible before everything is
written because the stream's state is never tested. `Crash` ends the process at any moment,
in the middle of a save or of an `add_items` too; the file stays. `Intact` is the
length check of `loadIndex`. `plain` is a history variable: no ids have been
given, no `add_items` has failed, and the index was not copied, saved or loaded
while it held fewer elements than labels had been given out.

**DurableMap** is the abstract specification: the map in memory, and the map of
the last completed save, of which a load brings back all or nothing. In the refinement the
saved map exists exactly while the file is complete.

## 3. The runs

| Run | Checks | Shows |
|---|---|---|
| `parallel_for` | `AtMostOnce` `CompleteOnReturn` `StopsAfterException` `Finishes` `ExceptionReported` | with 1 to 3 workers and 4 ids, under every interleaving and with any call throwing, no id is run twice, none is skipped, an exception stops the loop and is rethrown, the loop ends |
| `label_slots` | `TableAgrees` `NumDeletedExact` `SlotOwnership` `ImplementsStore` `RevivesInPlace` | 3 threads, 3 labels, 2 slots. With replacement the table stays consistent although a vacant slot still belongs to another label; without it, and with two labels on one mutex, deleted elements are marked, revived and updated in place. Either way it implements the map |
| `label_slots_update_in_place` | `UpdatesInPlace` (violated) | see section 6 |
| `visited_list_pool` | `OneOwner` `VisitedExact` `Bounded` | 2 searches, tags 0..2, arbitrary initial memory, one abandoned search: each search sees exactly its own marks |
| `brute_force` | `DictAgrees` `SearchExact` `ImplementsMap` | 4 labels, 3 slots, points on both sides of the queries and with ties, every filter: exact answers among the elements allowed, a map from labels to points |
| `brute_force_last` | `ImplementsMap` (violated) | see section 6 |
| `graph_build` | `NoCircularWait` `NoInternalError` `SelectionNotEmpty` `ListsExist` `Integrity` `NoDeadEnd` `EntryOnTop` `Connected` `OperationsEnd` | 2 threads insert 4 elements on 2 levels, or one inserts the fourth while the other updates and moves an element, with a deletion in a quiet state: no check of the code fires, no list is read that does not exist, no threads wait for each other, every operation ends, insertions alone give a connected graph |
| `graph_build_inbound` | `InboundConnected` (violated) | see section 6 |
| `best_first_search` | `BestSeen` `LocallyBest` `NeverDeleted` `EnoughResults` `Terminates` | the four searches on small graphs of 5 elements, from every entry point, with any elements deleted and one mark changed on the way: results are the nearest seen, locally optimal, enough, never elements deleted all along; the search ends |
| `ef_calibration` | `TypeOK` `LeastEfChosen` `FilledFromGroups` `ServedByOwnBucket` `EstimateEnclosed` `CalibrationEnds` | 4 queries in 1, 2 or 5 buckets, every outcome of every batch, any junk read: the least ef that reached the recall is chosen, the table stays within what was chosen, a lookup interpolates between the bucket that trained the query and a neighbour, calibration ends |
| `ef_calibration_groups` | `GroupStatistics` (violated) | see section 6 |
| `index_session` | `TableExact` `DefaultLabelsFresh` `ImplementsDurableMap` | 3 labels, 2 slots, one file: any sequence of adds, deletions, resizes, copies, saves, crashes and loads keeps the table exact, gives out new default labels, and is a map that a restart brings back as the last completed save left it |

Deadlock is checked in every run but `best_first_search`, `ef_calibration` and
`ef_calibration_groups`, which end when the one search, or the one calibration,
has returned. In `graph_build` the end is the step `Terminated`, possible only
when all elements are inserted and no operation is under way: anything else is a deadlock.

### Bounds, and why they are enough

* `ParallelFor`: the workers share one counter. Three workers let one be ahead
  of and one behind a third; 4 ids let each worker claim at least once and one
  twice; `SizeMax` leaves room for each worker's overshoot. The proofs lift the bounds.
* `LabelSlots`: two slots and three labels, so that the index is full, a slot
  is taken over by a label that was never in the index, and a label that lost its slot
  comes back. Three threads: one deletes, one replaces, one looks on. Two
  vectors tell an old one from a new one. Without replacement the three threads
  share two mutexes among three labels. The proofs lift the bounds for all
  properties of `label_slots`; one thread and one vector refute `UpdatesInPlace`.
* `VisitedListPool`: tags 0..2 wrap around on every second search of a list, as
  65536 tags do on every 65535th; two searches and three lists force
  allocation, sharing and loss. The proofs lift the bounds (and so cover 2^16).
* `BruteForce`: three slots have a first, a middle and a last one; four labels
  fill them; every set of labels is a filter. All three properties are proved for all bounds.
* `GraphBuild`: `Alone = {0, 3}` are two families of behaviours. With 0, two threads
  insert four elements in every overlap, on a graph that is empty, has one, or
  has two elements. With 3, the graph has three elements when the fourth is inserted
  against one update (`MaxUpdates = 1`), which leaves its element
  where it is or, in a quiet state, moves it to 22, beyond all others (places are
  chosen so that no distances tie). Two levels
  give a rise above the top and a descent. With M = 2 the lists of level 0
  hold four links and those of level 1 two, so that pruning happens on level 1;
  `EfConstruction = 2` makes the search give up candidates; `MaxMarks = 1`
  deletes one element. `Connected` is stated up to the size at which
  level 0 is pruned and without updates: beyond that, links are dropped by design, and
  nothing is said here of who can be reached in a graph whose level 0 is pruned.
  The safety properties are proved for all bounds, `SelectionNotEmpty` with any deletions
  on one level, and on several levels as long as nothing is deleted.
* `BestFirstSearch`: five elements let a search with k = 2 and ef up to 3 push
  results out, stop early, and find a detour through deleted elements. The
  graphs are rings with and without chords, with one-way links, and a path, so
  that near elements can lie behind far ones. `StatsLimit = 4` ends the
  statistics in the middle of the second list, with the entry point counted or
  not. `MaxMarks = 1` changes one mark. The four safety
  properties are proved for all bounds.
* `EfCalibration`: four queries in one bucket, two buckets of two, or five buckets
  (more buckets than queries, so that all but the last are empty). The five score lists have
  neighbouring scores with a score apart on each side, two blocks, groups of two, and
  one group. Outcomes are all found, half found, one query with nothing, and a
  mixture, each at any batch, so recall may fall when ef is raised. k = 2 makes 1.5 k = 3 and
  the bound 5 reachable by steps of at least one. What is read past the end is no hit, more than a
  recall can be, less, or NaN. A recall of 1 is 1200 units, so that the
  divisions that occur are exact or off by less than the comparisons see. The five
  safety properties are proved for all bounds, `LeastEfChosen` if k is at most `EfUpper`.
* `IndexSession`: three labels for two slots (a label can be refused, or take
  another's place); batches of one and two rows, so that the first or second row
  fails; the second slot's element has a list above the base layer, so that files
  cut at an element's start, inside it, and at its end all occur. Vectors are
  interchangeable (symmetry). All three properties are proved for all bounds.

### Fairness

`ParallelFor`: weak fairness of every worker and of the join: the operating system
runs every thread, and `fn` comes back. `GraphBuild`: weak fairness of the steps of
a thread that has begun an operation (`Step`), none of beginning one (`Claim`,
`BeginUpdate`): a thread that waits for a link lock continues when the lock is free for good.
Weak fairness is enough, because no lock is contended for ever with a finite
number of operations. `BestFirstSearch`: weak fairness of the search's own steps: its
thread runs and waits for nothing; other threads need not do anything.
`EfCalibration`: weak fairness of `Next`: one thread runs the calibration and
waits only for batches of searches, which end. Since no outcome of a batch is excluded, termination
does not rest on the searches finding more. The other modules state safety only.

## 4. The proofs

TLAPS checks every theorem from the definitions; nothing is assumed but the
named assumptions on constants in the modules and the ones below.

| Theorems | For all | Under |
|---|---|---|
| `ParallelForProofs`: `TypeCorrect`, `AtMostOnceHolds`, `CompleteOnReturnHolds`, `StopsAfterExceptionHolds`, `NothingSwallowedHolds`, `ProgressHolds` | ranges, finite sets of workers, widths | `NoWrap`: the range ends at least one overshoot per worker below the largest `size_t` |
| `VisitedListPoolProofs`: `TypeCorrect`, `OneOwnerHolds`, `VisitedExactHolds`, `BoundedHolds` | threads, elements, lists, tag widths, initial memory | - |
| `LabelSlotsProofs`: `TypeCorrect`, `TableAgreesHolds`, `NumDeletedExactHolds`, `DeletedForcesCheckHolds`, `SlotOwnershipHolds`, `Implements` | finite sets of threads, labels, vectors, numbers of slots, assignments of labels to mutexes, both settings of `allow_replace_deleted_` | `~AnyReplace`: callers pass `replace_deleted` for new labels only, which the code neither says nor checks (section 6) |
| `BestFirstSearchProofs`: `TypeCorrect`, `BestSeenHolds`, `NeverDeletedHolds`, `LocallyBestHolds`, `EnoughResultsHolds`, `ProgressHolds` | numbers of elements, graphs, k, ef, limits, numbers of marks changed | - |
| `GraphBuildProofs`: `TypeCorrect`, `IntegrityHolds`, `NoInternalErrorHolds`, `ListsExistHolds`, `EntryOnTopHolds`, `NoCircularWaitHolds`, `NoDeadEndHolds`, `ConnectedHolds`, `SelectionNotEmptyHolds`, `SelectionFails`, `ProgressHolds`, `SomeoneProceedsHolds` | threads, elements, levels, places, M from 2, `ef_construction` from M, numbers of marks and updates | the distances are without ties (`DistanceAssumption`), deletions come in quiet states; `SelectionNotEmptyHolds` also `TopLevel = 0`, one level, or `MaxMarks = 0`, nothing is deleted; `SelectionFails` says where it can fail otherwise |
| `IndexSessionProofs`: `TypeCorrect`, `Table`, `Fresh`, `Implements` | labels, vectors, capacities, sizes of batches, layouts of files | one call at a time; `Fresh` only as long as `plain` |
| `BruteForceProofs`: `TypeCorrect`, `DictAgreesHolds`, `SearchExactHolds`, `Implements` | labels, points, capacities, filters | `~RemoveLast`: nobody removes the element of the last slot |
| `EfCalibrationProofs`: `TypeCorrect`, `LeastEfChosenHolds`, `FilledFromGroupsHolds`, `ServedByOwnBucketHolds`, `EstimateEnclosedHolds`, `ProgressHolds` | numbers of queries and buckets, scores, convergences, outcomes of the searches, floats read past the end, bounds | `LeastEfChosenHolds`: `K <= EfUpper` |

**ParallelFor.** The property that no id runs twice is not inductive: it needs that
the counter is ahead of every claimed id (`ClaimInv`), that ids ahead of the
counter are fresh (`FreshInv`), and that the counter cannot wrap (`CounterInv`:
it overshoots the end by at most one per worker that has left). `CoverInv` says
that, until an exception, an id behind the counter has been run or is claimed,
which gives completeness. `NothingSwallowed` needs that an exception on its way to
the catch block, or recorded by it, is never forgotten (`Thrown` is stable) and that
the loop returns only when every worker has left.

**VisitedListPool.** `VisitedExact` needs that no mark is ahead of the tag of its
list, so that advancing the tag makes all marks old, and that a freshly
created list, whose memory may hold anything, has the largest tag, so that its
first reset clears it. `Bounded` needs an exact count of lists: free, held or lost.

**LabelSlots.** `IInv` says for each step of each thread what it knows: which
mutex it holds (`CallInv`), what its slot is to its label (`SlotInv`) and that a
replacing thread's label is absent (`FreshInv`); and for the table that the
label in a slot leads back to the slot unless a thread is between claiming and
labelling, or relabelling and rebinding (`LookupInv`), that vacant slots are
deleted, labelled and nobody's (`VacantInv`), that no two threads share a slot
(`DistinctInv`), that a vector is torn only while it is written (`DataInv`), and
the exact count (`CountInv`). The argument is organised by interference: a step
changes only slot s, the label x of its thread and what led to s (`Effect`);
lemma `OthersKeep` shows once that such a step cannot disturb another thread,
`SharedKept` that the table stays consistent; each action then only has to
establish its effect and its own thread's knowledge. The crux is that a
deleted slot may be taken by a thread that does not hold the mutex of the slot's
label: this is harmless because of `FreshInv` and `VacantInv`, and fails when
callers ask for replacement with a label that is in the index. The non-negativity of `num_deleted_` and
`DeletedForcesCheck` need a cardinality argument (`MarkingFits`: threads that have
marked and not counted have marked different slots).

That `LabelSlots` implements `LabelStore` rests on a second invariant, of the history
(`Hist`): what an operation found when it began is tied to what its slot holds now,
so that `Element` of the label stays as it was at the call until the operation ends.
A step shows outside only what belongs to the labels its thread works on
(`Touches`, `Elsewhere`); nobody works on the label that `Rebind` forgets
(`NobodyLoses`); and at the end the slot holds what the one atomic step of the
store would leave, and the result is the one it would return (`Outcome`).

**BruteForce.** The dictionary and the labels of the used slots are inverses of
each other (`Inverses`); the abstract map is then the dictionary followed by the
array (`SeenByDict`), and each operation maps to one step of `PointMap`.
`SearchExact` is about a fold over the slots. The fold is a function on sets of positions,
which is shown to exist and to be unique (`ScansExist`, `ScansAgree`); after i slots
it holds the nearest of those allowed among them (`Kept`): all of these while i is below k, then
never fewer than there were among the first k slots, and never more than k. A non-empty heap has a top,
and adding a slot and popping the farthest keeps that (`KeepsScanning`); since the labels of
the slots differ, so do the results.

**BestFirstSearch.** The heap is trimmed at each admission, once more when `ef` is
chosen, and again by the caller, yet the property compares it with everything
seen. Four lemmas on `Nearest` carry this: trimming twice is trimming to the
smaller size (`TrimTwice`), an element admitted to a trimmed heap finds what an
untrimmed one would have kept (`AdmitNew`), an element farther than `ef` results
changes nothing (`RefuseFar`), and what is left is closed towards the query
(`NearestClosed`). The invariant adds that `ef` is unlimited while statistics
are collected (`CollectInv`), that only visited elements were seen (`SeenInv`), and
that the bound is no nearer than any result (`BoundInv`).

`LocallyBest` and `EnoughResults` need a second invariant (`JInv`): a result that is
no candidate any more has been expanded, whatever was trimmed from the heap
meanwhile; while there are fewer results than `ef`, nothing was refused, so
every visited element has been, or will be, expanded; and an element that was
visited and never hidden was seen.

**GraphBuild.** None of the properties is inductive: that no list is read that does
not exist depends on what each thread knows at each of its steps, and the
entry point and the top level are read at different moments. `IInv` joins four parts. *Owns* and
*Locks*: which thread has which element under insertion, and that exactly that
thread holds its link lock. *PlaceInv*: what a thread knows at its step: that the
entry point it copied was complete and high enough for the level it copied, that the object it
stands on has the level it works on, that its candidates do, and that a
result not yet settled is still a candidate, so that a finished search returns only elements
that were visited under their lock and are complete at that level. *FreshInv*:
the lists of an element are blank until its insertion links them, level by level,
so that the code's checks for a blank list pass. *EntryInv* and *Rises*: the
entry point is complete and on top, `global` is kept only by an insertion that
rises above it, and nothing is complete only during the first insertion.
The argument is by interference, as for the element table: `OthersKeep` shows
what a step must leave alone so that other threads' knowledge survives, `LocalStep`
deals with the steps that change only the thread's own variables and `Frame` with
those that change no list; each action then proves its own part. Lemmas about bounded sets
carry the lengths: a finite set without ties has a closest and a farthest element (strict
inclusion of finite sets is well-founded), the m nearest are at most m (`NearestBounded`),
so is what the heuristic keeps (`HeuristicBounded`), and adding one to a list
that is not full stays in bounds (`AddOne`). `SelectionNotEmpty` needs that the set
the heuristic keeps exists, for a set of any size: otherwise there is a smallest
set without one, and the set without its farthest element has one, which is
extended. It contains the closest element, so it is not empty if the candidates are not.
A search has a result unless all it has visited is deleted (`SearchInv`), and then
an insertion still has `enterpoint_copy`, if that is deleted, and an update writes
nothing. So the selection can be empty only as `SelectionFails` says (`FoundNone`): at the highest level
an insertion links at, when the descent ended at an element other than `enterpoint_copy`,
everything in reach of it there is deleted, and `enterpoint_copy` is not. On one level there is no
descent (`OneLevel`), and without deletions the element the search began at is a result. With
deletions on several levels it depends on what pruning leaves connected, which the code
does not guarantee for every size; there the property is checked only.

Four properties rest on invariants of their own, each on top of `IInv`.

*Integrity* (`OnceInv`): that lists fit, with their repeated entries, and lead to existing elements of
the level, is a part of `IInv` (`Tidy`); all that is appended goes to a list with room, and what is written
anew is no longer than the list may be. That none repeats an entry before the first update needs
more, as nothing looks (`NoneTwice`): no list leads to an element at a level where it has yet to link
itself, and an element links back to each neighbour once (`LinksOnce`).

*NoDeadEnd* (`FullInv`): when an insertion has linked its element at a level, the element's list
there is not empty, nor is that of any complete element of the level but those it
has still to link back to (`FilledAt`); so, between insertions, elements that share a level have
neighbours (`Paired`). Pruning keeps this since the heuristic keeps something of what is not empty.
Updates keep it because of `HopInv`: what `Relink` chooses from contains the updated element,
which is not one of those it relinks; and a repair that finds nothing writes nothing. If an
insertion were to run into the undefined case of `SelectionNotEmpty`, its thread would never be idle again.

*Connected* (`ConnInv`): without updates and below the size at which lists of level 0 are pruned, a
link is answered or an insertion is about to answer it (`OneSided`, `Answered`), an insertion links to
complete elements only (`Complete`), and a set of complete elements that no link leaves
is all of them (`Whole`). Elements inserted at the same time do not find each other; each is joined
to the rest, and answered, before it is complete. `Reach` is a recursive function
of the number of steps: that it exists, and that as many steps as there are elements reach
everything (`WalkExists`, `ReachClosed`), is shown by induction over numbers. The library offers it only as a
theorem with an operator parameter; `ByNumbers` states it with a set instead, from
the least number of a set (`LeastNumber`).

*NoCircularWait* (`WaitInv`): an insertion keeps its element's link lock to its end, an
update keeps none, so only elements under insertion can be waited for. A list of level l leads to such an element only if
it has been linked at l (`ListsSeen`), and so does what a thread on level l has come to
(`PathInv`). The insertion waited for is then linking at l, where it meets
complete elements only and waits for nobody, or is below l (`WaitsForLinked`). Of a set of threads that wait for each other take
one on the lowest level: it waits for a thread on a lower one, which cannot be. Nobody
who keeps `global` waits for it.

All four look at a step only by what it does to the lists: nothing (`Quiet`), linking an
element to others (`Joins`), linking back (`Adds`), overwriting a list
(`Replaces`), or completing an insertion (`Completes`); `Kinds` shows once which actions do what.

**IndexSession.** The table is its own strengthening once the file is known to
hold a consistent image too: a load makes the image the table. The crux of `Implements`
is that a prefix of a file is never accepted and the whole always is (the end of
the last element is the length of the file, and positions increase strictly), so that `Load` maps to
loading the saved map, `LoadRefused` to a refusal with no saved map, and the
last `Write` to the completion of the save. `Fresh` needs that every label in the index has been given
out, so that it is below `cur_l` or among those of the call under way (`LabelsInv`), whichever of them
replacements have displaced; and that an image of an index from which none is missing has all its labels below its
number of elements, from which a load or a copy counts on.

**EfCalibration.** `LeastEfChosen` is about all searches ever made for a group, but the
code keeps a list of pairs and drops some of them. The invariant (`Traced`) says
which: only the first and the last pair of a list can reach the recall, and a pair that was dropped did not, since ef is raised only while the
recall is not reached and the pairs of a plateau below it are short of it too. The
averages are sums over finite sets, defined by recursive functions; what
they are bounded by is shown by induction over subsets, which the library offers
only as a theorem with an operator parameter. The lemma `BySubsets` states it with
a set instead, from the well-foundedness of strict inclusion. It also gives that rounded quotients are between
the least and greatest value averaged (`MeanWithin`, `InterpolatedWithin`). `FilledFromGroups`
needs that a longest run of scores exists (`BlockExists`), and the lookups
that the centres of consecutive non-empty buckets enclose a convergence (`BracketEncloses`).

**Progress.** Fairness is out of the prover's reach, but not what liveness rests on besides:
that the work is bounded. The `ProgressHolds` theorems give a natural number, `Left`, that
every step lowers, and that the steps of others do not raise.

* `ParallelFor`: an id ahead of the counter is three steps away (claim, call, catch), each
  worker has to leave, and then comes the join. An exception, which moves the counter
  to the end, only shortens this. Needs `NoWrap`: a counter that wraps starts again.
* `BestFirstSearch`: an element is visited once and expanded at most once, and a list read is
  finite. `Open` counts the elements not visited and the candidates. Marks changed by
  other threads leave `Left` as it is.
* `EfCalibration`: a round of `Raise` need not raise ef (with k = 1 the step may be 0);
  it ends because a group stays only while its recall grows and is below the target
  (`Gap`). The two recalls it begins with may be junk; those of the rounds are not.
* `GraphBuild`: an operation passes through stages; within a descent the object comes
  nearer to the element with every pass, though the lists may change between passes; within a
  search elements are visited once. Vectors move only while nobody works, so distances stay.
  Other threads can make an operation wait, but cannot give it more to do. `SomeoneProceeds`
  adds that not all can wait: locks are held only by insertions under way, of which
  `NoCircularWait` finds one that waits for nobody.

**Only model-checked.** Liveness itself (`Finishes`, `ExceptionReported`,
`OperationsEnd`, `Terminates`, `CalibrationEnds`): that a step that can be taken is taken is
fairness, and that one can be taken is `ENABLED`; both are out of the prover's
reach. Of `GraphBuild`, `SelectionNotEmpty` with deletions on several levels.

## 5. What the models assume and leave out

* **Callers of the element table** keep to what the code demands (comment at
  `hnswalg.h:997`, throws at 906-912): with replacement enabled, no operation on
  a deleted element but its replacement. They also ask for replacement only with labels that are not
  in the index (`AnyReplace = FALSE`): that is this project's restriction, which
  the code neither states nor checks, and without which the table goes wrong (section 6). Both are `Permitted`.
* **Brute force**: an operation is one step. `BFIndex` keeps the interpreter
  lock. `compute_ground_truth` adds from several threads, but each a new label of
  its own, into a slot claimed under `index_lock`, and searches only after the
  adds have been joined: the array is the one adds in the order of the claims
  leave. Overlapping removals and searches are not modelled. `removePoint` reads the dictionary entry through an
  iterator it has just erased; the model takes the value the freed node still holds.
* **Distances** are distances on a line with all distances from one element
  different (`DistanceAssumption`), so queues can be sets. Ties are covered in `BruteForce`.
* **Deletions during an insertion or update** are left out of `GraphBuild`: marks
  change in quiet states. So are vectors that move under another operation: an update begins to move one
  only while no other thread works, and insertions may begin after it. So `SelectionNotEmpty` says nothing
  of a mark set between the read of `epDeleted` and a search. The hazards are listed.
  `updateNeighborProbability` is 1, the value both callers pass.
* **Data races** on 1-byte marks and on the entry point are modelled as reads of
  the current value; the vector's copy has a torn state in between.
* **Link locks**: a visit of another element's list under its link lock is one
  step, since nothing else is waited for inside it.
* **Searches** run on a graph at rest, from any element as the entry point. That
  the descent of the upper levels and a search among insertions end there is not modelled:
  no caller in the repository searches while another thread inserts.
* **Calibration**: the mode that buckets by score (`n_convergence_buckets = 0`),
  the filling methods 0, 1 and 3 (compiled out), `build_links` (needed only by
  tables with holes), the weighted average ef, updates and export are left
  out. With more buckets than queries the first buckets are empty, and a bucket
  without a group of `min_queries_per_score` gives ef 0 for every score; both are in the
  model. With k = 1 the ef of a group is never raised (half of k is 0 and the first slope
  is 0), and 1.5 k may exceed `ef_upper_bound`: `Efs` admits it. The sum of an ef and a step is
  not given a width: that it leaves the range of int is left out.
* **Sessions**: one call at a time on one index; labels within one `add_items`
  are distinct; replacement is asked for labels not in the index. A save cuts the
  old file first; a refused load leaves `appr_alg` dangling, which `DurableMap` allows as well and after which the
  model has only the end of the process: that no call follows is not checked. A failed `add_items` does not advance `cur_l`. An empty
  index that was created with capacity 0, or loaded with `max_elements = 0`, has no room.
  `ep_added`, `ef` and the random seeds are not modelled. A file is only ever cut
  short, never changed in the middle.
* Floating point, SIMD kernels, logging, timing and metrics are left out.

### Not modelled

* `MultiVectorSearchStopCondition`: only an example uses it. A next step of the plan.
* `ApproximatedScoreCalculator`: floating-point statistics of a vector, without
  state. Its score is an input of `EfCalibration` and any choice of `ef` in `BestFirstSearch`.
* `serialize`, `deserialize` and the incremental updates of `EfAdapter`, and
  `Sketch::build_links`.
* Metric spaces and SIMD dispatch: floating-point kernels, no state.
* Experiment drivers, examples, scripts: input and output around the library.
* `LazyIndex.py`: a wrapper of three parameters.
* DARTH and faiss: a vendored third-party benchmark. It is by far the largest part of the
  repository's lines.

## 6. Disagreements found

The first four are runs with `expect: violation`; the counterexamples are TLC's.

1. **`brute_force_last`** (`bruteforce.h:99`). Removing the element of the last
   slot enters its label again; adding it later overwrites another element.
2. **`graph_build_inbound`** (`hnswalg.h:1072`, against the assertion at 2270). An
   update chooses a neighbour's new list without its lock and writes it later; an
   insertion that has linked its element into that list in between loses the link, and
   no other need lead to the element.
3. **`ef_calibration_groups`** (`shiro_ef.h:1073`, against `src/README.md:164-166`).
   Queries without a hit are left out of the recalls, which are then indexed by the
   query's position: each such query shifts the recalls of all later ones, and the
   last positions are read past the end of the vector. The properties of
   `ef_calibration` hold in spite of it, for any such values.

4. **`label_slots_update_in_place`** (`hnswalg.h:987`, against the comment at 968, "Updates
   the point if it is already in the index"). With `replace_deleted` and a vacant slot
   the label is not looked up: the vacant slot takes it, and its old element stays live under the
   same label, where no operation finds it. The run needs one thread: add a, add b, delete b,
   add a with `replace_deleted`. Everything proved of the element table excludes such calls.

Met while modelling, and described by the hazards, without a run of their own:

* `shiro_ef.h:190`: the catch block sets `current = end`, with a comment that this
  works even for the largest `size_t`. Only the first later `fetch_add` returns
  `end`; the counter wraps and the next worker is handed id 0. The proofs of
  `ParallelFor` assume `NoWrap`.
* `hnswalg.h:591`: an insertion appends its element to a neighbour's list without looking
  whether it is there, although an update that runs meanwhile may have written it there. The list
  then names it twice, which `checkIntegrity` asserts against (2264) and which
  takes the room of another link. `Integrity` therefore excludes repeated entries only before the first update.
* `bindings.cpp:302`: `cur_l` is not advanced when a row throws, so that the next default labels are in use
  by the rows that were added. A load and a copy count from the number of elements (237, 506), which after
  a replacement is less than the labels given out. `DefaultLabelsFresh` excludes both.
* `hnswalg.h:620`: two simultaneous insertions next to one full list can leave the
  first element without an inbound link.
* `bruteforce.h:119`: with a filter that rejects some of the first k slots, later
  allowed elements are dropped although fewer than k were found. `SearchExact` promises no more.
* `bruteforce.h:97`: `removePoint` reads the slot through the iterator it has just erased.
* `bruteforce.h:153`: `loadIndex` leaves the dictionary empty.

## 7. The plan

Done: `ParallelFor`, `LabelSlots`/`LabelStore`, `VisitedListPool`,
`BruteForce`/`PointMap`, `BestFirstSearch`, `GraphBuild` (insertion, update and repair),
`EfCalibration` with the lookups of the sketch, `IndexSession`/`DurableMap`, with
their runs, the three refinements, proofs for all safety properties that hold but,
with deletions on several levels, `SelectionNotEmpty`, and proofs that the work of the four components
with liveness properties is bounded.

Left, most important first:

1. Deletions, and vectors that move, in the middle of an insertion.
2. The multi-vector stop condition, whose counters of documents must agree with
   the queue, driven by the search of `BestFirstSearch`.
3. `serialize` and the incremental updates of `EfAdapter`.
