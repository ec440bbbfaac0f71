# A TLA+ model of NFQL

NFQL (`src/README.md`) answers queries over traces of network flows. A query, a
JSON file, describes a pipeline; the program, a C engine of some 8,000 lines,
runs it once over a trace and prints or files the result. These modules model
the engine's control: which records, groups and tuples it visits and keeps, in
what order, in which thread, and which of its objects are alive meanwhile; how it
computes comparisons and aggregates in words of limited width; and how the
records that libfixbuf writes into memory are laid out and shared. The text of
queries and traces is abstracted away.

Paths are those of the repository; `merger.c:113` is `src/src/merger.c`, line
113. `PROJECT.json` says for every definition which lines it stands for, and
lists the runs, the hazards, the findings and the theorems.

## 1. Inventory

One process. `main` (f.c) runs the stages of the pipeline one after the other;
between the reading of the trace and the merger it starts one thread for every
branch of the query and waits for all of them.

    query -> parse_json_query -> prepare_flowquery ---------------------.
    trace -> reader -> read_trace (splitter + filters)                  | rules
                          | filtered recordset of each branch           v
              thread b:   grouper -> aggregations -> groupfilter        (each stage)
                          | filtered groups of each branch   (join)
             main:        merger -> matched tuples -> ungrouper -> streams

| Component | State | Operations | Interacts through |
|---|---|---|---|
| Command line, process control (f.c, base.c, errorhandlers.c) | options, verbosity, output directory | parse, `errExit` (aborts), `exitOn` | globals read by all |
| Query parser (f.c `parse_json_query`) | the parsed query; stage flags common to all branches | one pass per branch, then merger and ungrouper | global flags `*_enabled` |
| Query preparation (f.c `prepare_flowquery`) | rules of every stage and branch | allocate, resolve names and branch ids | `struct flowquery` |
| Splitter and filter (f.c `read_trace`) | the copies of records, the filtered recordsets | read, filter, save once, share, end with NULL | pointers into the trace data |
| Branch threads (f.c `run_branch_async`, branch.c) | one `struct branch` each | grouper, groupfilter, freeing of their rules | exit status, `pthread_join` |
| Grouper (grouper.c, `qsort_r`) | the recordset sorted in place, groups | sort, scan, extend, save, per clause | `grouper_result` |
| Aggregations (grouper.c, generated functions) | one aggregation record per group | min, max, sum, ... | read by groupfilter and merger |
| Group filter (groupfilter.c) | filtered groups | test clauses, keep | pointers to groups |
| Merger (merger.c, the iterator of utils.c) | position of the iterator, matched tuples | next tuple, test clauses, store | pointers to groups of all branches |
| Ungrouper (ungrouper.c) | streams | open, append members, close | pointers to records |
| Generated comparators (scripts/generate-functions.py) | none | compare two fields with a delta, in 8 to 64 bits | function pointers in terms |
| IPFIX input/output (io-ipfix.c, libfixbuf) | reader's buffer, template, a mutex around a shared reference count | read, open, write, close | threads write streams concurrently |
| Flow-tools input/output (io-ft.c) | - | thin wrapper | same interface |
| Printing (echo.c, utils.c) | none | reads results by verbosity | results that must be alive |
| Constants, query scripts, tests, benchmarks | - | generated or external | - |

Behaviours that are hard, and what is right for each component:

- **Sharing by pointer.** Groups, tuples and streams point to records and groups
  owned by earlier stages. Every object must outlive its last reader and be
  freed, in every order of threads and for every set of stages.
- **Stage flags.** They are global and set branch by branch; each stage takes
  its predecessor's result for granted. Right: a query either runs or is one of
  those the engine cannot take.
- **The reader's buffer** is overwritten by each read; a branch must hold a
  copy, one copy per record however many branches accept it.
- **The scan of the grouper** looks one record ahead, ends at a sentinel or at
  the last item and starts again for every clause. Right: each clause
  partitions the records; equal records share a group because of the sort.
- **The odometer of the merger**: 1-based, one before its first position, wraps
  around. Right: every tuple once, none twice, an end.
- **One flag per tuple** in the merger's clauses, one counter for terms and the
  test behind them in the group filter.
- **Width of integers**: counters of tuples (`unsigned int`), deltas
  (`uint64_t`), aggregates.
- **Failing calls** abort the process, but for one `realloc` that is not checked.
- **The shared template** of fixbuf counts the sessions that use it without a lock
  of its own; the threads open and close streams inside streams. Right: the
  mutex covers every count, the template lives as long as a session, no path
  leaves the mutex locked.
- **Two computations of one layout.** The places of the fields of a record are
  computed while the query is parsed, and described to fixbuf by another walk.
  Right: both give the same places; elements that have no size are not used.

Nothing persists and nothing is sent, so that crash recovery, lost messages and
retries do not arise.

## 2. The modules

| Module | Models | Uses |
|---|---|---|
| `TupleJoin` | abstract: what the merger promises | |
| `Merger` | `merger`, `iter_init`, `iter_next` | implements `TupleJoin` |
| `MergerProofs` | theorems about `Merger` | |
| `Splitter` | abstract: what reading the trace promises | |
| `ReadTrace` | `read_trace` | implements `Splitter` |
| `ReadTraceProofs` | theorems about `ReadTrace`; that it implements `Splitter` | |
| `Partition` | abstract: what grouping promises | |
| `Grouper` | `grouper`, `get_grouper_intermediates`, `qsort_comp`, `grouper_aggregations` | implements `Partition`, uses `Aggregates` |
| `GrouperProofs` | theorems about `Grouper` | those of `AggregatesProofs` |
| `GroupFilter` | `groupfilter` in the threads of all branches | |
| `Ungrouper` | `ungrouper` | |
| `Pipeline` | threads, join, merger and ungrouper | composes `GroupFilter`, `Merger`, `Ungrouper` |
| `PipelineProofs` | theorems about `Pipeline` | those of `MergerProofs` |
| `Engine` | `main`, `branch_start`, the life of all objects | |
| `EngineProofs` | theorems about `Engine` | |
| `Comparators` | the comparators of filter, grouper, group filter and merger, with their wrap around | |
| `Aggregates` | the functions for aggregates | `Comparators` |
| `AggregatesProofs` | theorems about `Comparators`, lemmas about `Aggregates` | |
| `FbTemplate` | the mutex and the counted references around the shared template | |
| `FileStreams` | the order in which all threads of a run open and close streams | extends `FbTemplate` |
| `FbTemplateProofs` | theorems about `FbTemplate` and `FileStreams` | |
| `IpfixTemplate` | the layout of a record and its description for fixbuf | |
| `IpfixTemplateProofs` | theorems about `IpfixTemplate` | |
| `MC*` | values of the constants for TLC | extend the module |

Variables keep the names of the code. Places that the code counts from 0 are
counted from 1, and the merger's group ids, which the code counts from 1, as
they are. Operators whose name continues that of another (`IsPivotOffByOne`
after `IsPivot`) are mutants: what the definition would be with a plausible bug.
They occur in no specification; each shows that a property can fail.

**Merger.** The state is the iterator (`tuple`, `index`), the loop over the
clauses (`k`, `clause`), and the results. `IterInit`/`IterInitFails` are
`iter_init`; `IterNext`/`IterStops` one call of `iter_next` and what the loop
does before the clauses; `TestClause`, `ClausesExhausted` and `AddTuple` the
body. A comparator is the set of pairs of groups it is true for. `index` counts
modulo `IndexRange`, as the `unsigned int` does modulo 2^32.

**ReadTrace.** `ReadRecord` overwrites `buffer` and resets the loop's locals;
`Reject` and `Accept` are one turn of the loop over the branches. Addresses
are numbers: 0 is NULL, -1 the reader's buffer, n the n-th copy. An allocation
may fail at any time (`OutOfMemory`), and the unchecked `realloc` loses the
array and goes on, as the code does; what a later `realloc(NULL)` brings back is
uninitialised (`Garbage`). `origin` is a history variable: the place in the trace
a copy was made from.

**Grouper.** `SortClause` leaves any permutation in the order of `qsort_comp`,
as `qsort_r` is not stable; `OpenGroup`, `AddMember`, `MismatchEndsGroup`,
`LastItemEndsGroup` and `EndClause` are the scan; `ClubAll` the path without
clauses, `NothingToGroup` the early return. The fields common to a group
(`TermFields`, `CommonFields`) are saved as the code saves them, from its first
member, and the aggregates after them (`Completed`): an aggregate is written to
the place of its field in the record of the group, whatever was there before.
`ValueOrders` are the orders `qsort` may bring the values of a field into for
`median` and `union`, which compare 32 of the 64 bits.

**Comparators, Aggregates.** Operators, without state. A word has `WordBits` bits (64
in the code) and half a word `HalfBits` (32); `WordRange` and `HalfRange` are the powers
of two (`TwoTo`), `Bits` the bits that are set in a word and `Number` the word with some
bits. All comparators but those of the merger are `Compare`: the generated functions differ in the width of the fields, which is
converted before anything else is done, and in whether they have a delta, which
can then be 0. The merger's treat 0 as a field that the group does not have, and
its Allen relations look at one number for each of two intervals. `Aggregate`
gives what each of the thirteen functions leaves in `aggr->values`, the ones that
are not what their name says included: `min` and `max` compare every value with
the first one in a way that keeps the first; `prod` and `and` start at 0.
`MCGrouper`, `MCMerger`, `MCPipeline` and `MCReadTrace` build the terms of their
queries from these operators.

**FbTemplate.** Every thread runs a program: a sequence of openings and closings of
streams; main also spawns, joins and destroys the mutex. Opening a stream takes the
mutex (`Lock`), adds the template to the session twice, for internal and external use, and
unlocks. The count is not protected by fixbuf, so that each addition is two steps,
`ReadCount` and `AddReference`, between which any other thread may move.
`fbSessionAddTemplate` may fail (`AddFails`), which ends the process. Removing the last
reference frees the template (`freed`).
`FileStreams` gives the programs of a whole run in the order of the source: which streams
there are at each verbosity, those that lie inside others (the files of the members of groups
inside the stream of groups), and which branches return before opening any.

**IpfixTemplate.** `Register`, `RegisterAgain` and `RegisterUnknown` are
`ipfix_templ_ie_register` for the elements every query gets and those it names;
`DescribeElement` and `DescribeEnd` the loop of `ipfix_get_fb_info_elem_spec`. Both
functions have an assertion, which stops the process: an offset is a multiple of the
size (`io-ipfix.c:249`, `OffsetAssertionFails`), and the next element lies ahead of the
walk (`io-ipfix.c:774`, `PaddingAssertionFails`). Offsets are of type `size_t`, modulo
`SizeRange`; the size of a type without one is -1, converted to `size_t`. Such an
element is put at the end of the address space and the next offset wraps around to
2^64 - 2, which rounding up to a multiple of 6 makes 2: the first assertion fails
then. If no such element follows, the second one does.

**GroupFilter, Ungrouper, Pipeline.** The group filters of the branches
interleave; main waits for all threads (`Join`), then takes the steps of `Merger`
and of `Ungrouper`. The three stages name a group by its place in the groupset,
by its place in the filtered groupset and by its address; the substitutions of
the instances (`OnFiltered`, `MatchedTuple`) are the subscripts and dereferences
the code makes in between. In these modules the output files are written.

**Engine.** What the stages compute is left out; what remains is, for every part
of `main` and of a thread, the objects it reads, allocates and frees, under the
flags. Reading an object that is not alive is a crash (`Main`, `Thread`). An object
stands for everything that lives and dies with it (a set of clauses with its
terms, a result with its array). `earlier_sorted` stands for the arrays of sorted
records a later grouper clause replaces. `Abort` is `errExit` or `exitOn`, from
anyone, at any time. `ParseBranch` crashes where json-c is asked for the length
of an array the branch does not have.

## 3. What is checked

| Run | Bounds | Shows |
|---|---|---|
| `Merger` | 3 branches, 0 to 3 groups each, queries of 0 to 3 clauses, an index that wraps at 6 | the iterator stays in range, visits every tuple once in order, the result is exact, it ends, and the whole implements `TupleJoin` |
| `MergerClauses` | same queries, 2 branches | *violated*: clauses are not ORed |
| `ReadTrace` | 2 branches, traces of up to 4 records of 3 kinds, 4 filters each, failing allocations | copies, pointers, sentinel, streams and, but for what a failed `realloc` loses, trace data are exact at every moment; implements `Splitter`; ends |
| `Grouper` | up to 4 records, 6 sets of clauses, every order of ties, all 13 aggregates | each clause partitions the records; equality gives classes, a relative delta chains but for the ends of the range; time bounds are exact, and aggregates what the functions promise, but `min`, `max`, `prod` and `and` only what the code leaves (section 2); implements `Partition` |
| `GrouperCommon` | 2 records | *violated*: a group has fields its members do not share |
| `GrouperAggr` | 2 records | *violated*: an aggregate takes the place of a common field |
| `GrouperFiles` | 2 records | *violated*: the file of a group lacks a member |
| `Pipeline` | 2 branches, up to 3 groups each, 4 group filters per branch, 3 mergers, all interleavings | one stream for every tuple the query asks for, in order and with all members; files agree; ends |
| `Engine` | 2 branches, every combination of stages, verbosity 0 to 2, with and without files, all interleavings | exactly the supported queries get through; all but `earlier_sorted` is freed; a branch belongs to its thread; a query is answered, or the process aborted |
| `EngineStages` | 1 branch | *violated*: a stage cannot be left out |
| `FbTemplate` | main and 3 branch threads, 2 clauses with 2 groups each, 2 tuples, verbosity 0 to 2, every set of branches with records | no reference is lost; the template lives as long as a session and ends with the last; no thread waits forever |
| `IpfixTemplate` | the 13 elements of every query and up to 3 more of 9 kinds, in every order, also repeated | the places the engine reads at are those described to fixbuf; assertions stop exactly the templates with an element that has no size |

Why the bounds are enough to be interesting: three branches give the odometer a
branch that is neither first nor last, and three groups a middle position; the
index wraps within 27 tuples. Two branches of `ReadTrace` are one that saves and one
that reuses the copy, and four records are several rounds of the buffer. Four
records in `Grouper` give groups of one, at the start, in the middle and at the
end, and ties in the sort. With words of 6 bits and half words of 4 the values of
one field reach below the delta and to the end of the range, sums and squares wrap
around, and `compar` confuses two of the aggregated values. One clause has a delta
of almost the whole range: past half of it the wrapped bound of a comparison reaches
values again, which is why `NearStayTogether` excepts them. Three branch threads give
the mutex two waiting threads besides its holder, and two clauses of two groups
streams that are opened one after the other inside another one. The sizes 1, 2, 4, 6, 8, 16 and none
are all there are; three elements after the fixed ones give each size every remainder
of the offset before it. 4096 values of `size_t` are many more than any layout is
long, and like 2^64 an even power of two: modulo 6 both are 4, so that the offset of 6
bytes behind an element without a size is off as it is in the code (modulo 6, 2048 is
2, and it would not be). Two groups in `MCPipeline` have the same members, so that a mix-up of groups
and records would show. Two branches in `Engine` interleave in every way two
threads and `main` can, and differ in their stages in every way two can.

`CHECK_DEADLOCK FALSE` is set in the runs whose program ends; in `FbTemplate`, where
threads wait for each other, the end is a step of its own (`End`) and deadlock is
checked.

**Fairness.** `Merger`, `ReadTrace` and `Grouper` are sequential code of one
thread: weak fairness of the next step says that the thread goes on. `Pipeline`
and `Engine` have weak fairness for `main` and for each thread separately, which is
what the scheduler of the system gives to runnable threads; a thread blocked
in `pthread_join` is not enabled. `FbTemplate` has weak fairness for each thread as
well, and none for who gets the mutex: a thread that waits for it may be overtaken, but only
by threads whose programs end. Aborting is never fair: nothing has to fail.
`IpfixTemplate` is a single thread without liveness properties.

**The supported queries** (`Supported` in `Engine`) are those of which every branch
has at least the stages of its predecessor, whose stages are not preceded by a
missing one, and which have a filter when files are written at verbosity 1 and up.
`CrashesExactly` says that these never crash, and that no other query ends normally.
A query with an ungrouper and no merger is supported: it ends with no streams.

## 4. What is proved

Eight modules hold theorems. They are proved for all values of the constants that
satisfy the assumptions named in the modules (any number of branches, groups,
clauses, threads; any trace, comparators, table of sizes), what the runs check
on small ones.

- *Merger* (`MergerProofs`): `TypeOK`, `SubscriptsInRange`, `ExaminedInOrder`,
  `EveryTupleExamined`, `MatchedExactly`, `TotalCounts`, and that every step is a step of
  `TupleJoin` or a stutter (`MergerImplementsJoin`, the safety part of
  `ImplementsJoin`). The inductive invariant `MergerInv` says where the iterator
  stands (all tuples up to it have been examined, no others), what the flag says of
  the current tuple, and what has been stored. `EveryTupleExamined` is not
  inductive: between two tuples it says nothing. The heart is the lemma
  `Successor`: with everything on its right exhausted, the tuple that advances the
  pivot and wraps the rest is the immediate successor in the lexicographic order.
  It rests on the first branch in which two tuples differ, found by
  well-foundedness of the naturals. `TotalCounts` has an invariant of its own
  (`CountInv`): the counter is the number of tuples that have been examined, modulo
  its range; that these are all tuples, each one once, gives the rest.
- *ReadTrace* (`ReadTraceProofs`): `TypeOK`, `CopiesFaithful`, `SavedOnce`,
  `FilterExact`, `SentinelLast`. `ReadTraceInv` adds what the loop over the
  branches relies on: the buffer holds the current record, and `first_time` tells
  whether the last copy is one of it (`LoopInv`); without it, `target`, which a
  later branch reuses, could refer to any record. In the same module:
  `ImplementsSplitter` as a whole, since `Splitter`
  asks for no fairness; `StreamsAgree`, `NoOrphans` and `TraceDataExact`. Each has
  its own induction on top of `ReadTraceInv`: `StreamsInv` says it of the file as
  it grows, `HeldInv` says that every copy is held by a branch, also before the loop
  over the branches has ended.
- *Grouper* (`GrouperProofs`): `TypeOK`, `AggregatesExact`, `GroupedOnce`,
  `BoundsExact`, and that every step is a
  step of `Partition` or a stutter (`PartitionCorrect`, the safety part of
  `ImplementsPartition`). `GrouperInv` says which records the scan has taken at each
  of its places, that the sorted recordset is a permutation with a sentinel at its
  end, and that the group being extended is the last one. `GroupedOnce` alone is
  not inductive: that the next record is a new one follows from the permutation.
  Neither what the comparators return nor how ties are sorted is used for these.
  They are for `GroupsAreClasses` and `NearStayTogether`. The sort leaves the keys in
  order and the scan follows it (`OrderInv`). `ClassesInv` says of every group that its
  members are linked, each to the one before, and of every group that is closed that it
  is separate from all records that are not in it, also those the scan has not
  reached yet: the record that ended it is the nearest of them, and keys only grow from
  there on. What the comparators are on words is taken from `AggregatesProofs`. The
  attempt to prove `NearStayTogether` showed
  that it had been too strong: with a delta of half the range or more the bound
  wraps around so far that it reaches other records. The run now has such a clause.
  For `AggregatesExact` the invariant is `EvaluatedInv`: a closed group holds what the
  aggregation functions leave of its members in *some* order of ties, an open one has
  neither aggregates nor a record. It is inductive, which `AggregatesExact` is not: that
  says nothing of how the values came about. (TLC has checked `EvaluatedInv` on the run's
  states as well.) The rest is about the functions alone. The values of a field stand in
  a sequence, and the property speaks of a set of records; what links them is that the
  members are different records (`ValuesAre`, `TotalIs`, `MembersSize`). `TypeOK` takes
  `EvaluatedInv` and `VariablesOK`, the types of the rest: aggregates are words because
  every step of every function is one, and the record of a group keeps the widths of its
  fields because what is written to a place is cut to its width.
- *Pipeline* (`PipelineProofs`): `TypeOK`, `AnswerExact` and `FilesAgree`, for any number
  of branches and groups, any group filters and mergers, and every order of the threads.
  `PipelineInv` says what each group filter has kept of the groups it has come past
  (`FilterInv`); which stages have begun, so that what the merger joins does
  not change any more; and what the streams hold of the tuples. The merger's own
  invariant is not proved again: its steps in this composition are steps of the
  instance `MP` of `MergerProofs`, whose lemmas apply. `AnswerExact` then has the place of
  a tuple's stream: the number of tuples before it, in an order the merger has kept.
- *Engine* (`EngineProofs`): `TypeOK`, `CrashesExactly`, `FreesAll`, `BranchHandedOver`
  and `BranchOwned`, for any number of branches and any queries. `EngineInv` says for
  every object by the places of main and of the thread of its branch whether it is
  alive (`SharedInv`, `BranchInv`), what has been learnt of the flags by getting past
  a stage (`StagesInv`), and that the flags are the stages of the branch parsed last
  (`ParsedInv`). A step crashes exactly when the objects
  it reads are not the ones the invariant has there, which is the case when the query
  is not supported.
- *FbTemplate* (`FbTemplateProofs`): `TypeOK`, `CountExact`, and that the step that
  frees the template leaves no session with a reference (`FreedUnused`), for any
  threads and programs. `FbInv` adds that the count a thread has read is still the
  count while it holds the mutex (`ReadByHolder`); this is what the mutex is for.
  `TemplateLive` and `FreedWithLast` depend on the programs, and hold for those of
  `FileStreams` with any number of branches, clauses, groups and tuples. That is shown
  in two halves. `ProgramsOrdered`: main opens the reader first and closes it last,
  after joining the threads and before destroying the context, and every thread
  closes each stream it has opened. `LifeInv`, for programs in that order: whoever
  has opened a session has still to close it (`OwnedInv`), so that nothing but the
  reader's reference is left when main comes to close it, and until then that
  reference keeps the template alive (`ReaderInv`).
- *IpfixTemplate* (`IpfixTemplateProofs`): `TypeOK`, `LayoutSound`,
  `DescriptionAgrees`, `UnsizedNeverUsed`, for any table of sizes and any query whose
  layout fits in a `size_t`. `TemplateInv` relates the place of each registered
  element to that of the one before (`PlaceInv`, `NextInv`) and the second walk to
  the first (`WalkInv`). While every element has a size, rounding up does not wrap
  around and an offset is a multiple of its size (`OffsetSized`, `OffsetFails`); the
  first element without one is put at the end of the address space
  (`OffsetUnsized`), which the walk does not pass.
- *Comparators and aggregates* (`AggregatesProofs`), for every width: where no bound
  leaves the range a comparison up to a delta is what it says (`DeltaInRange`); a value
  closer than the delta to an end of the range equals nothing, not even itself
  (`DeltaBelowZero`, `DeltaBeyondRange`); which comparisons are opposites
  (`Opposites`); what the merger's equality is (`MergerEquality`); and that eight of
  the thirteen Allen relations hold of no two groups (`AllenContradictions`). The lemmas
  below them say what each aggregation function returns for any number of values: the
  sum modulo the word, the mean of a sum that fits, the bits of `or` and `xor`, the 0 of
  `prod` and `and`, the middle value and the set of values where `compar` can tell them
  apart, and of `stddev`, whose squares wrap around, that it is a word. All are loops
  over the values, which the modules write as folds; `FoldSteps` gives the values a
  fold goes through, and each function has an invariant of its loop over them.

What these proofs assume is named in the modules. `GrouperAssumption` has the number of
records below `WordRange`: it is kept in a `uint32_t` (`pipeline.h:167`) and `count` returns
it in a word.

Model-checked only: liveness (`Closes`, `Answers`, `Answered`, and the fairness part of
`ImplementsJoin` and `ImplementsPartition`), which the prover does not reach. Every
invariant and every action property of the runs that pass is proved.

The library's induction theorems take an operator as a parameter, which the provers
cannot instantiate. Where a proof needs induction (the records of a tuple in
`Unfolded`, the clauses of `ClausesProgram`, the values of a fold, the powers of two) it
takes the least number for which the statement fails, which well-foundedness of the
naturals gives (`LeastElement`), and refutes it. That the function exists by which
a fold or `TwoTo` is defined is shown in the same way (`SetRecursion`, `TwoToIs`).

## 5. Findings

1. `merger.c:113` (run `MergerClauses`): the flag of the clauses is set once per
   tuple. Once the first clause fails no other can make the tuple match, although
   `merger.c:128` says that clauses are ORed.
2. `grouper.c:716` (run `GrouperCommon`): the common fields of a group are taken from
   all grouper clauses and not from that of the group, so that they need not be
   common, as `grouper.c:711` takes for granted.
3. `grouper.c:103` (run `GrouperAggr`): an aggregate of a field that a filter or
   grouper term names takes the place of the common value, although the comment at
   `grouper.c:59-61` says that such a field is ignored.
4. `grouper.c:588` (run `GrouperFiles`): the file of a group lacks its first member,
   and all of them when there is no clause, although the stream is opened "for group
   members" (`grouper.c:441`).
5. `grouper.c:233` and the like (run `EngineStages`): a query that leaves out a stage
   in front of another one crashes, although `src/RELEASES.md:54-61` says stages can
   be disabled.

More peculiarities are part of the models, and of the properties as they are
stated, which tolerate them and do not show them: the `realloc` of the trace data is not checked (`f.c:1371`), so that the
places before a failure are lost (`TraceDataExact`); the sorted records of all
clauses but the last are never freed (`grouper.c:170`; `FreesAll` excepts
`earlier_sorted`); `min` and `max` give the value of some member and `prod` and `and`
give 0 (`generate-functions.py:330`; `AggregatesExact`); and an error may abort the
process at any moment, with files half written (`errorhandlers.c:92`), which `Answers`
counts as an end.

## 6. What is not modelled, and why

- Texts, usage, printing, the flow-tools wrapper, the tables of constants: no
  control of their own. `IpfixTemplate` takes the sizes of the types as a constant.
- The contents of JSON values and the resolution of names and offsets: data.
  `Term` in the modules is what comes out of them. Two hazards lie there that no
  property covers: ids of branches that do not exist are not refused (`f.c:1210`),
  and the second field of a grouper term is not looked up (`f.c:970`).
- The switches that assign a generated comparator or aggregate to a term: a table
  without control.
- The merger's `in`, which reads outside of its array, and the delta of a merger
  term, which is dropped (`f.c:1212`): no document says what they should do.
- What libfixbuf does with a record between the file and the buffer, and the
  formatting of records for the terminal.
- Query scripts, tests and benchmarks: outside of the engine.
- json-c, libfixbuf, flow-tools, pthreads: modelled from how the code uses them.
- The width of the number of matched tuples, a `uint32_t` (`pipeline.h:225`): it would
  take an array of 2^32 tuples to wrap it around, and no property turns on it. That of
  all tuples tested, which needs no memory, is modelled (`TotalCounts`).
- `malloc` failures other than in `ReadTrace`: all end in `errExit`, which is `Abort`
  in `Engine`.

## 7. Plan

Done, in this order because each stage's correctness is assumed by the next:
`TupleJoin`/`Merger`, `Splitter`/`ReadTrace`, `Partition`/`Grouper`, `Engine`,
`GroupFilter`/`Ungrouper`/`Pipeline`, `FbTemplate`/`FileStreams`, `IpfixTemplate`,
`Comparators`, `Aggregates`; of all of them the properties are proved, but for liveness.

To come: the parser's acceptance rules in more detail in `Engine`.
