------------------------------- MODULE Engine -------------------------------
(***************************************************************************)
(* main(...) of src/src/f.c and branch_start(...) of src/src/branch.c: the *)
(* stages of the engine, the threads that run a branch each, and the life  *)
(* of the objects the stages hand to each other.                           *)
(*                                                                         *)
(* What a stage computes is abstracted away; what remains is which objects *)
(* it reads, allocates and frees, and the flags, common to all branches,   *)
(* that decide whether it runs. Reading an object that is not there, or no *)
(* longer there, crashes the process. An object stands for everything that *)
(* is allocated and freed together with it.                                *)
(***************************************************************************)
EXTENDS Naturals

CONSTANTS
  NumBranches,  \* the length of "branchset"
  Queries,      \* the queries tried
  Verbosity,    \* the verbosity levels tried, 0 when none is given
  FilesAsked    \* whether --dirpath is given: a set of Booleans

Branches == 1 .. NumBranches
Stages   == {"filter", "grouper", "aggregation", "groupfilter"}

\* The stages a query has, branch by branch, and for all branches together.
Query == [branchset : [Branches -> SUBSET Stages],
          merger : BOOLEAN, ungrouper : BOOLEAN]

ASSUME EngineAssumption ==
  /\ NumBranches \in Nat \ {0}
  /\ Queries \subseteq Query
  /\ Verbosity \subseteq 0 .. 3
  /\ FilesAsked \subseteq BOOLEAN
  /\ \A q \in Queries, b \in Branches :
       "aggregation" \in q.branchset[b] => "grouper" \in q.branchset[b]

VARIABLES
  query,    \* what parse_json_query finds in the query file
  verbose,  \* the verbosity level
  file,     \* whether the results go to files
  enabled,  \* the stages whose flag is set
  live,     \* the objects that are allocated
  i,        \* the loop counter of main
  thread,   \* where the thread of each branch is
  pc        \* where main is, or how the process ended

options == <<query, verbose, file>>
vars    == <<options, enabled, live, i, thread, pc>>

-----------------------------------------------------------------------------
(* Objects: a kind and the branch they belong to, 0 for none. The array in *)
(* sorted_recordset is allocated anew for every grouper clause; the kind   *)
(* earlier_sorted stands for those a later clause has replaced.            *)

BranchKinds ==
  {"filter_clauseset", "grouper_clauseset", "aggr_clause_termset",
   "groupfilter_clauseset", "filter_result", "sorted_recordset",
   "earlier_sorted", "grouper_result", "aggr_result", "gfilter_result"}
SharedKinds ==
  {"params", "json", "io", "fquery", "recordset", "threadset",
   "merger_clauseset", "merger_result", "ungrouper_result"}

Of(b, kinds)   == kinds \X {b}
All(kinds)     == kinds \X Branches
Shared(kinds)  == kinds \X {0}
Objects        == All(BranchKinds) \cup Shared(SharedKinds)

\* The objects of a stage, none when its flag is not set.
If(flag, objects) == IF flag THEN objects ELSE {}
On(stage, objects) == If(stage \in enabled, objects)

Ended == pc \in {"exited", "aborted", "crashed"}

\* One part of main: it reads what it needs, allocates, and frees.
Main(at, to, uses, gets, frees) ==
  /\ pc = at
  /\ IF uses \subseteq live
     THEN pc' = to /\ live' = (live \cup gets) \ frees
     ELSE pc' = "crashed" /\ UNCHANGED live

\* One part of the thread of the branch b.
Thread(b, at, to, uses, gets, frees) ==
  /\ ~ Ended
  /\ thread[b] = at
  /\ IF uses \subseteq live
     THEN /\ thread' = [thread EXCEPT ![b] = to]
          /\ live' = (live \cup gets) \ frees
          /\ UNCHANGED pc
     ELSE pc' = "crashed" /\ UNCHANGED <<live, thread>>
  /\ UNCHANGED <<options, enabled, i>>

-----------------------------------------------------------------------------
(* main(...), up to the threads                                            *)

Init ==
  /\ query \in Queries
  /\ verbose \in Verbosity
  /\ file \in FilesAsked
  /\ enabled = {}
  /\ live = Shared({"params", "json"})
  /\ i = 1
  /\ thread = [b \in Branches |-> "none"]
  /\ pc = "parse"

\* parse_json_query looks at the next branch. A stage that some branch had so
\* far is parsed whether or not this one has it: json-c is asked for the
\* length of an array that is not there.
ParseBranch ==
  /\ pc = "parse"
  /\ i <= NumBranches
  /\ enabled' = enabled \cup query.branchset[i]
  /\ IF enabled' = query.branchset[i]
     THEN i' = i + 1 /\ UNCHANGED pc
     ELSE pc' = "crashed" /\ UNCHANGED i
  /\ UNCHANGED <<options, live, thread>>

\* The stages behind the branches; then main opens the trace.
ParseRest ==
  /\ pc = "parse"
  /\ i > NumBranches
  /\ enabled' = enabled \cup If(query.merger, {"merger"})
                        \cup If(query.ungrouper, {"ungrouper"})
  /\ live' = live \cup Shared({"io"})
  /\ pc' = "prepare"
  /\ UNCHANGED <<options, i, thread>>

(* The rules of a stage in the branches bs, none when its flag is not set. *)

FilterRules(bs)      == On("filter", {"filter_clauseset"} \X bs)
GroupRules(bs)       == On("grouper", {"grouper_clauseset"} \X bs)
AggregationRules(bs) == On("aggregation", {"aggr_clause_termset"} \X bs)
GroupFilterRules(bs) == On("groupfilter", {"groupfilter_clauseset"} \X bs)
MergerRules          == On("merger", Shared({"merger_clauseset"}))

\* prepare_flowquery; main frees the parsed query.
Prepare ==
  /\ Main("prepare", "read", Shared({"json", "io"}),
          Shared({"fquery"}) \cup FilterRules(Branches)
            \cup GroupRules(Branches) \cup AggregationRules(Branches)
            \cup GroupFilterRules(Branches) \cup MergerRules,
          Shared({"json"}))
  /\ UNCHANGED <<options, enabled, i, thread>>

\* read_trace. The streams of the filter are opened without asking whether
\* there is a filter.
ReadTrace ==
  /\ Main("read", "spawn",
          Shared({"fquery", "io"})
            \cup FilterRules(Branches)
            \cup If(verbose > 0 /\ file /\ "filter" \notin enabled,
                    All({"filter_result"})),
          Shared({"recordset", "threadset"})
            \cup On("filter", All({"filter_result"})),
          {})
  /\ i' = 1
  /\ UNCHANGED <<options, enabled, thread>>

\* A mutant of Spawn: one turn too many.
SpawnOneMore ==
  /\ pc = "spawn"
  /\ i <= NumBranches + 1
  /\ thread' = [b \in Branches |-> IF b = i THEN "filter" ELSE thread[b]]
  /\ i' = i + 1
  /\ UNCHANGED <<options, enabled, live, pc>>

\* A mutant of Spawn: the last branch gets no thread.
SpawnButLast ==
  /\ pc = "spawn"
  /\ i <= NumBranches
  /\ thread' = IF i < NumBranches THEN [thread EXCEPT ![i] = "filter"]
                                  ELSE thread
  /\ i' = i + 1
  /\ UNCHANGED <<options, enabled, live, pc>>

\* run_branch_async starts the next thread.
Spawn ==
  /\ pc = "spawn"
  /\ i <= NumBranches
  /\ thread' = [thread EXCEPT ![i] = "filter"]
  /\ i' = i + 1
  /\ UNCHANGED <<options, enabled, live, pc>>

AllSpawned ==
  /\ pc = "spawn"
  /\ i > NumBranches
  /\ i' = 1
  /\ pc' = "join"
  /\ UNCHANGED <<options, enabled, live, thread>>

-----------------------------------------------------------------------------
(* branch_start(...)                                                       *)

\* The filter ran while the trace was read: only its result is looked at.
CheckFilter(b) ==
  LET missing == /\ "filter" \in enabled
                 /\ <<"filter_result", b>> \notin live
  IN Thread(b, "filter", IF missing THEN "failed" ELSE "grouper",
            Shared({"fquery", "io"}), {}, {})

\* What grouper(...) leaves of the sorted records: nothing unless they are to
\* be shown, and then one array for each clause, if there are records.
SortedRecords(b) ==
  {{}} \cup If(verbose > 1, {Of(b, {"sorted_recordset"}),
                            Of(b, {"sorted_recordset", "earlier_sorted"})})

\* grouper(...): it reads the filter result whether there is one or not.
Grouper(b) ==
  \E sorted \in SortedRecords(b) :
    Thread(b, "grouper", "grouper rules",
      On("grouper",
         Of(b, {"filter_result"}) \cup FilterRules({b}) \cup GroupRules({b})
           \cup AggregationRules({b}) \cup Shared({"recordset", "io"})),
      On("grouper", sorted \cup Of(b, {"grouper_result", "aggr_result"})),
      {})

FreeGrouperRules(b) ==
  LET rules == GroupRules({b}) \cup AggregationRules({b})
  IN Thread(b, "grouper rules", "filter rules", rules, {}, rules)

\* A mutant of FreeFilterRules: they are freed in the branches that group.
FreeFilterRulesIfGrouped(b) ==
  LET rules == If("grouper" \in enabled, FilterRules({b}))
  IN Thread(b, "filter rules", "groupfilter", rules, {}, rules)

FreeFilterRules(b) ==
  Thread(b, "filter rules", "groupfilter",
         FilterRules({b}), {}, FilterRules({b}))

\* groupfilter(...)
GroupFilter(b) ==
  Thread(b, "groupfilter", "groupfilter rules",
    On("groupfilter",
       GroupFilterRules({b}) \cup Of(b, {"grouper_result", "aggr_result"})
         \cup Shared({"io"})),
    On("groupfilter", Of(b, {"gfilter_result"})),
    {})

FreeGroupFilterRules(b) ==
  Thread(b, "groupfilter rules", "exited",
         GroupFilterRules({b}), {}, GroupFilterRules({b}))

-----------------------------------------------------------------------------
(* main(...), from the threads on                                          *)

\* A mutant of Join: main does not wait for the thread.
JoinUnwaited ==
  /\ pc = "join"
  /\ i <= NumBranches
  /\ i' = i + 1
  /\ UNCHANGED <<options, enabled, live, thread, pc>>

\* pthread_join of the next thread; one that failed ends the process.
Join ==
  /\ pc = "join"
  /\ i <= NumBranches
  /\ thread[i] \in {"exited", "failed"}
  /\ i' = i + 1
  /\ pc' = IF thread[i] = "failed" THEN "aborted" ELSE pc
  /\ UNCHANGED <<options, enabled, live, thread>>

\* What echo_branch prints, by the verbosity.
EchoReads ==
  If(verbose > 0, On("grouper", All({"grouper_result", "aggr_result"}))
                    \cup On("groupfilter", All({"gfilter_result"})))
    \cup If(verbose > 1, On("grouper", All({"filter_result"})))

\* All joined: echo_branch, and the sorted records are freed after it, those
\* the grouper result still points to.
EchoBranches ==
  /\ i > NumBranches
  /\ Main("join", "merge",
          Shared({"threadset", "fquery", "io"}) \cup EchoReads,
          {},
          Shared({"threadset"})
            \cup If(verbose > 1, On("grouper", All({"sorted_recordset"}))))
  /\ UNCHANGED <<options, enabled, i, thread>>

\* merger(...), which reads the group filter results whether there are any or
\* not, the freeing of its rules, and echo_merger.
Merge ==
  /\ Main("merge", "free aggregates",
          On("merger",
             All({"gfilter_result", "grouper_result", "aggr_result"})
               \cup MergerRules \cup Shared({"fquery", "io"})),
          On("merger", Shared({"merger_result"})),
          MergerRules)
  /\ UNCHANGED <<options, enabled, i, thread>>

\* The aggregates and the group filter results are freed before ungrouper.
FreeAggregates ==
  LET freed == On("grouper", All({"aggr_result"}))
                 \cup On("groupfilter", All({"gfilter_result"}))
  IN Main("free aggregates", "ungroup",
          freed \cup On("grouper", All({"grouper_result"})), {}, freed)
  /\ UNCHANGED <<options, enabled, i, thread>>

\* ungrouper(...), which without a merger result makes no streams, and
\* echo_results. It reads the groups the matched tuples point to.
Ungroup ==
  /\ Main("ungroup", "free groups",
          On("ungrouper",
             On("merger", Shared({"merger_result"})
                            \cup All({"grouper_result"}))
               \cup Shared({"recordset", "io"})),
          On("ungrouper", Shared({"ungrouper_result"})),
          {})
  /\ UNCHANGED <<options, enabled, i, thread>>

\* A mutant of FreeGroups: the merger result is left for dead with the groups.
FreeGroupsForgetsMerger ==
  LET freed == On("grouper", All({"grouper_result"}))
  IN Main("free groups", "free filter", freed, {}, freed)
  /\ UNCHANGED <<options, enabled, i, thread>>

\* The groups, then the tuples that pointed to them.
FreeGroups ==
  LET freed == On("grouper", All({"grouper_result"}))
                 \cup On("merger", Shared({"merger_result"}))
  IN Main("free groups", "free filter", freed, {}, freed)
  /\ UNCHANGED <<options, enabled, i, thread>>

\* The streams, the filter results, and what main itself has allocated.
FreeRest ==
  LET freed == On("ungrouper", Shared({"ungrouper_result"}))
                 \cup On("filter", All({"filter_result"}))
                 \cup Shared({"params", "fquery", "io", "recordset"})
  IN Main("free filter", "exited", freed, {}, freed)
  /\ UNCHANGED <<options, enabled, i, thread>>

\* errExit or exitOn, called by main or by a thread: the process ends.
Abort ==
  /\ ~ Ended
  /\ pc' = "aborted"
  /\ UNCHANGED <<options, enabled, live, i, thread>>

MainNext ==
  \/ ParseBranch \/ ParseRest \/ Prepare \/ ReadTrace \/ Spawn \/ AllSpawned
  \/ Join \/ EchoBranches \/ Merge \/ FreeAggregates \/ Ungroup
  \/ FreeGroups \/ FreeRest

ThreadNext(b) ==
  \/ CheckFilter(b) \/ Grouper(b) \/ FreeGrouperRules(b) \/ FreeFilterRules(b)
  \/ GroupFilter(b) \/ FreeGroupFilterRules(b)

Next == MainNext \/ (\E b \in Branches : ThreadNext(b)) \/ Abort

\* The system schedules main and every thread that can go on.
Fairness == WF_vars(MainNext) /\ \A b \in Branches : WF_vars(ThreadNext(b))

Spec == Init /\ [][Next]_vars /\ Fairness

-----------------------------------------------------------------------------
(* Properties                                                              *)

TypeOK ==
  /\ query \in Queries
  /\ verbose \in Verbosity
  /\ file \in FilesAsked
  /\ enabled \subseteq Stages \cup {"merger", "ungrouper"}
  /\ live \subseteq Objects
  /\ i \in 1 .. NumBranches + 1
  /\ thread \in [Branches ->
       {"none", "filter", "grouper", "grouper rules", "filter rules",
        "groupfilter", "groupfilter rules", "exited", "failed"}]
  /\ pc \in {"parse", "prepare", "read", "spawn", "join", "merge",
             "free aggregates", "ungroup", "free groups", "free filter",
             "exited", "aborted", "crashed"}

\* The queries the engine is safe for: a branch has the stages its predecessor
\* has, and each stage finds the stage in front of it, in the last branch and
\* so in the flags.
Supported ==
  LET last == query.branchset[NumBranches]
  IN /\ \A b \in 1 .. NumBranches - 1 :
          query.branchset[b] \subseteq query.branchset[b + 1]
     /\ "grouper" \in last => "filter" \in last
     /\ "groupfilter" \in last => "grouper" \in last
     /\ query.merger => "groupfilter" \in last
     /\ verbose > 0 /\ file => "filter" \in last

\* No supported query reads an object before it is made or after it is freed,
\* whatever the order in which main and the threads run; and no other query
\* ever gets through.
CrashesExactly ==
  /\ pc = "crashed" => ~ Supported
  /\ pc = "exited" => Supported

\* A process that ends normally has freed everything, but for the sorted
\* records of a clause that was not the last one.
FreesAll == pc = "exited" => live \subseteq All({"earlier_sorted"})

\* From its start to its end the objects of a branch belong to its thread:
\* nobody else allocates or frees them meanwhile.
BranchOwned ==
  [][\A b \in Branches :
       thread[b] \notin {"none", "exited"} /\ thread'[b] = thread[b]
         => live' \cap Of(b, BranchKinds) = live \cap Of(b, BranchKinds)]_vars

\* A thread that is done leaves the results of its branch and none of its
\* rules: grouped results for each flag that is set, and nothing else.
BranchHandedOver ==
  \A b \in Branches :
    thread[b] = "exited" /\ pc = "join" =>
      (live \cap Of(b, BranchKinds))
         \ Of(b, {"sorted_recordset", "earlier_sorted"})
        = On("filter", Of(b, {"filter_result"}))
            \cup On("grouper", Of(b, {"grouper_result", "aggr_result"}))
            \cup On("groupfilter", Of(b, {"gfilter_result"}))

\* A supported query is answered, unless an error ends the process: main never
\* waits for a thread that does not come.
Answers == Supported => <>(pc \in {"exited", "aborted"})

\* What RELEASES.md:56-61 says, "no filter in query => no filter in engine"
\* and so on for each stage: a query may leave out a stage.
StagesOptional == pc # "crashed"

-----------------------------------------------------------------------------
(* The invariant from which these follow: it tells by the places of main   *)
(* and of the threads exactly which objects are there.                     *)

Running == pc \notin {"aborted", "crashed"}

\* Where no thread has been started, and where all of them have ended.
BeforeThreads == {"parse", "prepare", "read"}
WithThreads   == {"spawn", "join"}
AfterThreads  == {"merge", "free aggregates", "ungroup", "free groups",
                  "free filter", "exited"}

\* Where a thread has its grouper, and where its group filter behind it.
Grouped  == {"grouper rules", "filter rules", "groupfilter",
             "groupfilter rules", "exited"}
Filtered == {"groupfilter rules", "exited"}

\* The flags are the stages of the branch parsed last.
ParsedInv ==
  /\ \A b \in 1 .. NumBranches - 1 : (pc = "parse" => b < i - 1) =>
       query.branchset[b] \subseteq query.branchset[b + 1]
  /\ enabled = IF pc = "parse"
               THEN IF i = 1 THEN {} ELSE query.branchset[i - 1]
               ELSE query.branchset[NumBranches]
                      \cup If(query.merger, {"merger"})
                      \cup If(query.ungrouper, {"ungrouper"})

\* Which threads have been started and which have ended, by the place of main.
ThreadsInv ==
  /\ pc \in BeforeThreads => \A b \in Branches : thread[b] = "none"
  /\ pc = "spawn" => \A b \in Branches : thread[b] = "none" <=> b >= i
  /\ pc = "join" => \A b \in Branches : /\ thread[b] # "none"
                                        /\ b < i => thread[b] = "exited"
  /\ pc \in AfterThreads => \A b \in Branches : thread[b] = "exited"
  /\ \A b \in Branches : thread[b] # "failed"

\* Who has got past a stage has found what the stage reads.
StagesInv ==
  /\ pc \notin BeforeThreads /\ verbose > 0 /\ file => "filter" \in enabled
  /\ \A b \in Branches :
       /\ thread[b] \in Grouped /\ "grouper" \in enabled => "filter" \in enabled
       /\ thread[b] \in Filtered /\ "groupfilter" \in enabled => "grouper" \in enabled
  /\ pc \in AfterThreads \ {"merge"} /\ "merger" \in enabled
       => "groupfilter" \in enabled

\* The objects of main, by its place.
SharedInv ==
  LET Is(kind, flag, places) == <<kind, 0>> \in live <=> flag /\ pc \in places
  IN /\ Is("params", TRUE, (BeforeThreads \cup WithThreads \cup AfterThreads) \ {"exited"})
     /\ Is("json", TRUE, {"parse", "prepare"})
     /\ Is("io", TRUE, {"prepare", "read"} \cup WithThreads
                         \cup (AfterThreads \ {"exited"}))
     /\ Is("fquery", TRUE, {"read"} \cup WithThreads \cup (AfterThreads \ {"exited"}))
     /\ Is("recordset", TRUE, WithThreads \cup (AfterThreads \ {"exited"}))
     /\ Is("threadset", TRUE, WithThreads)
     /\ Is("merger_clauseset", "merger" \in enabled, {"read", "merge"} \cup WithThreads)
     /\ Is("merger_result", "merger" \in enabled,
           {"free aggregates", "ungroup", "free groups"})
     /\ Is("ungrouper_result", "ungrouper" \in enabled, {"free groups", "free filter"})

\* The objects of a branch, by the places of main and of its thread.
BranchInv(b) ==
  LET Is(kind, stage, places, steps) ==
        <<kind, b>> \in live <=> /\ stage \in enabled
                                 /\ pc \in places
                                 /\ thread[b] \in steps
      ruled == {"read"} \cup WithThreads
      start == {"none", "filter", "grouper"}
  IN /\ Is("filter_clauseset", "filter", ruled,
           start \cup {"grouper rules", "filter rules"})
     /\ Is("grouper_clauseset", "grouper", ruled, start \cup {"grouper rules"})
     /\ Is("aggr_clause_termset", "aggregation", ruled, start \cup {"grouper rules"})
     /\ Is("groupfilter_clauseset", "groupfilter", ruled,
           (start \cup Grouped) \ {"exited"})
     /\ Is("filter_result", "filter", WithThreads \cup (AfterThreads \ {"exited"}),
           start \cup Grouped)
     /\ Is("grouper_result", "grouper",
           WithThreads \cup {"merge", "free aggregates", "ungroup", "free groups"}, Grouped)
     /\ Is("aggr_result", "grouper", WithThreads \cup {"merge", "free aggregates"}, Grouped)
     /\ Is("gfilter_result", "groupfilter",
           WithThreads \cup {"merge", "free aggregates"}, Filtered)
     /\ <<"sorted_recordset", b>> \in live =>
          /\ "grouper" \in enabled
          /\ verbose > 1
          /\ pc \in WithThreads

RunningInv ==
  ParsedInv /\ ThreadsInv /\ StagesInv /\ SharedInv /\ (\A b \in Branches : BranchInv(b))

EngineInv == TypeOK /\ CrashesExactly /\ (Running => RunningInv)

=============================================================================
