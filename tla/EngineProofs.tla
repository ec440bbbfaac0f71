---------------------------- MODULE EngineProofs ----------------------------
(***************************************************************************)
(* The life of the engine's objects for any number of branches, any query  *)
(* and any order of the threads: supported queries never crash, a process  *)
(* that ends has freed everything, and a branch belongs to its thread.     *)
(***************************************************************************)
EXTENDS Engine, TLAPS

-----------------------------------------------------------------------------
(* Flags and branches.                                                     *)

LEMMA BranchFacts ==
  /\ NumBranches \in Nat /\ NumBranches >= 1
  /\ 1 \in Branches /\ NumBranches \in Branches /\ 0 \notin Branches
  /\ \A b \in Branches : b \in Nat /\ 1 <= b /\ b <= NumBranches
BY EngineAssumption DEF Branches

\* What the query is.
LEMMA QueryFacts ==
  ASSUME TypeOK
  PROVE  /\ \A b \in Branches : query.branchset[b] \subseteq Stages
         /\ query.merger \in BOOLEAN /\ query.ungrouper \in BOOLEAN
BY EngineAssumption DEF TypeOK, Query

\* The counter, and a thread that takes a step.
LEMMA CounterFacts ==
  ASSUME TypeOK PROVE i \in Nat /\ i <= NumBranches + 1
<1>1. i \in 1 .. NumBranches + 1
  BY DEF TypeOK
<1>2. QED
  BY <1>1, BranchFacts

LEMMA ThreadFacts ==
  ASSUME TypeOK, NEW b \in Branches, NEW to, thread' = [thread EXCEPT ![b] = to]
  PROVE  /\ thread'[b] = to
         /\ \A c \in Branches : c # b => thread'[c] = thread[c]
<1>1. DOMAIN thread = Branches
  BY DEF TypeOK
<1>2. QED
  BY <1>1

\* After parsing, Supported is a matter of the flags.
LEMMA SupportedIs ==
  ASSUME TypeOK, ParsedInv, pc # "parse"
  PROVE  Supported <=>
           /\ "grouper" \in enabled => "filter" \in enabled
           /\ "groupfilter" \in enabled => "grouper" \in enabled
           /\ "merger" \in enabled => "groupfilter" \in enabled
           /\ verbose > 0 /\ file => "filter" \in enabled
<1> DEFINE last == query.branchset[NumBranches]
<1>1. last \subseteq Stages /\ query.merger \in BOOLEAN
  BY BranchFacts, QueryFacts
<1>2. /\ "filter" \in enabled <=> "filter" \in last
      /\ "grouper" \in enabled <=> "grouper" \in last
      /\ "groupfilter" \in enabled <=> "groupfilter" \in last
      /\ "merger" \in enabled <=> query.merger
  BY <1>1 DEF ParsedInv, If, Stages
<1>3. \A b \in 1 .. NumBranches - 1 :
        query.branchset[b] \subseteq query.branchset[b + 1]
  BY DEF ParsedInv
<1> HIDE DEF last
<1>4. Supported <=>
        /\ \A b \in 1 .. NumBranches - 1 :
             query.branchset[b] \subseteq query.branchset[b + 1]
        /\ "grouper" \in last => "filter" \in last
        /\ "groupfilter" \in last => "grouper" \in last
        /\ query.merger => "groupfilter" \in last
        /\ verbose > 0 /\ file => "filter" \in last
  BY Zenon DEF Supported, last
<1>5. QED
  BY <1>2, <1>3, <1>4, Zenon

-----------------------------------------------------------------------------
(* The initial states, and parsing.                                        *)

LEMMA InvInit == Init => EngineInv
<1> SUFFICES ASSUME Init PROVE EngineInv
  OBVIOUS
<1>1. TypeOK
  BY BranchFacts DEF Init, TypeOK, Objects, Shared, All, SharedKinds
<1>2. CrashesExactly
  BY DEF Init, CrashesExactly
<1>3. ParsedInv
  BY BranchFacts DEF Init, ParsedInv
<1>4. ThreadsInv
  BY DEF Init, ThreadsInv, BeforeThreads, AfterThreads
<1>5. StagesInv
  BY DEF Init, StagesInv, BeforeThreads, AfterThreads, Grouped, Filtered
<1>6. SharedInv
  BY DEF Init, SharedInv, Shared, BeforeThreads, WithThreads, AfterThreads
<1>7. \A b \in Branches : BranchInv(b)
  BY BranchFacts DEF Init, BranchInv, Shared, WithThreads, AfterThreads
<1>8. QED
  BY <1>1, <1>2, <1>3, <1>4, <1>5, <1>6, <1>7 DEF EngineInv, RunningInv

LEMMA InvParseBranch ==
  ASSUME EngineInv, ParseBranch PROVE EngineInv'
<1>1. TypeOK /\ ParsedInv /\ ThreadsInv /\ StagesInv /\ SharedInv
      /\ \A b \in Branches : BranchInv(b)
  BY DEF EngineInv, RunningInv, Running, ParseBranch
<1>2. /\ pc = "parse" /\ i \in Nat /\ 1 <= i /\ i <= NumBranches
      /\ i \in Branches
      /\ enabled' = enabled \cup query.branchset[i]
      /\ UNCHANGED <<query, verbose, file, live, thread>>
  <2>1. i \in 1 .. NumBranches + 1
    BY <1>1 DEF TypeOK
  <2>2. /\ pc = "parse" /\ i <= NumBranches
        /\ enabled' = enabled \cup query.branchset[i]
        /\ UNCHANGED <<query, verbose, file, live, thread>>
    BY DEF ParseBranch, options
  <2>3. QED
    BY <2>1, <2>2, BranchFacts DEF Branches
<1>3. enabled = IF i = 1 THEN {} ELSE query.branchset[i - 1]
  BY <1>1, <1>2 DEF ParsedInv
<1>4. CASE enabled' = query.branchset[i]
  <2>1. i' = i + 1 /\ pc' = "parse"
    BY <1>2, <1>4 DEF ParseBranch
  <2>2. TypeOK'
    <3>1. i' \in 1 .. NumBranches + 1
      BY <1>2, <2>1, BranchFacts
    <3>2. enabled' \subseteq Stages
      BY <1>1, <1>2, <1>4, QueryFacts
    <3>3. QED
      BY <1>1, <1>2, <2>1, <3>1, <3>2 DEF TypeOK
  <2>3. ParsedInv'
    <3>1. enabled' = query'.branchset[i' - 1] /\ i' # 1
      BY <1>2, <1>4, <2>1
    <3>2. ASSUME NEW b \in 1 .. NumBranches - 1, b < i' - 1
          PROVE  query.branchset[b] \subseteq query.branchset[b + 1]
      <4>1. CASE b < i - 1
        BY <1>1, <4>1 DEF ParsedInv
      <4>2. CASE b = i - 1
        <5>1. i # 1 /\ b + 1 = i
          BY <1>2, <4>2, <3>2
        <5>2. query.branchset[b] \subseteq query.branchset[i]
          BY <1>2, <1>3, <1>4, <4>2, <5>1
        <5>3. QED
          BY <5>1, <5>2
      <4>3. QED
        BY <1>2, <2>1, <3>2, <4>1, <4>2
    <3>3. QED
      BY <1>2, <2>1, <3>1, <3>2 DEF ParsedInv
  <2>4. CrashesExactly' /\ ThreadsInv' /\ StagesInv' /\ SharedInv'
    BY <1>1, <1>2, <2>1 DEF CrashesExactly, ThreadsInv, StagesInv, SharedInv,
       BeforeThreads, WithThreads, AfterThreads, Grouped, Filtered
  <2>5. \A b \in Branches : BranchInv(b)'
    BY <1>1, <1>2, <2>1 DEF BranchInv, WithThreads, AfterThreads
  <2>6. QED
    BY <2>2, <2>3, <2>4, <2>5 DEF EngineInv, RunningInv
<1>5. CASE enabled' # query.branchset[i]
  <2>1. pc' = "crashed" /\ i' = i
    BY <1>5 DEF ParseBranch
  <2>2. TypeOK'
    BY <1>1, <1>2, <2>1, QueryFacts DEF TypeOK
  <2>3. ~ Supported
    <3>1. i # 1 /\ i - 1 \in 1 .. NumBranches - 1 /\ (i - 1) + 1 = i
      BY <1>2, <1>3, <1>5, BranchFacts
    <3>2. ~ query.branchset[i - 1] \subseteq query.branchset[i]
      BY <1>2, <1>3, <1>5, <3>1
    <3>3. QED
      BY <3>1, <3>2 DEF Supported
  <2>4. Supported' = Supported
    BY <1>2 DEF Supported
  <2>5. QED
    BY <2>1, <2>2, <2>3, <2>4 DEF EngineInv, CrashesExactly, Running
<1>6. QED
  BY <1>4, <1>5

LEMMA InvParseRest ==
  ASSUME EngineInv, ParseRest PROVE EngineInv'
<1>1. TypeOK /\ ParsedInv /\ ThreadsInv /\ StagesInv /\ SharedInv
      /\ \A b \in Branches : BranchInv(b)
  BY DEF EngineInv, RunningInv, Running, ParseRest
<1>2. /\ pc = "parse" /\ pc' = "prepare" /\ i > NumBranches
      /\ enabled' = enabled \cup If(query.merger, {"merger"})
                            \cup If(query.ungrouper, {"ungrouper"})
      /\ live' = live \cup Shared({"io"})
      /\ UNCHANGED <<query, verbose, file, i, thread>>
  BY DEF ParseRest, options
<1>3. i = NumBranches + 1
  <2>1. i \in 1 .. NumBranches + 1
    BY <1>1 DEF TypeOK
  <2>2. QED
    BY <1>2, <2>1, BranchFacts
<1>4. TypeOK'
  <2>1. live' \subseteq Objects
    BY <1>1, <1>2 DEF TypeOK, Objects, Shared, SharedKinds
  <2>2. enabled' \subseteq Stages \cup {"merger", "ungrouper"}
    BY <1>1, <1>2 DEF TypeOK, If
  <2>3. QED
    BY <1>1, <1>2, <2>1, <2>2 DEF TypeOK
<1>5. ParsedInv'
  <2>1. enabled = query.branchset[NumBranches]
    BY <1>1, <1>2, <1>3, BranchFacts DEF ParsedInv
  <2>2. \A b \in 1 .. NumBranches - 1 :
          query.branchset[b] \subseteq query.branchset[b + 1]
    BY <1>1, <1>2, <1>3, BranchFacts DEF ParsedInv
  <2>3. QED
    BY <1>2, <2>1, <2>2 DEF ParsedInv, If
<1>6. CrashesExactly' /\ ThreadsInv' /\ StagesInv'
  BY <1>1, <1>2 DEF CrashesExactly, ThreadsInv, StagesInv,
     BeforeThreads, AfterThreads, Grouped, Filtered
<1>7. SharedInv'
  BY <1>1, <1>2 DEF SharedInv, Shared, BeforeThreads, WithThreads, AfterThreads
<1>8. \A b \in Branches : BranchInv(b)'
  BY <1>1, <1>2, BranchFacts DEF BranchInv, Shared, WithThreads, AfterThreads
<1>9. QED
  BY <1>4, <1>5, <1>6, <1>7, <1>8 DEF EngineInv, RunningInv

-----------------------------------------------------------------------------
(* main with no thread running.                                            *)

\* A crash, of an unsupported query only.
LEMMA Crash ==
  ASSUME EngineInv, ~ Supported, pc' = "crashed",
         UNCHANGED <<options, enabled, live, i, thread>>
  PROVE  EngineInv'
<1>1. TypeOK
  BY DEF EngineInv
<1>2. TypeOK'
  BY <1>1 DEF TypeOK, options
<1>3. Supported' = Supported
  BY DEF Supported, options
<1>4. QED
  BY <1>2, <1>3 DEF EngineInv, CrashesExactly, Running

LEMMA InvPrepare ==
  ASSUME EngineInv, Prepare PROVE EngineInv'
<1>1. TypeOK /\ ParsedInv /\ ThreadsInv /\ StagesInv /\ SharedInv
      /\ \A b \in Branches : BranchInv(b)
  BY DEF EngineInv, RunningInv, Running, Prepare, Main
<1>2. /\ pc = "prepare" /\ UNCHANGED <<query, verbose, file, enabled, i, thread>>
      /\ Shared({"json", "io"}) \subseteq live =>
           /\ pc' = "read"
           /\ live' = (live \cup Shared({"fquery"}) \cup FilterRules(Branches)
                         \cup GroupRules(Branches) \cup AggregationRules(Branches)
                         \cup GroupFilterRules(Branches) \cup MergerRules)
                      \ Shared({"json"})
  BY DEF Prepare, Main, options
<1>3. Shared({"json", "io"}) \subseteq live
  BY <1>1, <1>2 DEF SharedInv, Shared
<1>4. pc' = "read"
  BY <1>2, <1>3
<1>5. TypeOK'
  <2>1. live' \subseteq Objects
    BY <1>1, <1>2, <1>3 DEF TypeOK, Objects, Shared, SharedKinds, All, BranchKinds,
       FilterRules, GroupRules, AggregationRules, GroupFilterRules, MergerRules, On, If
  <2>2. QED
    BY <1>1, <1>2, <1>4, <2>1 DEF TypeOK
<1>6. CrashesExactly' /\ ParsedInv' /\ ThreadsInv' /\ StagesInv'
  BY <1>1, <1>2, <1>4 DEF CrashesExactly, ParsedInv, ThreadsInv, StagesInv,
     BeforeThreads, AfterThreads
<1>7. SharedInv'
  BY <1>1, <1>2, <1>3, <1>4, BranchFacts
     DEF SharedInv, Shared, BeforeThreads, WithThreads, AfterThreads,
         FilterRules, GroupRules, AggregationRules, GroupFilterRules, MergerRules, On, If
<1>8. ASSUME NEW b \in Branches PROVE BranchInv(b)'
  <2>1. thread[b] = "none" /\ b # 0 /\ BranchInv(b)
    BY <1>1, <1>2, BranchFacts DEF ThreadsInv, BeforeThreads
  <2>2. QED
    BY <1>2, <1>3, <1>4, <2>1
       DEF BranchInv, Shared, WithThreads, AfterThreads, Grouped, Filtered,
           FilterRules, GroupRules, AggregationRules, GroupFilterRules, MergerRules, On, If
<1>9. QED
  BY <1>5, <1>6, <1>7, <1>8 DEF EngineInv, RunningInv

LEMMA InvReadTrace ==
  ASSUME EngineInv, ReadTrace PROVE EngineInv'
<1> DEFINE uses == Shared({"fquery", "io"})
                     \cup FilterRules(Branches)
                     \cup If(verbose > 0 /\ file /\ "filter" \notin enabled,
                             All({"filter_result"}))
<1>1. TypeOK /\ ParsedInv /\ ThreadsInv /\ StagesInv /\ SharedInv
      /\ \A b \in Branches : BranchInv(b)
  BY DEF EngineInv, RunningInv, Running, ReadTrace, Main
<1>2. /\ pc = "read" /\ i' = 1 /\ UNCHANGED <<query, verbose, file, enabled, thread>>
      /\ IF uses \subseteq live
         THEN /\ pc' = "spawn"
              /\ live' = (live \cup Shared({"recordset", "threadset"})
                               \cup On("filter", All({"filter_result"}))) \ {}
         ELSE pc' = "crashed" /\ live' = live
  BY DEF ReadTrace, Main, options
<1>3. \A b \in Branches : thread[b] = "none"
  BY <1>1, <1>2 DEF ThreadsInv, BeforeThreads
<1>4. uses \subseteq live <=> (verbose > 0 /\ file => "filter" \in enabled)
  <2>1. Shared({"fquery", "io"}) \subseteq live
    BY <1>1, <1>2 DEF SharedInv, Shared
  <2>2. FilterRules(Branches) \subseteq live
    <3>1. \A b \in Branches : "filter" \in enabled => <<"filter_clauseset", b>> \in live
      BY <1>1, <1>2, <1>3 DEF BranchInv
    <3>2. QED
      BY <3>1 DEF FilterRules, On, If
  <2>3. <<"filter_result", 1>> \notin live
    BY <1>1, <1>2, BranchFacts DEF BranchInv, WithThreads, AfterThreads
  <2>4. CASE verbose > 0 /\ file /\ "filter" \notin enabled
    <3>1. <<"filter_result", 1>> \in uses
      BY <2>4, BranchFacts DEF If, All
    <3>2. QED
      BY <2>3, <2>4, <3>1
  <2>5. CASE ~ (verbose > 0 /\ file /\ "filter" \notin enabled)
    BY <2>1, <2>2, <2>5 DEF If
  <2>6. QED
    BY <2>4, <2>5
<1>5. CASE uses \subseteq live
  <2>1. pc' = "spawn" /\ (verbose > 0 /\ file => "filter" \in enabled)
        /\ live' = live \cup Shared({"recordset", "threadset"})
                        \cup On("filter", All({"filter_result"}))
    BY <1>2, <1>4, <1>5
  <2> HIDE DEF uses
  <2>2. TypeOK'
    <3>1. live' \subseteq Objects
      BY <1>1, <2>1 DEF TypeOK, Objects, Shared, SharedKinds, All, BranchKinds, On, If
    <3>2. 1 \in 1 .. NumBranches + 1
      BY BranchFacts
    <3>3. QED
      BY <1>1, <1>2, <2>1, <3>1, <3>2 DEF TypeOK
  <2>3. CrashesExactly' /\ ParsedInv'
    BY <1>1, <1>2, <2>1 DEF CrashesExactly, ParsedInv
  <2>4. ThreadsInv'
    BY <1>2, <1>3, <2>1, BranchFacts DEF ThreadsInv, BeforeThreads, AfterThreads
  <2>5. StagesInv'
    BY <1>1, <1>2, <1>3, <2>1 DEF StagesInv, BeforeThreads, AfterThreads, Grouped, Filtered
  <2>6. SharedInv'
    BY <1>1, <1>2, <2>1, BranchFacts
       DEF SharedInv, Shared, BeforeThreads, WithThreads, AfterThreads, All, On, If
  <2>7. ASSUME NEW b \in Branches PROVE BranchInv(b)'
    <3>1. thread[b] = "none" /\ b # 0 /\ BranchInv(b)
      BY <1>1, <1>3, BranchFacts
    <3>2. QED
      BY <1>2, <2>1, <3>1
         DEF BranchInv, Shared, WithThreads, AfterThreads, Grouped, Filtered, All, On, If
  <2>8. QED
    BY <2>2, <2>3, <2>4, <2>5, <2>6, <2>7 DEF EngineInv, RunningInv
<1>6. CASE ~ uses \subseteq live
  <2>1. pc' = "crashed" /\ live' = live /\ ~ Supported
    BY <1>1, <1>2, <1>4, <1>6, SupportedIs
  <2> HIDE DEF uses
  <2>2. TypeOK'
    <3>1. 1 \in 1 .. NumBranches + 1
      BY BranchFacts
    <3>2. QED
      BY <1>1, <1>2, <2>1, <3>1 DEF TypeOK
  <2>3. Supported' = Supported
    BY <1>2 DEF Supported
  <2>4. QED
    BY <2>1, <2>2, <2>3 DEF EngineInv, CrashesExactly, Running
<1>7. QED
  BY <1>5, <1>6

LEMMA InvSpawn ==
  ASSUME EngineInv, Spawn PROVE EngineInv'
<1>1. TypeOK /\ ParsedInv /\ ThreadsInv /\ StagesInv /\ SharedInv
      /\ \A b \in Branches : BranchInv(b)
  BY DEF EngineInv, RunningInv, Running, Spawn
<1>2. /\ pc = "spawn" /\ pc' = "spawn" /\ i <= NumBranches
      /\ thread' = [thread EXCEPT ![i] = "filter"] /\ i' = i + 1
      /\ UNCHANGED <<query, verbose, file, enabled, live>>
  BY DEF Spawn, options
<1>3. i \in Branches /\ i' \in 1 .. NumBranches + 1 /\ i \in Nat
  <2>1. i \in 1 .. NumBranches + 1
    BY <1>1 DEF TypeOK
  <2>2. QED
    BY <1>2, <2>1, BranchFacts DEF Branches
<1>4. thread[i] = "none" /\ thread'[i] = "filter"
      /\ \A b \in Branches : b # i => thread'[b] = thread[b]
  <2>1. thread[i] = "none"
    BY <1>1, <1>2, <1>3 DEF ThreadsInv
  <2>2. QED
    BY <1>1, <1>2, <1>3, <2>1, ThreadFacts
<1>5. TypeOK'
  BY <1>1, <1>2, <1>3 DEF TypeOK
<1>6. CrashesExactly' /\ ParsedInv'
  BY <1>1, <1>2 DEF CrashesExactly, ParsedInv
<1>7. ThreadsInv'
  <2>1. \A b \in Branches : thread[b] = "none" <=> b >= i
    BY <1>1, <1>2 DEF ThreadsInv
  <2>2. \A b \in Branches : thread'[b] = "none" <=> b >= i'
    BY <1>2, <1>3, <1>4, <2>1, BranchFacts
  <2>3. \A b \in Branches : thread'[b] # "failed"
    BY <1>1, <1>4 DEF ThreadsInv
  <2>4. QED
    BY <1>2, <2>2, <2>3 DEF ThreadsInv, BeforeThreads, AfterThreads
<1>8. StagesInv'
  BY <1>1, <1>2, <1>4 DEF StagesInv, BeforeThreads, AfterThreads, Grouped, Filtered
<1>9. SharedInv'
  BY <1>1, <1>2 DEF SharedInv, BeforeThreads, WithThreads, AfterThreads
<1>10. ASSUME NEW b \in Branches PROVE BranchInv(b)'
  BY <1>1, <1>2, <1>4, <1>10 DEF BranchInv, WithThreads, AfterThreads, Grouped, Filtered
<1>11. QED
  BY <1>5, <1>6, <1>7, <1>8, <1>9, <1>10 DEF EngineInv, RunningInv

LEMMA InvAllSpawned ==
  ASSUME EngineInv, AllSpawned PROVE EngineInv'
<1>1. TypeOK /\ ParsedInv /\ ThreadsInv /\ StagesInv /\ SharedInv
      /\ \A b \in Branches : BranchInv(b)
  BY DEF EngineInv, RunningInv, Running, AllSpawned
<1>2. /\ pc = "spawn" /\ pc' = "join" /\ i > NumBranches /\ i' = 1
      /\ UNCHANGED <<query, verbose, file, enabled, live, thread>>
  BY DEF AllSpawned, options
<1>3. TypeOK'
  <2>1. 1 \in 1 .. NumBranches + 1
    BY BranchFacts
  <2>2. QED
    BY <1>1, <1>2, <2>1 DEF TypeOK
<1>4. CrashesExactly' /\ ParsedInv'
  BY <1>1, <1>2 DEF CrashesExactly, ParsedInv
<1>5. ThreadsInv'
  <2>1. i \in Nat
    BY <1>1, CounterFacts
  <2>2. \A b \in Branches : thread[b] # "none" /\ ~ (b < 1)
    BY <1>1, <1>2, <2>1, BranchFacts DEF ThreadsInv
  <2>3. QED
    BY <1>1, <1>2, <2>2 DEF ThreadsInv, BeforeThreads, AfterThreads
<1>6. StagesInv' /\ SharedInv'
  BY <1>1, <1>2 DEF StagesInv, SharedInv, BeforeThreads, WithThreads, AfterThreads
<1>7. \A b \in Branches : BranchInv(b)'
  BY <1>1, <1>2 DEF BranchInv, WithThreads, AfterThreads
<1>8. QED
  BY <1>3, <1>4, <1>5, <1>6, <1>7 DEF EngineInv, RunningInv

-----------------------------------------------------------------------------
(* The threads.                                                            *)

\* A thread runs between its start and its join; main is at neither then.
LEMMA ThreadRuns ==
  ASSUME EngineInv, ~ Ended, NEW b \in Branches,
         thread[b] \notin {"none", "exited"}
  PROVE  /\ TypeOK /\ RunningInv /\ pc \in WithThreads
         /\ Shared({"fquery", "io"}) \subseteq live
         /\ Shared({"recordset", "io"}) \subseteq live
         /\ Shared({"io"}) \subseteq live
<1>1. TypeOK /\ RunningInv
  BY DEF EngineInv, Running, Ended
<1>2. pc \in WithThreads
  BY <1>1 DEF RunningInv, TypeOK, Ended, ThreadsInv, BeforeThreads, WithThreads, AfterThreads
<1>3. <<"fquery", 0>> \in live /\ <<"io", 0>> \in live /\ <<"recordset", 0>> \in live
  BY <1>1, <1>2 DEF RunningInv, SharedInv, WithThreads
<1>4. QED
  BY <1>1, <1>2, <1>3 DEF Shared

\* What a thread finds of its branch, by its place.
LEMMA BranchHas ==
  ASSUME NEW b \in Branches, BranchInv(b), pc \in WithThreads
  PROVE  /\ thread[b] \in {"filter", "grouper", "grouper rules", "filter rules"}
              => FilterRules({b}) \subseteq live
         /\ thread[b] \in {"filter", "grouper", "grouper rules"}
              => GroupRules({b}) \subseteq live /\ AggregationRules({b}) \subseteq live
         /\ thread[b] \in {"groupfilter", "groupfilter rules"}
              => GroupFilterRules({b}) \subseteq live
         /\ thread[b] = "grouper" /\ "filter" \in enabled
              => Of(b, {"filter_result"}) \subseteq live
         /\ thread[b] = "groupfilter" /\ "grouper" \in enabled
              => Of(b, {"grouper_result", "aggr_result"}) \subseteq live
<1>1. /\ thread[b] \in {"filter", "grouper", "grouper rules", "filter rules"}
            => ("filter" \in enabled => <<"filter_clauseset", b>> \in live)
      /\ thread[b] \in {"filter", "grouper", "grouper rules"}
           => /\ "grouper" \in enabled => <<"grouper_clauseset", b>> \in live
              /\ "aggregation" \in enabled => <<"aggr_clause_termset", b>> \in live
      /\ thread[b] \in {"groupfilter", "groupfilter rules"}
           => ("groupfilter" \in enabled => <<"groupfilter_clauseset", b>> \in live)
      /\ thread[b] = "grouper" /\ "filter" \in enabled => <<"filter_result", b>> \in live
      /\ thread[b] = "groupfilter" /\ "grouper" \in enabled
           => <<"grouper_result", b>> \in live /\ <<"aggr_result", b>> \in live
  BY DEF BranchInv, WithThreads, Grouped
<1>2. FilterRules({b}) = IF "filter" \in enabled THEN {<<"filter_clauseset", b>>} ELSE {}
  BY DEF FilterRules, On, If
<1>3. GroupRules({b}) = IF "grouper" \in enabled THEN {<<"grouper_clauseset", b>>} ELSE {}
  BY DEF GroupRules, On, If
<1>4. AggregationRules({b}) =
        IF "aggregation" \in enabled THEN {<<"aggr_clause_termset", b>>} ELSE {}
  BY DEF AggregationRules, On, If
<1>5. GroupFilterRules({b}) =
        IF "groupfilter" \in enabled THEN {<<"groupfilter_clauseset", b>>} ELSE {}
  BY DEF GroupFilterRules, On, If
<1>6. /\ Of(b, {"filter_result"}) = {<<"filter_result", b>>}
      /\ Of(b, {"grouper_result", "aggr_result"})
           = {<<"grouper_result", b>>, <<"aggr_result", b>>}
  BY DEF Of
<1>7. QED
  BY <1>1, <1>2, <1>3, <1>4, <1>5, <1>6

\* A step of one thread, given what it does to the objects of its own branch.
LEMMA ThreadStep ==
  ASSUME EngineInv, ~ Ended, NEW b \in Branches,
         thread[b] \notin {"none", "exited"},
         NEW to \in Grouped \cup {"grouper"}, thread' = [thread EXCEPT ![b] = to],
         UNCHANGED <<options, enabled, i, pc>>,
         live' \subseteq Objects,
         \A object : object \notin Of(b, BranchKinds) =>
           (object \in live' <=> object \in live),
         BranchInv(b)',
         to \in Grouped /\ "grouper" \in enabled => "filter" \in enabled,
         to \in Filtered /\ "groupfilter" \in enabled => "grouper" \in enabled
  PROVE  EngineInv'
<1>1. TypeOK /\ pc \in WithThreads /\ ParsedInv /\ ThreadsInv /\ StagesInv
      /\ SharedInv /\ \A c \in Branches : BranchInv(c)
  BY ThreadRuns DEF RunningInv
<1>2. /\ thread'[b] = to
      /\ \A c \in Branches : c # b => thread'[c] = thread[c]
  BY <1>1, ThreadFacts
<1>3. UNCHANGED <<query, verbose, file, enabled, i, pc>>
  BY DEF options
<1>4. TypeOK'
  <2>1. thread' \in [Branches ->
          {"none", "filter", "grouper", "grouper rules", "filter rules",
           "groupfilter", "groupfilter rules", "exited", "failed"}]
    BY <1>1 DEF TypeOK, Grouped
  <2>2. QED
    BY <1>1, <1>3, <2>1 DEF TypeOK
<1>5. CrashesExactly' /\ ParsedInv'
  BY <1>1, <1>3 DEF CrashesExactly, ParsedInv, WithThreads
<1>6. ThreadsInv'
  <2>1. \A c \in Branches : /\ thread'[c] = "none" <=> thread[c] = "none"
                            /\ thread[c] = "exited" => thread'[c] = "exited"
                            /\ thread'[c] # "failed"
    BY <1>1, <1>2 DEF ThreadsInv, Grouped
  <2>2. QED
    BY <1>1, <1>3, <2>1 DEF ThreadsInv, WithThreads, BeforeThreads, AfterThreads
<1>7. StagesInv'
  BY <1>1, <1>2, <1>3 DEF StagesInv, WithThreads, BeforeThreads, AfterThreads
<1>8. SharedInv'
  <2>1. \A kind : <<kind, 0>> \in live' <=> <<kind, 0>> \in live
    BY BranchFacts DEF Of
  <2>2. QED
    BY <1>1, <1>3, <2>1 DEF SharedInv
<1>9. ASSUME NEW c \in Branches PROVE BranchInv(c)'
  <2>1. CASE c = b
    BY <2>1
  <2>2. CASE c # b
    <3>1. \A kind : <<kind, c>> \in live' <=> <<kind, c>> \in live
      BY <2>2 DEF Of
    <3>2. QED
      BY <1>1, <1>2, <1>3, <2>2, <3>1 DEF BranchInv
  <2>3. QED
    BY <2>1, <2>2
<1>10. QED
  BY <1>4, <1>5, <1>6, <1>7, <1>8, <1>9 DEF EngineInv, RunningInv

LEMMA InvCheckFilter ==
  ASSUME EngineInv, NEW b \in Branches, CheckFilter(b) PROVE EngineInv'
<1> DEFINE missing == "filter" \in enabled /\ <<"filter_result", b>> \notin live
<1>1. /\ ~ Ended /\ thread[b] = "filter"
      /\ UNCHANGED <<options, enabled, i>>
      /\ Shared({"fquery", "io"}) \subseteq live =>
           /\ thread' = [thread EXCEPT ![b] = IF missing THEN "failed" ELSE "grouper"]
           /\ live' = (live \cup {}) \ {}
           /\ pc' = pc
  BY DEF CheckFilter, Thread
<1>2. /\ TypeOK /\ pc \in WithThreads /\ BranchInv(b)
      /\ Shared({"fquery", "io"}) \subseteq live
  BY <1>1, ThreadRuns DEF RunningInv
<1>3. ~ missing
  BY <1>1, <1>2 DEF BranchInv
<1>4. thread' = [thread EXCEPT ![b] = "grouper"] /\ live' = live /\ pc' = pc
  BY <1>1, <1>2, <1>3
<1>5. thread'[b] = "grouper"
  BY <1>2, <1>4, ThreadFacts
<1>6. BranchInv(b)'
  BY <1>1, <1>2, <1>4, <1>5 DEF BranchInv, Grouped, Filtered, options
<1>7. live' \subseteq Objects
  BY <1>2, <1>4 DEF TypeOK
<1>8. "grouper" \notin Grouped /\ "grouper" \notin Filtered
  BY DEF Grouped, Filtered
<1>9. QED
  BY <1>1, <1>4, <1>6, <1>7, <1>8, ThreadStep

LEMMA InvGrouper ==
  ASSUME EngineInv, NEW b \in Branches, Grouper(b) PROVE EngineInv'
<1> DEFINE uses == On("grouper",
         Of(b, {"filter_result"}) \cup FilterRules({b}) \cup GroupRules({b})
           \cup AggregationRules({b}) \cup Shared({"recordset", "io"}))
<1>1. PICK sorted \in SortedRecords(b) :
        /\ ~ Ended /\ thread[b] = "grouper"
        /\ UNCHANGED <<options, enabled, i>>
        /\ IF uses \subseteq live
           THEN /\ thread' = [thread EXCEPT ![b] = "grouper rules"]
                /\ live' = (live \cup On("grouper",
                     sorted \cup Of(b, {"grouper_result", "aggr_result"}))) \ {}
                /\ pc' = pc
           ELSE pc' = "crashed" /\ live' = live /\ thread' = thread
  BY DEF Grouper, Thread
<1>2. /\ TypeOK /\ pc \in WithThreads /\ BranchInv(b) /\ ParsedInv
      /\ Shared({"recordset", "io"}) \subseteq live
  BY <1>1, ThreadRuns DEF RunningInv
<1>3. uses \subseteq live <=> ("grouper" \in enabled => "filter" \in enabled)
  <2>1. "filter" \in enabled => Of(b, {"filter_result"}) \subseteq live
    BY <1>1, <1>2, BranchHas
  <2>2. FilterRules({b}) \subseteq live /\ GroupRules({b}) \subseteq live
        /\ AggregationRules({b}) \subseteq live
    BY <1>1, <1>2, BranchHas
  <2>3. "filter" \notin enabled => <<"filter_result", b>> \notin live
    BY <1>2 DEF BranchInv
  <2>4. CASE "grouper" \in enabled
    <3>1. uses = Of(b, {"filter_result"}) \cup FilterRules({b}) \cup GroupRules({b})
                   \cup AggregationRules({b}) \cup Shared({"recordset", "io"})
      BY <2>4 DEF On, If
    <3>2. <<"filter_result", b>> \in Of(b, {"filter_result"})
      BY DEF Of
    <3>3. QED
      BY <1>2, <2>1, <2>2, <2>3, <2>4, <3>1, <3>2
  <2>5. CASE "grouper" \notin enabled
    BY <2>5 DEF On, If
  <2>6. QED
    BY <2>4, <2>5
<1>4. CASE uses \subseteq live
  <2>1. /\ thread' = [thread EXCEPT ![b] = "grouper rules"] /\ pc' = pc
        /\ live' = live \cup On("grouper",
                     sorted \cup Of(b, {"grouper_result", "aggr_result"}))
        /\ "grouper" \in enabled => "filter" \in enabled
    BY <1>1, <1>3, <1>4
  <2> HIDE DEF uses
  <2>2. /\ sorted \subseteq Of(b, {"sorted_recordset", "earlier_sorted"})
        /\ sorted # {} => verbose > 1
    BY DEF SortedRecords, If, Of
  <2>3. thread'[b] = "grouper rules"
    BY <1>2, <2>1, ThreadFacts
  <2>4. BranchInv(b)'
    BY <1>1, <1>2, <2>1, <2>2, <2>3
       DEF BranchInv, Grouped, Filtered, options, On, If, Of, WithThreads
  <2>5. live' \subseteq Objects
    BY <1>2, <2>1, <2>2 DEF TypeOK, On, If, Of, Objects, All, BranchKinds
  <2>6. \A object : object \notin Of(b, BranchKinds) =>
           (object \in live' <=> object \in live)
    BY <2>1, <2>2 DEF On, If, Of, BranchKinds
  <2>7. "grouper rules" \in Grouped /\ "grouper rules" \notin Filtered
    BY DEF Grouped, Filtered
  <2>8. QED
    BY <1>1, <2>1, <2>4, <2>5, <2>6, <2>7, ThreadStep
<1>5. CASE ~ uses \subseteq live
  <2>1. pc # "parse" /\ ~ Supported
    BY <1>2, <1>3, <1>5, SupportedIs DEF WithThreads
  <2>2. QED
    BY <1>1, <1>5, <2>1, Crash
<1>6. QED
  BY <1>4, <1>5

LEMMA InvFreeGrouperRules ==
  ASSUME EngineInv, NEW b \in Branches, FreeGrouperRules(b) PROVE EngineInv'
<1> DEFINE rules == GroupRules({b}) \cup AggregationRules({b})
<1>1. /\ ~ Ended /\ thread[b] = "grouper rules"
      /\ UNCHANGED <<options, enabled, i>>
      /\ rules \subseteq live =>
           /\ thread' = [thread EXCEPT ![b] = "filter rules"]
           /\ live' = (live \cup {}) \ rules
           /\ pc' = pc
  BY DEF FreeGrouperRules, Thread
<1>2. TypeOK /\ pc \in WithThreads /\ BranchInv(b) /\ StagesInv
  BY <1>1, ThreadRuns DEF RunningInv
<1>3. rules \subseteq live
  BY <1>1, <1>2, BranchHas
<1>4. /\ thread' = [thread EXCEPT ![b] = "filter rules"]
      /\ live' = live \ rules /\ pc' = pc
  BY <1>1, <1>3
<1>5. thread'[b] = "filter rules"
  BY <1>2, <1>4, ThreadFacts
<1>6. BranchInv(b)'
  BY <1>1, <1>2, <1>4, <1>5
     DEF BranchInv, Grouped, Filtered, options, GroupRules, AggregationRules, On, If
<1>7. live' \subseteq Objects
  BY <1>2, <1>4 DEF TypeOK
<1>8. \A object : object \notin Of(b, BranchKinds) =>
         (object \in live' <=> object \in live)
  BY <1>4 DEF Of, BranchKinds, GroupRules, AggregationRules, On, If
<1>9. /\ "filter rules" \in Grouped /\ "filter rules" \notin Filtered
      /\ "grouper" \in enabled => "filter" \in enabled
  BY <1>1, <1>2 DEF Grouped, Filtered, StagesInv
<1>10. QED
  BY <1>1, <1>4, <1>6, <1>7, <1>8, <1>9, ThreadStep

LEMMA InvFreeFilterRules ==
  ASSUME EngineInv, NEW b \in Branches, FreeFilterRules(b) PROVE EngineInv'
<1>1. /\ ~ Ended /\ thread[b] = "filter rules"
      /\ UNCHANGED <<options, enabled, i>>
      /\ FilterRules({b}) \subseteq live =>
           /\ thread' = [thread EXCEPT ![b] = "groupfilter"]
           /\ live' = (live \cup {}) \ FilterRules({b})
           /\ pc' = pc
  BY DEF FreeFilterRules, Thread
<1>2. TypeOK /\ pc \in WithThreads /\ BranchInv(b) /\ StagesInv
  BY <1>1, ThreadRuns DEF RunningInv
<1>3. FilterRules({b}) \subseteq live
  BY <1>1, <1>2, BranchHas
<1>4. /\ thread' = [thread EXCEPT ![b] = "groupfilter"]
      /\ live' = live \ FilterRules({b}) /\ pc' = pc
  BY <1>1, <1>3
<1>5. thread'[b] = "groupfilter"
  BY <1>2, <1>4, ThreadFacts
<1>6. BranchInv(b)'
  BY <1>1, <1>2, <1>4, <1>5
     DEF BranchInv, Grouped, Filtered, options, FilterRules, On, If
<1>7. live' \subseteq Objects
  BY <1>2, <1>4 DEF TypeOK
<1>8. \A object : object \notin Of(b, BranchKinds) =>
         (object \in live' <=> object \in live)
  BY <1>4 DEF Of, BranchKinds, FilterRules, On, If
<1>9. /\ "groupfilter" \in Grouped /\ "groupfilter" \notin Filtered
      /\ "grouper" \in enabled => "filter" \in enabled
  BY <1>1, <1>2 DEF Grouped, Filtered, StagesInv
<1>10. QED
  BY <1>1, <1>4, <1>6, <1>7, <1>8, <1>9, ThreadStep

LEMMA InvGroupFilter ==
  ASSUME EngineInv, NEW b \in Branches, GroupFilter(b) PROVE EngineInv'
<1> DEFINE needs == GroupFilterRules({b}) \cup Of(b, {"grouper_result", "aggr_result"})
                      \cup Shared({"io"})
<1>1. /\ ~ Ended /\ thread[b] = "groupfilter"
      /\ UNCHANGED <<options, enabled, i>>
      /\ IF On("groupfilter", needs) \subseteq live
         THEN /\ thread' = [thread EXCEPT ![b] = "groupfilter rules"]
              /\ live' = (live \cup On("groupfilter", Of(b, {"gfilter_result"}))) \ {}
              /\ pc' = pc
         ELSE pc' = "crashed" /\ live' = live /\ thread' = thread
  BY DEF GroupFilter, Thread
<1>2. /\ TypeOK /\ pc \in WithThreads /\ BranchInv(b) /\ ParsedInv /\ StagesInv
      /\ Shared({"io"}) \subseteq live
  BY <1>1, ThreadRuns DEF RunningInv
<1>3. On("groupfilter", needs) \subseteq live
        <=> ("groupfilter" \in enabled => "grouper" \in enabled)
  <2>1. "grouper" \in enabled => Of(b, {"grouper_result", "aggr_result"}) \subseteq live
    BY <1>1, <1>2, BranchHas
  <2>2. GroupFilterRules({b}) \subseteq live
    BY <1>1, <1>2, BranchHas
  <2>3. "grouper" \notin enabled => <<"grouper_result", b>> \notin live
    BY <1>2 DEF BranchInv
  <2>4. <<"grouper_result", b>> \in needs
    BY DEF Of
  <2>5. "grouper" \in enabled => needs \subseteq live
    BY <1>2, <2>1, <2>2
  <2>6. "groupfilter" \in enabled => On("groupfilter", needs) = needs
    BY DEF On, If
  <2>7. "groupfilter" \notin enabled => On("groupfilter", needs) = {}
    BY DEF On, If
  <2> HIDE DEF needs
  <2>8. QED
    BY <2>3, <2>4, <2>5, <2>6, <2>7
<1> HIDE DEF needs
<1>4. CASE On("groupfilter", needs) \subseteq live
  <2>1. /\ thread' = [thread EXCEPT ![b] = "groupfilter rules"] /\ pc' = pc
        /\ live' = live \cup On("groupfilter", Of(b, {"gfilter_result"}))
        /\ "groupfilter" \in enabled => "grouper" \in enabled
    BY <1>1, <1>3, <1>4
  <2>2. thread'[b] = "groupfilter rules"
    BY <1>2, <2>1, ThreadFacts
  <2>3. BranchInv(b)'
    BY <1>1, <1>2, <2>1, <2>2
       DEF BranchInv, Grouped, Filtered, options, On, If, Of, WithThreads
  <2>4. live' \subseteq Objects
    BY <1>2, <2>1 DEF TypeOK, On, If, Of, Objects, All, BranchKinds
  <2>5. \A object : object \notin Of(b, BranchKinds) =>
           (object \in live' <=> object \in live)
    BY <2>1 DEF On, If, Of, BranchKinds
  <2>6. /\ "groupfilter rules" \in Grouped
        /\ "grouper" \in enabled => "filter" \in enabled
    BY <1>1, <1>2 DEF Grouped, StagesInv
  <2>7. QED
    BY <1>1, <2>1, <2>3, <2>4, <2>5, <2>6, ThreadStep
<1>5. CASE ~ On("groupfilter", needs) \subseteq live
  <2>1. pc # "parse" /\ ~ Supported
    BY <1>2, <1>3, <1>5, SupportedIs DEF WithThreads
  <2>2. QED
    BY <1>1, <1>5, <2>1, Crash
<1>6. QED
  BY <1>4, <1>5

LEMMA InvFreeGroupFilterRules ==
  ASSUME EngineInv, NEW b \in Branches, FreeGroupFilterRules(b) PROVE EngineInv'
<1>1. /\ ~ Ended /\ thread[b] = "groupfilter rules"
      /\ UNCHANGED <<options, enabled, i>>
      /\ GroupFilterRules({b}) \subseteq live =>
           /\ thread' = [thread EXCEPT ![b] = "exited"]
           /\ live' = (live \cup {}) \ GroupFilterRules({b})
           /\ pc' = pc
  BY DEF FreeGroupFilterRules, Thread
<1>2. TypeOK /\ pc \in WithThreads /\ BranchInv(b) /\ StagesInv
  BY <1>1, ThreadRuns DEF RunningInv
<1>3. GroupFilterRules({b}) \subseteq live
  BY <1>1, <1>2, BranchHas
<1>4. /\ thread' = [thread EXCEPT ![b] = "exited"]
      /\ live' = live \ GroupFilterRules({b}) /\ pc' = pc
  BY <1>1, <1>3
<1>5. thread'[b] = "exited"
  BY <1>2, <1>4, ThreadFacts
<1>6. BranchInv(b)'
  BY <1>1, <1>2, <1>4, <1>5
     DEF BranchInv, Grouped, Filtered, options, GroupFilterRules, On, If
<1>7. live' \subseteq Objects
  BY <1>2, <1>4 DEF TypeOK
<1>8. \A object : object \notin Of(b, BranchKinds) =>
         (object \in live' <=> object \in live)
  BY <1>4 DEF Of, BranchKinds, GroupFilterRules, On, If
<1>9. /\ "exited" \in Grouped
      /\ "grouper" \in enabled => "filter" \in enabled
      /\ "groupfilter" \in enabled => "grouper" \in enabled
  BY <1>1, <1>2 DEF Grouped, Filtered, StagesInv
<1>10. QED
  BY <1>1, <1>4, <1>6, <1>7, <1>8, <1>9, ThreadStep

-----------------------------------------------------------------------------
(* main, from the threads on.                                              *)

LEMMA InvJoin ==
  ASSUME EngineInv, Join PROVE EngineInv'
<1>1. TypeOK /\ ParsedInv /\ ThreadsInv /\ StagesInv /\ SharedInv
      /\ \A b \in Branches : BranchInv(b)
  BY DEF EngineInv, RunningInv, Running, Join
<1>2. /\ pc = "join" /\ i <= NumBranches /\ i' = i + 1
      /\ thread[i] \in {"exited", "failed"}
      /\ pc' = IF thread[i] = "failed" THEN "aborted" ELSE pc
      /\ UNCHANGED <<query, verbose, file, enabled, live, thread>>
  BY DEF Join, options
<1>3. i \in Branches /\ i' \in 1 .. NumBranches + 1
  <2>1. i \in 1 .. NumBranches + 1
    BY <1>1 DEF TypeOK
  <2>2. QED
    BY <1>2, <2>1, BranchFacts DEF Branches
<1>4. thread[i] = "exited" /\ pc' = "join"
  BY <1>1, <1>2, <1>3 DEF ThreadsInv
<1>5. TypeOK'
  BY <1>1, <1>2, <1>3, <1>4 DEF TypeOK
<1>6. CrashesExactly' /\ ParsedInv'
  BY <1>1, <1>2, <1>4 DEF CrashesExactly, ParsedInv
<1>7. ThreadsInv'
  <2>1. \A b \in Branches : b < i' => b < i \/ b = i
    BY <1>2, <1>3, BranchFacts
  <2>2. \A b \in Branches : thread[b] # "none" /\ (b < i' => thread[b] = "exited")
    BY <1>1, <1>2, <1>4, <2>1 DEF ThreadsInv
  <2>3. QED
    BY <1>1, <1>2, <1>4, <2>2 DEF ThreadsInv, BeforeThreads, AfterThreads
<1>8. StagesInv' /\ SharedInv' /\ \A b \in Branches : BranchInv(b)'
  BY <1>1, <1>2, <1>4 DEF StagesInv, SharedInv, BranchInv
<1>9. QED
  BY <1>5, <1>6, <1>7, <1>8 DEF EngineInv, RunningInv

\* A part of main behind the threads, given what it does to the objects.
LEMMA MainStep ==
  ASSUME EngineInv, Running, \A b \in Branches : thread[b] = "exited",
         pc \in {"join"} \cup AfterThreads,
         NEW to \in AfterThreads, pc' = to,
         UNCHANGED <<options, enabled, i, thread>>,
         live' \subseteq Objects,
         SharedInv', \A b \in Branches : BranchInv(b)',
         to # "merge" /\ "merger" \in enabled => "groupfilter" \in enabled
  PROVE  EngineInv'
<1>1. TypeOK /\ ParsedInv /\ ThreadsInv /\ StagesInv
  BY DEF EngineInv, RunningInv
<1>2. UNCHANGED <<query, verbose, file, enabled, i, thread>>
  BY DEF options
<1>3. TypeOK'
  BY <1>1, <1>2 DEF TypeOK, AfterThreads
<1>4. ParsedInv' /\ ThreadsInv'
  BY <1>1, <1>2 DEF ParsedInv, ThreadsInv, BeforeThreads, AfterThreads
<1>5. StagesInv'
  BY <1>1, <1>2 DEF StagesInv, BeforeThreads, AfterThreads
<1>6. CrashesExactly'
  <2>1. pc' # "crashed"
    BY DEF AfterThreads
  <2>2. ASSUME pc' = "exited" PROVE Supported
    <3>1. thread[1] \in Grouped /\ thread[1] \in Filtered
      BY BranchFacts DEF Grouped, Filtered
    <3>2. /\ "grouper" \in enabled => "filter" \in enabled
          /\ "groupfilter" \in enabled => "grouper" \in enabled
          /\ verbose > 0 /\ file => "filter" \in enabled
      BY <1>1, <3>1, BranchFacts DEF StagesInv, BeforeThreads, AfterThreads
    <3>3. "merger" \in enabled => "groupfilter" \in enabled
      BY <2>2
    <3>4. pc # "parse"
      BY DEF AfterThreads
    <3>5. QED
      BY <1>1, <3>2, <3>3, <3>4, SupportedIs
  <2>3. Supported' = Supported
    BY <1>2 DEF Supported
  <2>4. QED
    BY <2>1, <2>2, <2>3 DEF CrashesExactly
<1>7. QED
  BY <1>3, <1>4, <1>5, <1>6 DEF EngineInv, RunningInv

\* What main has in its hands behind the threads.
LEMMA MainHas ==
  ASSUME EngineInv, pc \in AfterThreads
  PROVE  /\ TypeOK /\ Running /\ ParsedInv /\ StagesInv /\ SharedInv
         /\ \A b \in Branches : thread[b] = "exited" /\ b # 0 /\ BranchInv(b)
BY BranchFacts DEF EngineInv, RunningInv, Running, AfterThreads, ThreadsInv

\* The objects of all branches at once.
LEMMA AllIn ==
  ASSUME NEW kinds, \A kind \in kinds, b \in Branches : <<kind, b>> \in live
  PROVE  All(kinds) \subseteq live
BY DEF All

LEMMA InvEchoBranches ==
  ASSUME EngineInv, EchoBranches PROVE EngineInv'
<1> DEFINE uses == Shared({"threadset", "fquery", "io"}) \cup EchoReads
           frees == Shared({"threadset"})
                      \cup If(verbose > 1, On("grouper", All({"sorted_recordset"})))
<1>1. TypeOK /\ Running /\ ParsedInv /\ ThreadsInv /\ StagesInv /\ SharedInv
      /\ \A b \in Branches : BranchInv(b)
  BY DEF EngineInv, RunningInv, Running, EchoBranches, Main
<1>2. /\ pc = "join" /\ i > NumBranches
      /\ UNCHANGED <<options, enabled, i, thread>>
      /\ uses \subseteq live => pc' = "merge" /\ live' = (live \cup {}) \ frees
  BY DEF EchoBranches, Main
<1>3. \A b \in Branches : thread[b] = "exited" /\ b # 0
  <2>1. \A b \in Branches : b < i
    BY <1>1, <1>2, CounterFacts, BranchFacts
  <2>2. QED
    BY <1>1, <1>2, <2>1, BranchFacts DEF ThreadsInv
<1>4. "grouper" \in enabled => "filter" \in enabled
  <2>1. thread[1] \in Grouped
    BY <1>3, BranchFacts DEF Grouped
  <2>2. QED
    BY <1>1, <2>1, BranchFacts DEF StagesInv
<1>5. uses \subseteq live
  <2>1. Shared({"threadset", "fquery", "io"}) \subseteq live
    <3>1. /\ <<"threadset", 0>> \in live /\ <<"fquery", 0>> \in live
          /\ <<"io", 0>> \in live
      BY <1>1, <1>2 DEF SharedInv, WithThreads
    <3>2. QED
      BY <3>1 DEF Shared
  <2>2. \A b \in Branches :
          /\ "grouper" \in enabled => /\ <<"grouper_result", b>> \in live
                                      /\ <<"aggr_result", b>> \in live
                                      /\ <<"filter_result", b>> \in live
          /\ "groupfilter" \in enabled => <<"gfilter_result", b>> \in live
    BY <1>1, <1>2, <1>3, <1>4 DEF BranchInv, WithThreads, Grouped, Filtered
  <2>3. EchoReads \subseteq live
    <3>1. "grouper" \in enabled => /\ All({"grouper_result", "aggr_result"}) \subseteq live
                                   /\ All({"filter_result"}) \subseteq live
      BY <2>2, AllIn
    <3>2. "groupfilter" \in enabled => All({"gfilter_result"}) \subseteq live
      BY <2>2, AllIn
    <3>3. QED
      BY <3>1, <3>2 DEF EchoReads, If, On
  <2>4. QED
    BY <2>1, <2>3
<1>6. pc' = "merge" /\ live' = live \ frees
  BY <1>2, <1>5
<1> HIDE DEF uses
<1>7. live' \subseteq Objects
  BY <1>1, <1>6 DEF TypeOK
<1>8. SharedInv'
  BY <1>1, <1>2, <1>6, BranchFacts
     DEF SharedInv, Shared, BeforeThreads, WithThreads, AfterThreads, All, On, If
<1>9. ASSUME NEW b \in Branches PROVE BranchInv(b)'
  <2>1. thread[b] = "exited" /\ b # 0 /\ BranchInv(b)
    BY <1>1, <1>3
  <2>2. QED
    BY <1>2, <1>6, <2>1
       DEF BranchInv, Shared, WithThreads, AfterThreads, Grouped, Filtered, All, On, If
<1>10. "merge" \in AfterThreads
  BY DEF AfterThreads
<1>11. QED
  BY <1>1, <1>2, <1>3, <1>6, <1>7, <1>8, <1>9, <1>10, MainStep

LEMMA InvMerge ==
  ASSUME EngineInv, Merge PROVE EngineInv'
<1> DEFINE uses == On("merger",
             All({"gfilter_result", "grouper_result", "aggr_result"})
               \cup MergerRules \cup Shared({"fquery", "io"}))
<1>1. /\ pc = "merge" /\ UNCHANGED <<options, enabled, i, thread>>
      /\ IF uses \subseteq live
         THEN /\ pc' = "free aggregates"
              /\ live' = (live \cup On("merger", Shared({"merger_result"}))) \ MergerRules
         ELSE pc' = "crashed" /\ live' = live
  BY DEF Merge, Main
<1>2. /\ TypeOK /\ Running /\ ParsedInv /\ StagesInv /\ SharedInv
      /\ \A b \in Branches : thread[b] = "exited" /\ b # 0 /\ BranchInv(b)
  BY <1>1, MainHas DEF AfterThreads
<1>3. "groupfilter" \in enabled => "grouper" \in enabled
  <2>1. thread[1] \in Filtered
    BY <1>2, BranchFacts DEF Filtered
  <2>2. QED
    BY <1>2, <2>1, BranchFacts DEF StagesInv
<1>4. uses \subseteq live <=> ("merger" \in enabled => "groupfilter" \in enabled)
  <2>1. CASE "merger" \notin enabled
    BY <2>1 DEF On, If
  <2>2. CASE "merger" \in enabled /\ "groupfilter" \notin enabled
    <3>1. <<"gfilter_result", 1>> \in uses
      BY <2>2, BranchFacts DEF On, If, All
    <3>2. <<"gfilter_result", 1>> \notin live
      BY <1>2, <2>2, BranchFacts DEF BranchInv
    <3>3. QED
      BY <2>2, <3>1, <3>2
  <2>3. CASE "merger" \in enabled /\ "groupfilter" \in enabled
    <3>1. \A b \in Branches : /\ <<"grouper_result", b>> \in live
                              /\ <<"aggr_result", b>> \in live
                              /\ <<"gfilter_result", b>> \in live
      BY <1>1, <1>2, <1>3, <2>3 DEF BranchInv, WithThreads, Grouped, Filtered
    <3>2. /\ <<"merger_clauseset", 0>> \in live /\ <<"fquery", 0>> \in live
          /\ <<"io", 0>> \in live
      BY <1>1, <1>2, <2>3 DEF SharedInv, WithThreads, AfterThreads
    <3>3. QED
      <4>1. All({"gfilter_result", "grouper_result", "aggr_result"}) \subseteq live
        BY <3>1, AllIn
      <4>2. MergerRules \subseteq live /\ Shared({"fquery", "io"}) \subseteq live
        BY <3>2 DEF MergerRules, On, If, Shared
      <4>3. QED
        BY <2>3, <4>1, <4>2 DEF On, If
  <2>4. QED
    BY <2>1, <2>2, <2>3
<1>5. CASE uses \subseteq live
  <2>1. /\ pc' = "free aggregates"
        /\ live' = (live \cup On("merger", Shared({"merger_result"}))) \ MergerRules
        /\ "merger" \in enabled => "groupfilter" \in enabled
    BY <1>1, <1>4, <1>5
  <2> HIDE DEF uses
  <2>2. live' \subseteq Objects
    BY <1>2, <2>1 DEF TypeOK, Objects, Shared, SharedKinds, On, If
  <2>3. SharedInv'
    BY <1>1, <1>2, <2>1, BranchFacts
       DEF SharedInv, Shared, BeforeThreads, WithThreads, AfterThreads, MergerRules, On, If
  <2>4. ASSUME NEW b \in Branches PROVE BranchInv(b)'
    <3>1. thread[b] = "exited" /\ b # 0 /\ BranchInv(b)
      BY <1>2
    <3>2. QED
      BY <1>1, <2>1, <3>1
         DEF BranchInv, Shared, WithThreads, AfterThreads, Grouped, Filtered,
             MergerRules, On, If
  <2>5. "free aggregates" \in AfterThreads /\ "merge" \in AfterThreads
    BY DEF AfterThreads
  <2>6. QED
    BY <1>1, <1>2, <2>1, <2>2, <2>3, <2>4, <2>5, MainStep
<1>6. CASE ~ uses \subseteq live
  <2>1. ~ Supported
    BY <1>1, <1>2, <1>4, <1>6, SupportedIs
  <2>2. QED
    BY <1>1, <1>6, <2>1, Crash
<1>7. QED
  BY <1>5, <1>6

LEMMA InvFreeAggregates ==
  ASSUME EngineInv, FreeAggregates PROVE EngineInv'
<1> DEFINE freed == On("grouper", All({"aggr_result"}))
                      \cup On("groupfilter", All({"gfilter_result"}))
           uses == freed \cup On("grouper", All({"grouper_result"}))
<1>1. /\ pc = "free aggregates" /\ UNCHANGED <<options, enabled, i, thread>>
      /\ uses \subseteq live => pc' = "ungroup" /\ live' = (live \cup {}) \ freed
  BY DEF FreeAggregates, Main
<1>2. /\ TypeOK /\ Running /\ StagesInv /\ SharedInv
      /\ \A b \in Branches : thread[b] = "exited" /\ b # 0 /\ BranchInv(b)
  BY <1>1, MainHas DEF AfterThreads
<1>3. uses \subseteq live
  <2>1. \A b \in Branches :
          /\ "grouper" \in enabled => /\ <<"grouper_result", b>> \in live
                                      /\ <<"aggr_result", b>> \in live
          /\ "groupfilter" \in enabled => <<"gfilter_result", b>> \in live
    BY <1>1, <1>2 DEF BranchInv, Grouped, Filtered
  <2>2. QED
    <3>1. "grouper" \in enabled => /\ All({"grouper_result"}) \subseteq live
                                   /\ All({"aggr_result"}) \subseteq live
      BY <2>1, AllIn
    <3>2. "groupfilter" \in enabled => All({"gfilter_result"}) \subseteq live
      BY <2>1, AllIn
    <3>3. QED
      BY <3>1, <3>2 DEF On, If
<1>4. pc' = "ungroup" /\ live' = live \ freed
  BY <1>1, <1>3
<1>5. live' \subseteq Objects
  BY <1>2, <1>4 DEF TypeOK
<1>6. SharedInv'
  BY <1>1, <1>2, <1>4, BranchFacts
     DEF SharedInv, BeforeThreads, WithThreads, AfterThreads, All, On, If
<1>7. ASSUME NEW b \in Branches PROVE BranchInv(b)'
  <2>1. thread[b] = "exited" /\ b # 0 /\ BranchInv(b)
    BY <1>2
  <2>2. QED
    BY <1>1, <1>4, <2>1
       DEF BranchInv, WithThreads, AfterThreads, Grouped, Filtered, All, On, If
<1>8. /\ "ungroup" \in AfterThreads /\ "free aggregates" \in AfterThreads
      /\ "merger" \in enabled => "groupfilter" \in enabled
  BY <1>1, <1>2 DEF AfterThreads, StagesInv
<1>9. QED
  BY <1>1, <1>2, <1>4, <1>5, <1>6, <1>7, <1>8, MainStep

LEMMA InvUngroup ==
  ASSUME EngineInv, Ungroup PROVE EngineInv'
<1> DEFINE uses == On("ungrouper",
             On("merger", Shared({"merger_result"}) \cup All({"grouper_result"}))
               \cup Shared({"recordset", "io"}))
<1>1. /\ pc = "ungroup" /\ UNCHANGED <<options, enabled, i, thread>>
      /\ uses \subseteq live =>
           /\ pc' = "free groups"
           /\ live' = (live \cup On("ungrouper", Shared({"ungrouper_result"}))) \ {}
  BY DEF Ungroup, Main
<1>2. /\ TypeOK /\ Running /\ StagesInv /\ SharedInv
      /\ \A b \in Branches : thread[b] = "exited" /\ b # 0 /\ BranchInv(b)
  BY <1>1, MainHas DEF AfterThreads
<1>3. "merger" \in enabled => "groupfilter" \in enabled /\ "grouper" \in enabled
  <2>1. thread[1] \in Filtered
    BY <1>2, BranchFacts DEF Filtered
  <2>2. QED
    BY <1>1, <1>2, <2>1, BranchFacts DEF StagesInv, AfterThreads
<1>4. uses \subseteq live
  <2>1. /\ "merger" \in enabled => <<"merger_result", 0>> \in live
        /\ <<"recordset", 0>> \in live /\ <<"io", 0>> \in live
    BY <1>1, <1>2 DEF SharedInv, WithThreads, AfterThreads
  <2>2. \A b \in Branches : "merger" \in enabled => <<"grouper_result", b>> \in live
    BY <1>1, <1>2, <1>3 DEF BranchInv, Grouped
  <2>3. QED
    BY <2>1, <2>2 DEF On, If, All, Shared
<1>5. /\ pc' = "free groups"
      /\ live' = live \cup On("ungrouper", Shared({"ungrouper_result"}))
  BY <1>1, <1>4
<1> HIDE DEF uses
<1>6. live' \subseteq Objects
  BY <1>2, <1>5 DEF TypeOK, Objects, Shared, SharedKinds, On, If
<1>7. SharedInv'
  BY <1>1, <1>2, <1>5
     DEF SharedInv, Shared, BeforeThreads, WithThreads, AfterThreads, On, If
<1>8. ASSUME NEW b \in Branches PROVE BranchInv(b)'
  <2>1. thread[b] = "exited" /\ b # 0 /\ BranchInv(b)
    BY <1>2
  <2>2. QED
    BY <1>1, <1>5, <2>1
       DEF BranchInv, Shared, WithThreads, AfterThreads, Grouped, Filtered, On, If
<1>9. "ungroup" \in AfterThreads /\ "free groups" \in AfterThreads
  BY DEF AfterThreads
<1>10. QED
  BY <1>1, <1>2, <1>3, <1>5, <1>6, <1>7, <1>8, <1>9, MainStep

LEMMA InvFreeGroups ==
  ASSUME EngineInv, FreeGroups PROVE EngineInv'
<1> DEFINE freed == On("grouper", All({"grouper_result"}))
                      \cup On("merger", Shared({"merger_result"}))
<1>1. /\ pc = "free groups" /\ UNCHANGED <<options, enabled, i, thread>>
      /\ freed \subseteq live => pc' = "free filter" /\ live' = (live \cup {}) \ freed
  BY DEF FreeGroups, Main
<1>2. /\ TypeOK /\ Running /\ StagesInv /\ SharedInv
      /\ \A b \in Branches : thread[b] = "exited" /\ b # 0 /\ BranchInv(b)
  BY <1>1, MainHas DEF AfterThreads
<1>3. freed \subseteq live
  <2>1. "merger" \in enabled => <<"merger_result", 0>> \in live
    BY <1>1, <1>2 DEF SharedInv
  <2>2. \A b \in Branches : "grouper" \in enabled => <<"grouper_result", b>> \in live
    BY <1>1, <1>2 DEF BranchInv, Grouped
  <2>3. QED
    BY <2>1, <2>2 DEF On, If, All, Shared
<1>4. pc' = "free filter" /\ live' = live \ freed
  BY <1>1, <1>3
<1>5. live' \subseteq Objects
  BY <1>2, <1>4 DEF TypeOK
<1>6. SharedInv'
  BY <1>1, <1>2, <1>4, BranchFacts
     DEF SharedInv, Shared, BeforeThreads, WithThreads, AfterThreads, All, On, If
<1>7. ASSUME NEW b \in Branches PROVE BranchInv(b)'
  <2>1. thread[b] = "exited" /\ b # 0 /\ BranchInv(b)
    BY <1>2
  <2>2. QED
    BY <1>1, <1>4, <2>1
       DEF BranchInv, Shared, WithThreads, AfterThreads, Grouped, Filtered, All, On, If
<1>8. /\ "free groups" \in AfterThreads /\ "free filter" \in AfterThreads
      /\ "merger" \in enabled => "groupfilter" \in enabled
  BY <1>1, <1>2 DEF AfterThreads, StagesInv
<1>9. QED
  BY <1>1, <1>2, <1>4, <1>5, <1>6, <1>7, <1>8, MainStep

LEMMA InvFreeRest ==
  ASSUME EngineInv, FreeRest PROVE EngineInv'
<1> DEFINE freed == On("ungrouper", Shared({"ungrouper_result"}))
                      \cup On("filter", All({"filter_result"}))
                      \cup Shared({"params", "fquery", "io", "recordset"})
<1>1. /\ pc = "free filter" /\ UNCHANGED <<options, enabled, i, thread>>
      /\ freed \subseteq live => pc' = "exited" /\ live' = (live \cup {}) \ freed
  BY DEF FreeRest, Main
<1>2. /\ TypeOK /\ Running /\ StagesInv /\ SharedInv
      /\ \A b \in Branches : thread[b] = "exited" /\ b # 0 /\ BranchInv(b)
  BY <1>1, MainHas DEF AfterThreads
<1>3. freed \subseteq live
  <2>1. /\ "ungrouper" \in enabled => <<"ungrouper_result", 0>> \in live
        /\ <<"params", 0>> \in live /\ <<"fquery", 0>> \in live
        /\ <<"io", 0>> \in live /\ <<"recordset", 0>> \in live
    BY <1>1, <1>2 DEF SharedInv, BeforeThreads, WithThreads, AfterThreads
  <2>2. \A b \in Branches : "filter" \in enabled => <<"filter_result", b>> \in live
    BY <1>1, <1>2 DEF BranchInv, Grouped, AfterThreads
  <2>3. QED
    BY <2>1, <2>2 DEF On, If, All, Shared
<1>4. pc' = "exited" /\ live' = live \ freed
  BY <1>1, <1>3
<1>5. live' \subseteq Objects
  BY <1>2, <1>4 DEF TypeOK
<1>6. SharedInv'
  BY <1>1, <1>2, <1>4, BranchFacts
     DEF SharedInv, Shared, BeforeThreads, WithThreads, AfterThreads, All, On, If
<1>7. ASSUME NEW b \in Branches PROVE BranchInv(b)'
  <2>1. thread[b] = "exited" /\ b # 0 /\ BranchInv(b)
    BY <1>2
  <2>2. QED
    BY <1>1, <1>4, <2>1
       DEF BranchInv, Shared, WithThreads, AfterThreads, Grouped, Filtered, All, On, If
<1>8. /\ "free filter" \in AfterThreads /\ "exited" \in AfterThreads
      /\ "merger" \in enabled => "groupfilter" \in enabled
  BY <1>1, <1>2 DEF AfterThreads, StagesInv
<1>9. QED
  BY <1>1, <1>2, <1>4, <1>5, <1>6, <1>7, <1>8, MainStep

LEMMA InvAbort ==
  ASSUME EngineInv, Abort PROVE EngineInv'
<1>1. pc' = "aborted" /\ UNCHANGED <<query, verbose, file, enabled, live, i, thread>>
  BY DEF Abort, options
<1>2. TypeOK'
  BY <1>1 DEF EngineInv, TypeOK
<1>3. QED
  BY <1>1, <1>2 DEF EngineInv, CrashesExactly, Running

LEMMA InvStutter ==
  ASSUME EngineInv, UNCHANGED vars PROVE EngineInv'
<1>1. UNCHANGED <<query, verbose, file, enabled, live, i, thread, pc>>
  BY DEF vars, options
<1>2. TypeOK' /\ CrashesExactly'
  BY <1>1 DEF EngineInv, TypeOK, CrashesExactly, Supported
<1>3. Running' => Running
  BY <1>1 DEF Running
<1>4. RunningInv => RunningInv'
  <2>1. ParsedInv' = ParsedInv /\ ThreadsInv' = ThreadsInv /\ StagesInv' = StagesInv
    BY <1>1 DEF ParsedInv, ThreadsInv, StagesInv
  <2>2. SharedInv => SharedInv'
    BY <1>1 DEF SharedInv
  <2>3. ASSUME NEW b \in Branches, BranchInv(b) PROVE BranchInv(b)'
    BY <1>1, <2>3 DEF BranchInv
  <2>4. QED
    BY <2>1, <2>2, <2>3 DEF RunningInv
<1>5. QED
  BY <1>2, <1>3, <1>4 DEF EngineInv

LEMMA InvNext == EngineInv /\ [Next]_vars => EngineInv'
BY InvParseBranch, InvParseRest, InvPrepare, InvReadTrace, InvSpawn, InvAllSpawned,
   InvJoin, InvEchoBranches, InvMerge, InvFreeAggregates, InvUngroup, InvFreeGroups,
   InvFreeRest, InvCheckFilter, InvGrouper, InvFreeGrouperRules, InvFreeFilterRules,
   InvGroupFilter, InvFreeGroupFilterRules, InvAbort, InvStutter
   DEF Next, MainNext, ThreadNext

-----------------------------------------------------------------------------
(* The theorems.                                                           *)

\* The objects are exactly those that the places of main and the threads tell.
THEOREM Invariance == Spec => []EngineInv
<1>1. Init => EngineInv
  BY InvInit
<1>2. EngineInv /\ [Next]_vars => EngineInv'
  BY InvNext
<1>3. QED
  BY <1>1, <1>2, PTL DEF Spec

\* The variables keep their types.
THEOREM TypeCorrect == Spec => []TypeOK
<1>1. EngineInv => TypeOK
  BY DEF EngineInv
<1>2. QED
  BY <1>1, Invariance, PTL

\* No supported query uses an object that is not there, in any order of the
\* threads of any number of branches, and no other query gets through.
THEOREM CrashesCorrect == Spec => []CrashesExactly
<1>1. EngineInv => CrashesExactly
  BY DEF EngineInv
<1>2. QED
  BY <1>1, Invariance, PTL

\* A process that ends normally has freed everything, but for the sorted
\* records of the earlier clauses.
THEOREM FreesCorrect == Spec => []FreesAll
<1>1. ASSUME EngineInv PROVE FreesAll
  <2>1. SUFFICES ASSUME pc = "exited", NEW object \in live
                 PROVE  object \in All({"earlier_sorted"})
    BY DEF FreesAll
  <2>2. TypeOK /\ RunningInv
    BY <1>1, <2>1 DEF EngineInv, Running
  <2>3. CASE object \in Shared(SharedKinds)
    <3>1. PICK kind \in SharedKinds : object = <<kind, 0>>
      BY <2>3 DEF Shared
    <3>2. QED
      BY <2>1, <2>2, <3>1 DEF RunningInv, SharedInv, SharedKinds,
         BeforeThreads, WithThreads, AfterThreads
  <2>4. CASE object \in All(BranchKinds)
    <3>1. PICK kind \in BranchKinds, b \in Branches : object = <<kind, b>>
      BY <2>4 DEF All
    <3>2. BranchInv(b)
      BY <2>2 DEF RunningInv
    <3>3. kind = "earlier_sorted"
      BY <2>1, <3>1, <3>2 DEF BranchInv, BranchKinds, WithThreads, AfterThreads
    <3>4. QED
      BY <3>1, <3>3 DEF All
  <2>5. QED
    BY <2>2, <2>3, <2>4 DEF TypeOK, Objects
<1>2. QED
  BY <1>1, Invariance, PTL

\* A thread leaves to main the results of its branch, and none of its rules.
THEOREM HandedOverCorrect == Spec => []BranchHandedOver
<1>1. ASSUME EngineInv PROVE BranchHandedOver
  <2>1. SUFFICES ASSUME NEW b \in Branches, thread[b] = "exited", pc = "join"
                 PROVE  (live \cap Of(b, BranchKinds))
                            \ Of(b, {"sorted_recordset", "earlier_sorted"})
                          = On("filter", Of(b, {"filter_result"}))
                              \cup On("grouper", Of(b, {"grouper_result", "aggr_result"}))
                              \cup On("groupfilter", Of(b, {"gfilter_result"}))
    BY DEF BranchHandedOver
  <2>2. BranchInv(b)
    BY <1>1, <2>1 DEF EngineInv, RunningInv, Running
  <2> DEFINE left == (live \cap Of(b, BranchKinds))
                       \ Of(b, {"sorted_recordset", "earlier_sorted"})
             due == On("filter", Of(b, {"filter_result"}))
                      \cup On("grouper", Of(b, {"grouper_result", "aggr_result"}))
                      \cup On("groupfilter", Of(b, {"gfilter_result"}))
  <2>3. ASSUME NEW kind PROVE <<kind, b>> \in left <=> <<kind, b>> \in due
    BY <2>1, <2>2 DEF BranchInv, BranchKinds, Of, On, If, WithThreads, Grouped, Filtered
  <2>4. \A object \in left \cup due : \E kind : object = <<kind, b>>
    BY DEF Of, On, If
  <2> HIDE DEF left, due
  <2>5. left = due
    BY <2>3, <2>4
  <2>6. QED
    BY <2>5 DEF left, due
<1>2. QED
  BY <1>1, Invariance, PTL

\* While a thread that runs stands still, nothing that happens elsewhere touches
\* the objects of its branch.
LEMMA OwnedByMain ==
  ASSUME EngineInv, MainNext, NEW b \in Branches, thread[b] \notin {"none", "exited"}
  PROVE  live' = live
<1>1. pc \notin BeforeThreads
  BY DEF EngineInv, RunningInv, Running, ThreadsInv, BeforeThreads
<1>2. pc \notin AfterThreads
  BY DEF EngineInv, RunningInv, Running, ThreadsInv, AfterThreads
<1>3. ~ EchoBranches
  <2>1. SUFFICES ASSUME EchoBranches PROVE FALSE
    OBVIOUS
  <2>2. pc = "join" /\ i > NumBranches
    BY <2>1 DEF EchoBranches, Main
  <2>3. TypeOK /\ ThreadsInv
    BY <2>2 DEF EngineInv, RunningInv, Running
  <2>4. b < i
    BY <2>2, <2>3, CounterFacts, BranchFacts
  <2>5. QED
    BY <2>2, <2>3, <2>4 DEF ThreadsInv
<1>4. Spawn \/ AllSpawned \/ Join
  BY <1>1, <1>2, <1>3
     DEF MainNext, BeforeThreads, AfterThreads, ParseBranch, ParseRest, Prepare,
         ReadTrace, Merge, FreeAggregates, Ungroup, FreeGroups, FreeRest, Main
<1>5. QED
  BY <1>4 DEF Spawn, AllSpawned, Join

LEMMA ThreadTouches ==
  ASSUME NEW b \in Branches, live' = live \/ thread'[b] # thread[b],
         \A object : object \notin Of(b, BranchKinds) =>
           (object \in live' <=> object \in live),
         NEW c \in Branches, thread'[c] = thread[c]
  PROVE  live' \cap Of(c, BranchKinds) = live \cap Of(c, BranchKinds)
<1>1. CASE live' = live
  BY <1>1
<1>2. CASE thread'[b] # thread[b]
  <2>1. c # b
    BY <1>2
  <2>2. \A object \in Of(c, BranchKinds) : object \notin Of(b, BranchKinds)
    BY <2>1 DEF Of
  <2>3. QED
    BY <2>2
<1>3. QED
  BY <1>1, <1>2

LEMMA OwnedByThreads ==
  ASSUME TypeOK, NEW b \in Branches, ThreadNext(b),
         NEW c \in Branches, thread'[c] = thread[c]
  PROVE  live' \cap Of(c, BranchKinds) = live \cap Of(c, BranchKinds)
<1> SUFFICES ASSUME live' # live
             PROVE  live' \cap Of(c, BranchKinds) = live \cap Of(c, BranchKinds)
  OBVIOUS
<1>1. CASE CheckFilter(b)
  BY <1>1 DEF CheckFilter, Thread
<1>2. CASE Grouper(b)
  <2>1. PICK sorted \in SortedRecords(b) :
          /\ thread[b] = "grouper"
          /\ thread' = [thread EXCEPT ![b] = "grouper rules"]
          /\ live' = live \cup On("grouper",
                     sorted \cup Of(b, {"grouper_result", "aggr_result"}))
    BY <1>2 DEF Grouper, Thread
  <2>2. sorted \subseteq Of(b, BranchKinds)
    BY DEF SortedRecords, If, Of, BranchKinds
  <2>3. thread'[b] = "grouper rules"
    BY <2>1, ThreadFacts
  <2>4. \A object : object \notin Of(b, BranchKinds) =>
           (object \in live' <=> object \in live)
    BY <2>1, <2>2 DEF On, If, Of, BranchKinds
  <2>5. QED
    BY <2>1, <2>3, <2>4, ThreadTouches
<1>3. CASE FreeGrouperRules(b)
  <2>1. /\ thread[b] = "grouper rules"
        /\ thread' = [thread EXCEPT ![b] = "filter rules"]
        /\ live' = live \ (GroupRules({b}) \cup AggregationRules({b}))
    BY <1>3 DEF FreeGrouperRules, Thread
  <2>2. thread'[b] = "filter rules"
    BY <2>1, ThreadFacts
  <2>3. \A object : object \notin Of(b, BranchKinds) =>
           (object \in live' <=> object \in live)
    BY <2>1 DEF GroupRules, AggregationRules, On, If, Of, BranchKinds
  <2>4. QED
    BY <2>1, <2>2, <2>3, ThreadTouches
<1>4. CASE FreeFilterRules(b)
  <2>1. /\ thread[b] = "filter rules"
        /\ thread' = [thread EXCEPT ![b] = "groupfilter"]
        /\ live' = live \ FilterRules({b})
    BY <1>4 DEF FreeFilterRules, Thread
  <2>2. thread'[b] = "groupfilter"
    BY <2>1, ThreadFacts
  <2>3. \A object : object \notin Of(b, BranchKinds) =>
           (object \in live' <=> object \in live)
    BY <2>1 DEF FilterRules, On, If, Of, BranchKinds
  <2>4. QED
    BY <2>1, <2>2, <2>3, ThreadTouches
<1>5. CASE GroupFilter(b)
  <2>1. /\ thread[b] = "groupfilter"
        /\ thread' = [thread EXCEPT ![b] = "groupfilter rules"]
        /\ live' = live \cup On("groupfilter", Of(b, {"gfilter_result"}))
    BY <1>5 DEF GroupFilter, Thread
  <2>2. thread'[b] = "groupfilter rules"
    BY <2>1, ThreadFacts
  <2>3. \A object : object \notin Of(b, BranchKinds) =>
           (object \in live' <=> object \in live)
    BY <2>1 DEF On, If, Of, BranchKinds
  <2>4. QED
    BY <2>1, <2>2, <2>3, ThreadTouches
<1>6. CASE FreeGroupFilterRules(b)
  <2>1. /\ thread[b] = "groupfilter rules"
        /\ thread' = [thread EXCEPT ![b] = "exited"]
        /\ live' = live \ GroupFilterRules({b})
    BY <1>6 DEF FreeGroupFilterRules, Thread
  <2>2. thread'[b] = "exited"
    BY <2>1, ThreadFacts
  <2>3. \A object : object \notin Of(b, BranchKinds) =>
           (object \in live' <=> object \in live)
    BY <2>1 DEF GroupFilterRules, On, If, Of, BranchKinds
  <2>4. QED
    BY <2>1, <2>2, <2>3, ThreadTouches
<1>7. QED
  BY <1>1, <1>2, <1>3, <1>4, <1>5, <1>6 DEF ThreadNext

\* From its start to its end a branch belongs to its thread: neither main nor
\* another thread allocates or frees any of its objects.
THEOREM OwnedCorrect == Spec => BranchOwned
<1> DEFINE Owned ==
      \A b \in Branches :
        thread[b] \notin {"none", "exited"} /\ thread'[b] = thread[b]
          => live' \cap Of(b, BranchKinds) = live \cap Of(b, BranchKinds)
<1>1. ASSUME EngineInv, [Next]_vars PROVE [Owned]_vars
  <2>1. SUFFICES ASSUME NEW b \in Branches, thread[b] \notin {"none", "exited"},
                        thread'[b] = thread[b]
                 PROVE  live' \cap Of(b, BranchKinds) = live \cap Of(b, BranchKinds)
    BY Zenon DEF Owned
  <2>2. TypeOK
    BY <1>1 DEF EngineInv
  <2>3. CASE MainNext
    BY <1>1, <2>1, <2>3, OwnedByMain
  <2>4. CASE \E c \in Branches : ThreadNext(c)
    BY <2>1, <2>2, <2>4, OwnedByThreads
  <2>5. CASE Abort
    BY <2>5 DEF Abort
  <2>6. CASE UNCHANGED vars
    BY <2>6 DEF vars
  <2>7. QED
    BY <1>1, <2>3, <2>4, <2>5, <2>6 DEF Next
<1>2. EngineInv /\ [Next]_vars => [Owned]_vars
  BY <1>1
<1>3. QED
  BY <1>2, Invariance, PTL DEF Spec, BranchOwned
=============================================================================
