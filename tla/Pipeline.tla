------------------------------ MODULE Pipeline ------------------------------
(***************************************************************************)
(* From the groups to the streams: the last stage of the branch threads    *)
(* (src/src/branch.c) and the two stages main(...) of src/src/f.c runs     *)
(* behind them, composed of the modules GroupFilter, Merger and Ungrouper. *)
(*                                                                         *)
(* The three name a group in three ways: by its place in the groupset of   *)
(* its branch, by its place in the filtered groupset, and by its address,  *)
(* here the pair of its branch and its place in the groupset. The          *)
(* substitutions of the instances go from one to the next.                 *)
(***************************************************************************)
EXTENDS Naturals, Sequences, FiniteSets

CONSTANTS
  NumBranches,   \* the length of "branchset"
  MaxGroups,     \* bound on the number of groups of a branch
  Members,       \* Members[g]: the records of the group g = <<branch, place>>
  FilterRules,   \* the group filters tried: sequences of clauses
  MergerRules,   \* the mergers tried: sequences of clauses
  IndexRange     \* the number of values of "unsigned int"

Branches == 1 .. NumBranches
Groups   == 1 .. MaxGroups
MergerTerm == [branch1 : Branches, branch2 : Branches,
               func : SUBSET (Groups \X Groups)]

ASSUME PipelineAssumption ==
  /\ NumBranches \in Nat \ {0}
  /\ MaxGroups \in Nat
  /\ Members \in [Branches \X Groups -> Seq(Nat)]
  /\ FilterRules \subseteq Seq(Seq(SUBSET Groups))
  /\ MergerRules \subseteq Seq(Seq(MergerTerm))
  /\ IndexRange \in Nat \ {0}

VARIABLES
  stage,          \* what main does: "join", "merger" or "ungrouper"
  num_groups, groupfilter_clauseset, filtered_groupset, group_file,
  g_i, g_k, g_returned,                               \* of GroupFilter
  merger_clauseset,                                   \* in terms of Groups
  m_pc, tuple, index, m_k, clause, group_tuples, total, to_be_merged,
  u_i, u_j, recordset, streamset, stream_files, u_returned

GF == INSTANCE GroupFilter WITH i <- g_i, k <- g_k, returned <- g_returned

Filtered(b, n) == filtered_groupset[b][n]
NumFiltered    == [b \in Branches |-> Len(filtered_groupset[b])]

\* What the merger's comparators say of the filtered groups.
OnFiltered(term) ==
  [term EXCEPT !.func =
     {p \in (1 .. NumFiltered[term.branch1])
              \X (1 .. NumFiltered[term.branch2]) :
        <<Filtered(term.branch1, p[1]), Filtered(term.branch2, p[2])>>
          \in term.func}]

M == INSTANCE Merger WITH
  Queries <- Seq(Seq(MergerTerm)),
  num_filtered_groups <- NumFiltered,
  merger_clauseset <- [c \in DOMAIN merger_clauseset |->
                         [n \in DOMAIN merger_clauseset[c] |->
                            OnFiltered(merger_clauseset[c][n])]],
  pc <- m_pc, k <- m_k

\* The result of the merger points to the groups themselves.
MatchedTuple(t) == [b \in Branches |-> <<b, Filtered(b, t[b])>>]

U == INSTANCE Ungrouper WITH
  members <- Members,
  group_tuples <- [n \in DOMAIN group_tuples |-> MatchedTuple(group_tuples[n])],
  i <- u_i, j <- u_j, returned <- u_returned

query      == <<num_groups, groupfilter_clauseset, merger_clauseset>>
filtering  == <<filtered_groupset, group_file, g_i, g_k, g_returned>>
merging    == <<m_pc, tuple, index, m_k, clause, group_tuples, total,
                to_be_merged>>
ungrouping == <<u_i, u_j, recordset, streamset, stream_files, u_returned>>
vars       == <<query, stage, filtering, merging, ungrouping>>

Init ==
  /\ num_groups \in [Branches -> 0 .. MaxGroups]
  /\ groupfilter_clauseset \in [Branches -> FilterRules]
  /\ merger_clauseset \in MergerRules
  /\ stage = "join"
  /\ GF!Init /\ M!Init /\ U!Init

\* The thread of the branch b, of which only the group filter is modelled.
Thread(b) ==
  /\ GF!Next(b)
  /\ UNCHANGED <<query, stage, merging, ungrouping>>

\* A mutant of Join: main does not wait for the last thread.
JoinButLast ==
  /\ stage = "join"
  /\ \A b \in Branches : b < NumBranches => b \in g_returned
  /\ stage' = "merger"
  /\ UNCHANGED <<query, filtering, merging, ungrouping>>

Join ==
  /\ stage = "join"
  /\ Branches \subseteq g_returned
  /\ stage' = "merger"
  /\ UNCHANGED <<query, filtering, merging, ungrouping>>

Merge ==
  /\ stage = "merger"
  /\ UNCHANGED <<query, filtering, ungrouping>>
  /\ M!Next
  /\ stage' = IF m_pc' = "done" THEN "ungrouper" ELSE stage

Ungroup ==
  /\ stage = "ungrouper"
  /\ UNCHANGED <<query, stage, filtering, merging>>
  /\ U!Next

Next == (\E b \in Branches : Thread(b)) \/ Join \/ Merge \/ Ungroup

\* The system schedules every thread, and main when it can go on.
Fairness ==
  WF_vars(Join \/ Merge \/ Ungroup) /\ \A b \in Branches : WF_vars(Thread(b))

Spec == Init /\ [][Next]_vars /\ Fairness

-----------------------------------------------------------------------------
(* What the query asks for, in terms of the groups alone.                  *)

PassesGroupFilter(b, g) ==
  \E c \in DOMAIN groupfilter_clauseset[b] :
    \A n \in DOMAIN groupfilter_clauseset[b][c] :
      g \in groupfilter_clauseset[b][c][n]

\* As in the module Merger, only the first clause can make a tuple match.
PassesMerger(t) ==
  merger_clauseset # <<>> =>
    \A n \in DOMAIN merger_clauseset[1] :
      LET term == merger_clauseset[1][n]
      IN <<t[term.branch1], t[term.branch2]>> \in term.func

WantedTuples ==
  {t \in [Branches -> Groups] :
     /\ \A b \in Branches : t[b] <= num_groups[b] /\ PassesGroupFilter(b, t[b])
     /\ PassesMerger(t)}

\* t is before u in the order in which their streams come out.
Precedes(t, u) ==
  \E b \in Branches : t[b] < u[b] /\ \A c \in 1 .. b - 1 : t[c] = u[c]

\* The records of the groups of t, one branch after the other: up to the
\* branch b, and all of them.
Unfolding(t) ==
  LET upto[b \in 0 .. NumBranches] ==
        IF b = 0 THEN <<>> ELSE upto[b - 1] \o Members[<<b, t[b]>>]
  IN upto

Unfolded(t) == Unfolding(t)[NumBranches]

-----------------------------------------------------------------------------
(* Properties                                                              *)

TypeOK ==
  /\ num_groups \in [Branches -> 0 .. MaxGroups]
  /\ groupfilter_clauseset \in [Branches -> FilterRules]
  /\ merger_clauseset \in MergerRules
  /\ stage \in {"join", "merger", "ungrouper"}
  /\ GF!TypeOK /\ M!TypeOK /\ U!TypeOK

\* In the end there is one stream for every tuple of groups that pass the
\* group filters of their branches and together pass the merger, in the order
\* of the groups, and it holds the members of all the groups of its tuple:
\* no stage loses, repeats or misattributes what the one before it has left.
AnswerExact ==
  u_returned =>
    /\ Len(streamset) = Cardinality(WantedTuples)
    /\ \A t \in WantedTuples :
         LET before == {u \in WantedTuples : Precedes(u, t)}
         IN streamset[Cardinality(before) + 1] = Unfolded(t)

\* What the files show in the end is what the engine has computed: the groups
\* that went on to the merger, and the streams.
FilesAgree ==
  /\ stage # "join" => group_file = filtered_groupset
  /\ u_returned => stream_files = streamset

\* Threads and main come to an end.
Answered == <>u_returned

-----------------------------------------------------------------------------
(* The invariant from which the safety properties follow: what the filter  *)
(* of a branch has kept of the groups it has come past, which stage has    *)
(* begun, and what the streams hold of the tuples.                         *)

FilterInv(b) ==
  /\ g_i[b] \in 1 .. num_groups[b] + 1
  /\ g_k[b] \in 1 .. Len(groupfilter_clauseset[b]) + 1
  /\ filtered_groupset[b] \in Seq(Groups)
  /\ Len(filtered_groupset[b]) < g_i[b]
  /\ {filtered_groupset[b][n] : n \in DOMAIN filtered_groupset[b]}
       = {g \in 1 .. g_i[b] - 1 : PassesGroupFilter(b, g)}
  /\ \A m, n \in DOMAIN filtered_groupset[b] :
       m < n => filtered_groupset[b][m] < filtered_groupset[b][n]
  /\ \A c \in 1 .. g_k[b] - 1 : ~ GF!ClauseHolds(b, c, g_i[b])
  /\ b \in g_returned => g_i[b] = num_groups[b] + 1

FiltersInv ==
  /\ g_i \in [Branches -> Nat] /\ g_k \in [Branches -> Nat]
  /\ filtered_groupset \in [Branches -> Seq(Nat)]
  /\ group_file = filtered_groupset
  /\ g_returned \subseteq Branches
  /\ \A b \in Branches : FilterInv(b)

StageInv ==
  /\ stage = "join" => M!Init
  /\ stage # "join" => Branches \subseteq g_returned /\ M!MergerInv
  /\ stage # "ungrouper" => U!Init
  /\ stage = "ungrouper" => m_pc = "done"

\* The groups of a tuple of the merger, by their places in the groupsets.
Taken(t) == [b \in Branches |-> Filtered(b, t[b])]

UngroupInv ==
  /\ U!TypeOK
  /\ u_j > 0 => u_i <= Len(group_tuples)
  /\ u_returned => u_i = Len(group_tuples) + 1 /\ u_j = 0
  /\ Len(streamset) = u_i - 1
  /\ \A n \in 1 .. u_i - 1 : streamset[n] = Unfolded(Taken(group_tuples[n]))
  /\ u_j > 0 => recordset = Unfolding(Taken(group_tuples[u_i]))[u_j - 1]
  /\ stream_files = IF u_j > 0 THEN Append(streamset, recordset) ELSE streamset

PipelineInv ==
  /\ num_groups \in [Branches -> 0 .. MaxGroups]
  /\ groupfilter_clauseset \in [Branches -> FilterRules]
  /\ merger_clauseset \in MergerRules
  /\ stage \in {"join", "merger", "ungrouper"}
  /\ FiltersInv
  /\ StageInv
  /\ UngroupInv

=============================================================================
