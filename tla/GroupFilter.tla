---------------------------- MODULE GroupFilter -----------------------------
(***************************************************************************)
(* groupfilter(...) of src/src/groupfilter.c, run by the thread of every   *)
(* branch: the groups that satisfy a clause of the branch are kept.        *)
(*                                                                         *)
(* A group is its 1-based position in the groupset of its branch. The      *)
(* generated comparator of a term is the set of the groups for which it    *)
(* returns true. The stream of the kept groups is written, as it is when   *)
(* the verbosity and the output directory ask for it.                      *)
(***************************************************************************)
EXTENDS Naturals, Sequences

CONSTANTS Branches

VARIABLES
  num_groups,             \* gresult->num_groups, per branch
  groupfilter_clauseset,  \* the clauses of each branch, sequences of terms
  i,                      \* the group the thread has come to
  k,                      \* the clause it is to be tested with next
  filtered_groupset,      \* gfilter_result->filtered_groupset, per branch
  group_file,             \* the stream "groupfilter-branch-b-filtered-groups"
  returned                \* the branches whose groupfilter(...) has returned

rules   == <<num_groups, groupfilter_clauseset>>

Init ==
  /\ i = [b \in Branches |-> 1]
  /\ k = [b \in Branches |-> 1]
  /\ filtered_groupset = [b \in Branches |-> <<>>]
  /\ group_file = [b \in Branches |-> <<>>]
  /\ returned = {}

\* The terms of a clause are ANDed: all of them, none for an empty clause.
ClauseHolds(b, c, g) ==
  \A j \in DOMAIN groupfilter_clauseset[b][c] :
    g \in groupfilter_clauseset[b][c][j]

\* A mutant of AtGroup: the bound of the loop is off by one.
AtGroupOneMore(b) == b \notin returned /\ i[b] <= num_groups[b] + 1

\* The thread of b looks at the group i[b].
AtGroup(b) == b \notin returned /\ i[b] <= num_groups[b]

NextGroup(b) ==
  /\ i' = [i EXCEPT ![b] = @ + 1]
  /\ k' = [k EXCEPT ![b] = 1]

\* The clauses are ORed: the first one that holds settles it.
Keep(b) ==
  /\ AtGroup(b)
  /\ k[b] <= Len(groupfilter_clauseset[b])
  /\ ClauseHolds(b, k[b], i[b])
  /\ filtered_groupset' = [filtered_groupset EXCEPT ![b] = Append(@, i[b])]
  /\ group_file' = [group_file EXCEPT ![b] = Append(@, i[b])]
  /\ NextGroup(b)
  /\ UNCHANGED <<rules, returned>>

\* A mutant of NextClause: a clause that fails ends the loop over the clauses.
NextClauseBreaks(b) ==
  /\ AtGroup(b)
  /\ k[b] <= Len(groupfilter_clauseset[b])
  /\ ~ ClauseHolds(b, k[b], i[b])
  /\ k' = [k EXCEPT ![b] = Len(groupfilter_clauseset[b]) + 1]
  /\ UNCHANGED <<rules, i, filtered_groupset, group_file, returned>>

NextClause(b) ==
  /\ AtGroup(b)
  /\ k[b] <= Len(groupfilter_clauseset[b])
  /\ ~ ClauseHolds(b, k[b], i[b])
  /\ k' = [k EXCEPT ![b] = @ + 1]
  /\ UNCHANGED <<rules, i, filtered_groupset, group_file, returned>>

\* A mutant of Drop: the loop does not pass the group.
DropStays(b) ==
  /\ AtGroup(b)
  /\ k[b] > Len(groupfilter_clauseset[b])
  /\ k' = [k EXCEPT ![b] = 1]
  /\ UNCHANGED <<rules, i, filtered_groupset, group_file, returned>>

\* No clause holds; in particular when there is none.
Drop(b) ==
  /\ AtGroup(b)
  /\ k[b] > Len(groupfilter_clauseset[b])
  /\ NextGroup(b)
  /\ UNCHANGED <<rules, filtered_groupset, group_file, returned>>

Return(b) ==
  /\ b \notin returned
  /\ i[b] > num_groups[b]
  /\ returned' = returned \cup {b}
  /\ UNCHANGED <<rules, i, k, filtered_groupset, group_file>>

Next(b) == Keep(b) \/ NextClause(b) \/ Drop(b) \/ Return(b)

TypeOK ==
  /\ \A b \in Branches :
       /\ i[b] \in 1 .. num_groups[b] + 1
       /\ k[b] \in 1 .. Len(groupfilter_clauseset[b]) + 1
  /\ filtered_groupset \in [Branches -> Seq(Nat)]
  /\ group_file \in [Branches -> Seq(Nat)]
  /\ returned \subseteq Branches

=============================================================================
