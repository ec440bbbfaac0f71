------------------------------- MODULE Merger -------------------------------
(***************************************************************************)
(* merger(...) of src/src/merger.c together with the permutation iterator  *)
(* iter_init / iter_next of src/src/utils.c.                               *)
(*                                                                         *)
(* After every branch has been joined, the main thread walks over all the  *)
(* tuples that take one filtered group of every branch, tests the merger   *)
(* clauses on each one and keeps the tuples that match.                    *)
(*                                                                         *)
(* A group is its 1-based position in the filtered_groupset of its branch, *)
(* as in the iterator. A term compares a group of one branch with a group  *)
(* of another: its func is the set of the pairs of groups for which the    *)
(* generated comparator returns true.                                      *)
(***************************************************************************)
EXTENDS Naturals, Sequences, FiniteSets

CONSTANTS
  NumBranches,  \* num_branches
  MaxGroups,    \* bound on the number of filtered groups of a branch
  Queries,      \* the clause sets tried: sequences of sequences of terms
  IndexRange    \* the number of values of "unsigned int index"

Branches == 1 .. NumBranches
Groups   == 1 .. MaxGroups
Term     == [branch1 : Branches, branch2 : Branches,
             func : SUBSET (Groups \X Groups)]

ASSUME MergerAssumption ==
  /\ NumBranches \in Nat \ {0}
  /\ MaxGroups \in Nat
  /\ Queries \subseteq Seq(Seq(Term))
  /\ IndexRange \in Nat \ {0}

VARIABLES
  num_filtered_groups,  \* groups that passed the group filter, per branch
  merger_clauseset,     \* the clauses, each one a sequence of terms
  pc,                   \* where merger(...) is
  tuple,                \* iter->filtered_group_tuple
  index,                \* the counter of tuples
  k,                    \* the clause to be tested next
  clause,               \* the local "bool clause"
  group_tuples,         \* mresult->group_tuples
  total,                \* mresult->total_num_group_tuples
  to_be_merged          \* the stream "merger-to-be-merged-groups"

inputs == <<num_filtered_groups, merger_clauseset>>
iter   == <<tuple, index>>
vars   == <<inputs, iter, pc, k, clause, group_tuples, total, to_be_merged>>

-----------------------------------------------------------------------------
(* The tuples, and the order in which an odometer passes through them.     *)

AllTuples == {t \in [Branches -> Groups] :
                \A b \in Branches : t[b] <= num_filtered_groups[b]}

\* s is not after t in the lexicographic order of the branches.
LexLeq(s, t) ==
  \A b \in Branches : (\A c \in 1 .. b - 1 : s[c] = t[c]) => s[b] <= t[b]

LexLess(s, t) == LexLeq(s, t) /\ s # t

-----------------------------------------------------------------------------
(* One term and the terms of one clause, which are ANDed.                  *)

TermHolds(term, t) == <<t[term.branch1], t[term.branch2]>> \in term.func

ClauseHolds(c, t) ==
  \A j \in DOMAIN merger_clauseset[c] : TermHolds(merger_clauseset[c][j], t)

-----------------------------------------------------------------------------
Init ==
  /\ num_filtered_groups \in [Branches -> 0 .. MaxGroups]
  /\ merger_clauseset \in Queries
  /\ pc = "iter_init"
  /\ tuple = [b \in Branches |-> 0]
  /\ index = 0
  /\ k = 1
  /\ clause = FALSE
  /\ group_tuples = <<>>
  /\ total = 0
  /\ to_be_merged = <<>>

\* A branch without a filtered group: no iterator, and an empty result.
IterInitFails ==
  /\ pc = "iter_init"
  /\ \E b \in Branches : num_filtered_groups[b] = 0
  /\ pc' = "done"
  /\ UNCHANGED <<inputs, iter, k, clause, group_tuples, total, to_be_merged>>

\* All ones, but for the last branch: the first iter_next makes it 1.
IterInit ==
  /\ pc = "iter_init"
  /\ \A b \in Branches : num_filtered_groups[b] # 0
  /\ tuple' = [b \in Branches |-> IF b = NumBranches THEN 0 ELSE 1]
  /\ pc' = "iter_next"
  /\ UNCHANGED <<inputs, index, k, clause, group_tuples, total, to_be_merged>>

\* A mutant of IsPivot: the test that finds an exhausted branch is off by one.
IsPivotOffByOne(b) ==
  /\ tuple[b] <= num_filtered_groups[b]
  /\ \A c \in Branches : c > b => tuple[c] > num_filtered_groups[c]

\* The rightmost branch that has groups left, where the loop of iter_next
\* stops: all the branches to its right are exhausted.
IsPivot(b) ==
  /\ tuple[b] < num_filtered_groups[b]
  /\ \A c \in Branches : c > b => tuple[c] >= num_filtered_groups[c]

\* A mutant of Advanced: the branches on the right do not wrap around.
AdvancedUnwrapped(t, b) == [t EXCEPT ![b] = @ + 1]

\* The branch b advances, and those on its right wrap around.
Advanced(t, b) ==
  [c \in Branches |-> CASE c < b -> t[c] [] c = b -> t[c] + 1 [] c > b -> 1]

\* A mutant of IterNext: the flag is declared outside the loop.
IterNextKeepsFlag(b) ==
  /\ pc = "iter_next"
  /\ IsPivot(b)
  /\ tuple' = Advanced(tuple, b)
  /\ index' = (index + 1) % IndexRange
  /\ to_be_merged' = Append(to_be_merged, tuple')
  /\ k' = 1
  /\ pc' = "clauses"
  /\ UNCHANGED <<inputs, clause, group_tuples, total>>

\* iter_next returns true, and the body of the loop starts.
IterNext(b) ==
  /\ pc = "iter_next"
  /\ IsPivot(b)
  /\ tuple' = Advanced(tuple, b)
  /\ index' = (index + 1) % IndexRange
  /\ to_be_merged' = Append(to_be_merged, tuple')
  /\ clause' = TRUE
  /\ k' = 1
  /\ pc' = "clauses"
  /\ UNCHANGED <<inputs, group_tuples, total>>

\* A mutant of IterStops: the caller goes on after iter_next has wrapped.
IterStopsIgnored ==
  /\ pc = "iter_next"
  /\ \A b \in Branches : tuple[b] >= num_filtered_groups[b]
  /\ tuple' = [b \in Branches |-> 1]
  /\ UNCHANGED <<inputs, index, pc, k, clause, group_tuples, total,
                 to_be_merged>>

\* A mutant of IterStops: the total is taken from the tuples kept.
IterStopsCountsKept ==
  /\ pc = "iter_next"
  /\ \A b \in Branches : tuple[b] >= num_filtered_groups[b]
  /\ tuple' = [b \in Branches |-> 1]
  /\ total' = Len(group_tuples) % IndexRange
  /\ pc' = "done"
  /\ UNCHANGED <<inputs, index, k, clause, group_tuples, to_be_merged>>

\* iter_next returns false, having wrapped every branch around.
IterStops ==
  /\ pc = "iter_next"
  /\ \A b \in Branches : tuple[b] >= num_filtered_groups[b]
  /\ tuple' = [b \in Branches |-> 1]
  /\ total' = index
  /\ pc' = "done"
  /\ UNCHANGED <<inputs, index, k, clause, group_tuples, to_be_merged>>

\* One round of the loop over the clauses. A term that fails makes the flag
\* false; nothing makes it true again before the next tuple.
TestClause ==
  /\ pc = "clauses"
  /\ k <= Len(merger_clauseset)
  /\ clause' = (clause /\ ClauseHolds(k, tuple))
  /\ IF clause' THEN pc' = "add" /\ UNCHANGED k
                ELSE k' = k + 1 /\ UNCHANGED pc
  /\ UNCHANGED <<inputs, iter, group_tuples, total, to_be_merged>>

ClausesExhausted ==
  /\ pc = "clauses"
  /\ k > Len(merger_clauseset)
  /\ pc' = "add"
  /\ UNCHANGED <<inputs, iter, k, clause, group_tuples, total, to_be_merged>>

AddTuple ==
  /\ pc = "add"
  /\ group_tuples' = IF clause THEN Append(group_tuples, tuple)
                               ELSE group_tuples
  /\ pc' = "iter_next"
  /\ UNCHANGED <<inputs, iter, k, clause, total, to_be_merged>>

Next ==
  \/ IterInitFails
  \/ IterInit
  \/ \E b \in Branches : IterNext(b)
  \/ IterStops
  \/ TestClause
  \/ ClausesExhausted
  \/ AddTuple

Spec == Init /\ [][Next]_vars /\ WF_vars(Next)

-----------------------------------------------------------------------------
(* The tuples streamed and the tuples stored so far, as sets.              *)

Examined == {to_be_merged[i] : i \in DOMAIN to_be_merged}
Matched  == {group_tuples[i] : i \in DOMAIN group_tuples}

-----------------------------------------------------------------------------
(* What is meant by a match.                                               *)

\* The comment of merger.c:128, "clauses are OR'd" (and every tuple when
\* the query has no clause, as the code has it).
SomeClauseHolds(t) ==
  \/ merger_clauseset = <<>>
  \/ \E c \in DOMAIN merger_clauseset : ClauseHolds(c, t)

\* What the loop computes: the flag is reset once for a tuple and not once
\* for a clause, so that only the first clause can make a tuple match.
FirstClauseHolds(t) ==
  merger_clauseset = <<>> \/ ClauseHolds(1, t)

-----------------------------------------------------------------------------
(* Properties                                                              *)

TypeOK ==
  /\ num_filtered_groups \in [Branches -> 0 .. MaxGroups]
  /\ merger_clauseset \in Queries
  /\ pc \in {"iter_init", "iter_next", "clauses", "add", "done"}
  /\ tuple \in [Branches -> 0 .. MaxGroups]
  /\ index \in 0 .. IndexRange - 1
  /\ k \in Nat \ {0}
  /\ clause \in BOOLEAN
  /\ group_tuples \in Seq([Branches -> Groups])
  /\ total \in 0 .. IndexRange - 1
  /\ to_be_merged \in Seq([Branches -> Groups])

\* The group ids used as subscripts "group_id - 1" while a tuple is tested
\* and stored lie within the filtered_groupset of every branch, although the
\* iterator starts outside (0 in the last branch) and wraps at its end.
SubscriptsInRange ==
  pc \in {"clauses", "add"} => tuple \in AllTuples

\* The iterator never returns to a tuple it has passed: each one streamed is
\* lexicographically after the one before, through all the wrap-arounds.
ExaminedInOrder ==
  \A i, j \in DOMAIN to_be_merged :
    i < j => LexLess(to_be_merged[i], to_be_merged[j])

\* No tuple is skipped: at every moment the tuples examined are those up to
\* the iterator's position, and on return they are all the tuples there are,
\* also when a branch has no group and the iterator does not exist.
EveryTupleExamined ==
  /\ pc \in {"clauses", "add"} =>
       Examined = {t \in AllTuples : LexLeq(t, tuple)}
  /\ pc = "done" => Examined = AllTuples

\* The tuples stored are in the order of the iterator, hence distinct.
MatchedInOrder ==
  \A i, j \in DOMAIN group_tuples :
    i < j => LexLess(group_tuples[i], group_tuples[j])

\* The result holds the tuples that satisfy the first clause, each of them
\* once and in the order of the iterator.
MatchedExactly ==
  /\ pc = "done" => Matched = {t \in AllTuples : FirstClauseHolds(t)}
  /\ MatchedInOrder

\* The total of the result is the number of tuples there are, in the arithmetic
\* of the unsigned int that counts them (the field it ends in is a size_t),
\* and 0 when there is no iterator.
TotalCounts ==
  pc = "done" => total = Cardinality(AllTuples) % IndexRange

\* What merger.c:128 says: a tuple that satisfies any of the clauses is kept.
ClausesAreORd ==
  pc = "done" => Matched = {t \in AllTuples : SomeClauseHolds(t)}

-----------------------------------------------------------------------------
(* The invariant from which these follow: where the iterator stands, what   *)
(* the flag says of its tuple, and what has been stored.                    *)

IteratorInv ==
  pc \in {"iter_next", "clauses", "add"} =>
    /\ \A b \in Branches :
         /\ num_filtered_groups[b] # 0
         /\ tuple[b] <= num_filtered_groups[b]
         /\ tuple[b] = 0 => b = NumBranches /\ pc = "iter_next"
    /\ Examined = {t \in AllTuples : LexLeq(t, tuple)}

FlagInv ==
  /\ pc = "clauses" => \/ k = 1 /\ clause
                       \/ k > 1 /\ ~clause /\ ~FirstClauseHolds(tuple)
  /\ pc = "add" => (clause <=> FirstClauseHolds(tuple))

MatchedInv ==
  Matched = {t \in Examined : /\ FirstClauseHolds(t)
                              /\ pc \in {"clauses", "add"} => t # tuple}

BoundaryInv ==
  /\ pc = "iter_init" => to_be_merged = <<>> /\ group_tuples = <<>>
  /\ pc = "done" => Examined = AllTuples

MergerInv ==
  /\ TypeOK
  /\ IteratorInv
  /\ FlagInv
  /\ MatchedInv
  /\ BoundaryInv
  /\ ExaminedInOrder
  /\ MatchedInOrder

\* What the counter has come to, for the total; beside MergerInv.
CountInv ==
  /\ index = Len(to_be_merged) % IndexRange
  /\ total = IF pc = "done" THEN index ELSE 0

-----------------------------------------------------------------------------
(* Merger implements TupleJoin: a tuple has been examined once its flag has *)
(* led to its being stored or passed over.                                  *)

Unexamined ==
  CASE pc = "iter_init" -> AllTuples
    [] pc \in {"clauses", "add"} -> {t \in AllTuples : LexLeq(tuple, t)}
    [] pc = "iter_next" -> {t \in AllTuples : LexLess(tuple, t)}
    [] pc = "done" -> {}

Join == INSTANCE TupleJoin WITH
  wanted   <- {t \in AllTuples : FirstClauseHolds(t)},
  todo     <- Unexamined,
  kept     <- Matched,
  finished <- pc = "done"

\* Merger implements TupleJoin with the first clause as the selection: the
\* tuples are examined one at a time, none twice and none forgotten, and the
\* join ends.
ImplementsJoin == Join!JoinSpec

=============================================================================
