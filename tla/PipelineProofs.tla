--------------------------- MODULE PipelineProofs ---------------------------
(***************************************************************************)
(* What the last stages compute together: the merger joins what the group  *)
(* filters have finally kept, the streams are the answer to the query, and *)
(* the files show the same, for any number of branches, any groups and any *)
(* filters and mergers.                                                    *)
(***************************************************************************)
EXTENDS Pipeline, Integers, TLAPS, WellFoundedInduction, SequenceTheorems,
        FiniteSetTheorems

\* The theorems about the merger, of the merger in this composition.
MP == INSTANCE MergerProofs WITH
  Queries <- Seq(Seq(MergerTerm)),
  num_filtered_groups <- NumFiltered,
  merger_clauseset <- [c \in DOMAIN merger_clauseset |->
                         [n \in DOMAIN merger_clauseset[c] |->
                            OnFiltered(merger_clauseset[c][n])]],
  pc <- m_pc, k <- m_k

\* The constants of the merger are as it assumes.
LEMMA MergerAssumed == MP!MergerAssumption
BY PipelineAssumption
   DEF MP!MergerAssumption, MP!Term, MP!Branches, MP!Groups, MergerTerm,
       Branches, Groups

\* The two instances of the merger are the same.
LEMMA SameMerger ==
  /\ M!Init <=> MP!Init
  /\ M!Next <=> MP!Next
  /\ M!vars = MP!vars
BY DEF M!Init, M!Next, M!vars, M!Branches, M!Groups, M!inputs, M!iter,
       M!IterInitFails, M!IterInit, M!IterNext, M!IterStops, M!TestClause,
       M!ClausesExhausted, M!AddTuple, M!IsPivot, M!Advanced, M!ClauseHolds,
       M!TermHolds,
       MP!Init, MP!Next, MP!vars, MP!Branches, MP!Groups, MP!inputs, MP!iter,
       MP!IterInitFails, MP!IterInit, MP!IterNext, MP!IterStops,
       MP!TestClause, MP!ClausesExhausted, MP!AddTuple, MP!IsPivot,
       MP!Advanced, MP!ClauseHolds, MP!TermHolds

LEMMA SameMergerInv == M!MergerInv <=> MP!MergerInv
BY DEF M!MergerInv, M!TypeOK, M!IteratorInv, M!FlagInv, M!MatchedInv,
       M!BoundaryInv, M!ExaminedInOrder, M!MatchedInOrder, M!LexLess, M!LexLeq,
       M!FirstClauseHolds, M!ClauseHolds, M!TermHolds, M!Examined, M!Matched,
       M!AllTuples, M!Branches, M!Groups,
       MP!MergerInv, MP!TypeOK, MP!IteratorInv, MP!FlagInv, MP!MatchedInv,
       MP!BoundaryInv, MP!ExaminedInOrder, MP!MatchedInOrder, MP!LexLess,
       MP!LexLeq, MP!FirstClauseHolds, MP!ClauseHolds, MP!TermHolds,
       MP!Examined, MP!Matched, MP!AllTuples, MP!Branches, MP!Groups

-----------------------------------------------------------------------------
(* The group filters.                                                      *)

QueryOK ==
  /\ num_groups \in [Branches -> 0 .. MaxGroups]
  /\ groupfilter_clauseset \in [Branches -> FilterRules]
  /\ merger_clauseset \in MergerRules

\* The number of groups and the clauses of a branch.
LEMMA QueryFacts ==
  ASSUME QueryOK, NEW b \in Branches
  PROVE  /\ num_groups[b] \in Nat
         /\ 1 .. num_groups[b] \subseteq Groups
         /\ groupfilter_clauseset[b] \in Seq(Seq(SUBSET Groups))
         /\ Len(groupfilter_clauseset[b]) \in Nat
         /\ DOMAIN groupfilter_clauseset[b]
              = 1 .. Len(groupfilter_clauseset[b])
<1>1. num_groups[b] \in 0 .. MaxGroups
      /\ groupfilter_clauseset[b] \in Seq(Seq(SUBSET Groups))
  BY PipelineAssumption DEF QueryOK
<1>2. QED
  BY <1>1, PipelineAssumption, LenProperties DEF Groups

\* A group that a clause holds for passes, one that none holds for does not.
LEMMA PassesIff ==
  ASSUME QueryOK, NEW b \in Branches, NEW g
  PROVE  PassesGroupFilter(b, g) <=>
           \E c \in 1 .. Len(groupfilter_clauseset[b]) : GF!ClauseHolds(b, c, g)
BY QueryFacts DEF PassesGroupFilter, GF!ClauseHolds

\* A branch is as it was when its thread has not moved.
LEMMA FilterKept ==
  ASSUME FiltersInv, UNCHANGED query, NEW b \in Branches,
         g_i'[b] = g_i[b], g_k'[b] = g_k[b],
         filtered_groupset'[b] = filtered_groupset[b],
         b \in g_returned' <=> b \in g_returned
  PROVE  FilterInv(b)'
<1>1. num_groups' = num_groups /\ groupfilter_clauseset' = groupfilter_clauseset
  BY DEF query
<1>2. /\ \A g : PassesGroupFilter(b, g)' <=> PassesGroupFilter(b, g)
      /\ \A c, g : GF!ClauseHolds(b, c, g)' <=> GF!ClauseHolds(b, c, g)
  BY <1>1 DEF PassesGroupFilter, GF!ClauseHolds
<1>3. FilterInv(b)
  BY DEF FiltersInv
<1>4. QED
  BY <1>1, <1>2, <1>3 DEF FilterInv

\* The bound of the loop, and the length and the order of what is kept.
LEMMA AppendKept ==
  ASSUME NEW q \in Seq(Groups), NEW x \in Groups,
         \A n \in DOMAIN q : q[n] < x,
         \A m, n \in DOMAIN q : m < n => q[m] < q[n]
  PROVE  /\ Append(q, x) \in Seq(Groups)
         /\ Len(Append(q, x)) = Len(q) + 1
         /\ {Append(q, x)[n] : n \in DOMAIN Append(q, x)}
              = {q[n] : n \in DOMAIN q} \cup {x}
         /\ \A m, n \in DOMAIN Append(q, x) :
              m < n => Append(q, x)[m] < Append(q, x)[n]
<1>1. /\ Len(q) \in Nat
      /\ DOMAIN Append(q, x) = 1 .. Len(q) + 1
      /\ DOMAIN q = 1 .. Len(q)
      /\ \A n \in 1 .. Len(q) : Append(q, x)[n] = q[n]
      /\ Append(q, x)[Len(q) + 1] = x
  BY AppendProperties, LenProperties
<1>2. ASSUME NEW m \in DOMAIN Append(q, x), NEW n \in DOMAIN Append(q, x), m < n
      PROVE  Append(q, x)[m] < Append(q, x)[n]
  <2>1. m \in 1 .. Len(q) /\ (n \in 1 .. Len(q) \/ n = Len(q) + 1)
    BY <1>1, <1>2
  <2>2. QED
    BY <1>1, <1>2, <2>1
<1>3. QED
  BY <1>2, AppendProperties, MP!AppendRange, MergerAssumed

\* The thread of b passes the group it has come to.
LEMMA FilterNextGroup ==
  ASSUME QueryOK, FiltersInv, NEW b \in Branches, GF!AtGroup(b), UNCHANGED query,
         GF!NextGroup(b), UNCHANGED g_returned,
         \/ /\ PassesGroupFilter(b, g_i[b])
            /\ filtered_groupset'[b] = Append(filtered_groupset[b], g_i[b])
         \/ /\ ~ PassesGroupFilter(b, g_i[b])
            /\ filtered_groupset'[b] = filtered_groupset[b]
  PROVE  FilterInv(b)'
<1> DEFINE kept == filtered_groupset[b]
<1> DEFINE g == g_i[b]
<1> DEFINE next == filtered_groupset'[b]
<1>1. /\ kept \in Seq(Groups) /\ Len(kept) \in Nat /\ Len(kept) < g
      /\ {kept[n] : n \in DOMAIN kept}
           = {h \in 1 .. g - 1 : PassesGroupFilter(b, h)}
      /\ \A m, n \in DOMAIN kept : m < n => kept[m] < kept[n]
      /\ b \notin g_returned
  BY LenProperties DEF FiltersInv, FilterInv, GF!AtGroup
<1>2. g \in 1 .. num_groups[b] /\ g \in Groups
  BY QueryFacts DEF FiltersInv, FilterInv, GF!AtGroup
<1>3. g_i'[b] = g + 1 /\ g_k'[b] = 1 /\ num_groups' = num_groups
      /\ groupfilter_clauseset' = groupfilter_clauseset
  BY DEF GF!NextGroup, FiltersInv, query
<1>4. \A n \in DOMAIN kept : kept[n] < g
  <2>1. \A n \in DOMAIN kept : kept[n] \in 1 .. g - 1
    BY <1>1
  <2>2. g \in Nat
    BY <1>2, QueryFacts
  <2> HIDE DEF kept, g
  <2>3. QED
    BY <2>1, <2>2
<1>5. \A h \in 1 .. (g + 1) - 1 : h \in 1 .. g - 1 \/ h = g
  BY <1>2, QueryFacts
<1>6. \A h \in 1 .. g - 1 : h \in 1 .. (g + 1) - 1
  BY <1>2, QueryFacts
<1>7. g \in 1 .. (g + 1) - 1
  BY <1>2, QueryFacts
<1>8. /\ next \in Seq(Groups)
      /\ Len(next) < g + 1
      /\ {next[n] : n \in DOMAIN next}
           = {h \in 1 .. (g + 1) - 1 : PassesGroupFilter(b, h)}
      /\ \A m, n \in DOMAIN next : m < n => next[m] < next[n]
  <2> HIDE DEF kept, g, next
  <2>1. CASE PassesGroupFilter(b, g) /\ next = Append(kept, g)
    <3>1. /\ next \in Seq(Groups) /\ Len(next) = Len(kept) + 1
          /\ {next[n] : n \in DOMAIN next} = {kept[n] : n \in DOMAIN kept} \cup {g}
          /\ \A m, n \in DOMAIN next : m < n => next[m] < next[n]
      BY <1>1, <1>2, <1>4, <2>1, AppendKept
    <3>2. Len(next) < g + 1
      BY <1>1, <1>2, <3>1, QueryFacts
    <3>3. {next[n] : n \in DOMAIN next}
            = {h \in 1 .. (g + 1) - 1 : PassesGroupFilter(b, h)}
      BY <1>1, <1>5, <1>6, <1>7, <2>1, <3>1
    <3>4. QED
      BY <3>1, <3>2, <3>3
  <2>2. CASE ~ PassesGroupFilter(b, g) /\ next = kept
    <3>1. Len(next) < g + 1
      BY <1>1, <1>2, <2>2, QueryFacts
    <3>2. {next[n] : n \in DOMAIN next}
            = {h \in 1 .. (g + 1) - 1 : PassesGroupFilter(b, h)}
      BY <1>1, <1>5, <1>6, <1>7, <2>2
    <3>3. QED
      BY <1>1, <2>2, <3>1, <3>2
  <2>3. QED
    BY <2>1, <2>2 DEF kept, g, next
<1>9. \A h : PassesGroupFilter(b, h)' <=> PassesGroupFilter(b, h)
  BY <1>3 DEF PassesGroupFilter
<1>10. g + 1 \in 1 .. num_groups[b] + 1
  BY <1>2, QueryFacts
<1>11. 1 \in 1 .. Len(groupfilter_clauseset[b]) + 1 /\ 1 .. 1 - 1 = {}
  BY QueryFacts
<1>12. QED
  BY <1>1, <1>3, <1>8, <1>9, <1>10, <1>11 DEF FilterInv

\* A step of the thread of b is one of the branch b alone.
LEMMA OthersStay ==
  ASSUME FiltersInv, NEW b \in Branches, GF!Next(b), NEW c \in Branches, c # b
  PROVE  /\ g_i'[c] = g_i[c] /\ g_k'[c] = g_k[c]
         /\ filtered_groupset'[c] = filtered_groupset[c]
         /\ c \in g_returned' <=> c \in g_returned
<1>1. GF!Keep(b) \/ GF!NextClause(b) \/ GF!Drop(b) \/ GF!Return(b)
  BY DEF GF!Next
<1>2. CASE GF!Keep(b)
  BY <1>2 DEF GF!Keep, GF!NextGroup, FiltersInv
<1>3. CASE GF!NextClause(b)
  BY <1>3 DEF GF!NextClause, FiltersInv
<1>4. CASE GF!Drop(b)
  BY <1>4 DEF GF!Drop, GF!NextGroup, FiltersInv
<1>5. CASE GF!Return(b)
  BY <1>5 DEF GF!Return
<1>6. QED
  BY <1>1, <1>2, <1>3, <1>4, <1>5

\* The variables of the group filters keep their types, and the file follows.
LEMMA FilterTypes ==
  ASSUME QueryOK, FiltersInv, NEW b \in Branches, GF!Next(b)
  PROVE  /\ g_i' \in [Branches -> Nat] /\ g_k' \in [Branches -> Nat]
         /\ filtered_groupset' \in [Branches -> Seq(Nat)]
         /\ group_file' = filtered_groupset'
         /\ g_returned' \subseteq Branches
<1>1. GF!Keep(b) \/ GF!NextClause(b) \/ GF!Drop(b) \/ GF!Return(b)
  BY DEF GF!Next
<1>2. CASE GF!Keep(b)
  <2>1. Append(filtered_groupset[b], g_i[b]) \in Seq(Nat)
    BY AppendProperties DEF FiltersInv
  <2>2. filtered_groupset' \in [Branches -> Seq(Nat)]
    BY <1>2, <2>1 DEF GF!Keep, FiltersInv
  <2>3. QED
    BY <1>2, <2>2 DEF GF!Keep, GF!NextGroup, FiltersInv
<1>3. CASE GF!NextClause(b)
  BY <1>3 DEF GF!NextClause, FiltersInv
<1>4. CASE GF!Drop(b)
  BY <1>4 DEF GF!Drop, GF!NextGroup, FiltersInv
<1>5. CASE GF!Return(b)
  BY <1>5 DEF GF!Return, FiltersInv
<1>6. QED
  BY <1>1, <1>2, <1>3, <1>4, <1>5

\* What the group filter of b keeps are the groups that pass, of those it has
\* come past.
LEMMA FilterStep ==
  ASSUME QueryOK, FiltersInv, NEW b \in Branches, GF!Next(b), UNCHANGED query
  PROVE  FilterInv(b)'
<1> DEFINE clauses == groupfilter_clauseset[b]
<1>1. /\ g_i[b] \in 1 .. num_groups[b] + 1 /\ num_groups[b] \in Nat
      /\ g_k[b] \in 1 .. Len(clauses) + 1 /\ Len(clauses) \in Nat
      /\ \A c \in 1 .. g_k[b] - 1 : ~ GF!ClauseHolds(b, c, g_i[b])
      /\ filtered_groupset \in [Branches -> Seq(Nat)]
      /\ g_k \in [Branches -> Nat]
  BY QueryFacts DEF FiltersInv, FilterInv
<1>2. CASE GF!Keep(b)
  <2>1. PassesGroupFilter(b, g_i[b])
    <3>1. g_k[b] \in 1 .. Len(clauses) /\ GF!ClauseHolds(b, g_k[b], g_i[b])
      BY <1>1, <1>2 DEF GF!Keep
    <3>2. QED
      BY <3>1, PassesIff
  <2>2. filtered_groupset'[b] = Append(filtered_groupset[b], g_i[b])
    BY <1>1, <1>2 DEF GF!Keep
  <2>3. QED
    BY <1>2, <2>1, <2>2, FilterNextGroup DEF GF!Keep
<1>3. CASE GF!NextClause(b)
  <2>1. /\ g_k'[b] = g_k[b] + 1 /\ g_k[b] <= Len(clauses)
        /\ g_i' = g_i /\ filtered_groupset' = filtered_groupset
        /\ g_returned' = g_returned /\ ~ GF!ClauseHolds(b, g_k[b], g_i[b])
        /\ b \notin g_returned
    BY <1>1, <1>3 DEF GF!NextClause, GF!AtGroup
  <2>2. \A c \in 1 .. (g_k[b] + 1) - 1 : c \in 1 .. g_k[b] - 1 \/ c = g_k[b]
    BY <1>1
  <2>3. g_k[b] + 1 \in 1 .. Len(clauses) + 1
    BY <1>1, <2>1
  <2>4. /\ \A g : PassesGroupFilter(b, g)' <=> PassesGroupFilter(b, g)
        /\ \A c, g : GF!ClauseHolds(b, c, g)' <=> GF!ClauseHolds(b, c, g)
        /\ num_groups' = num_groups
        /\ groupfilter_clauseset' = groupfilter_clauseset
    BY DEF PassesGroupFilter, GF!ClauseHolds, query
  <2>5. FilterInv(b)
    BY DEF FiltersInv
  <2>6. (\A c \in 1 .. g_k[b] - 1 : ~ GF!ClauseHolds(b, c, g_i[b]))'
    <3>1. \A c \in 1 .. (g_k[b] + 1) - 1 : ~ GF!ClauseHolds(b, c, g_i[b])
      BY <1>1, <2>1, <2>2
    <3>2. QED
      BY <2>1, <2>4, <3>1 DEF GF!ClauseHolds
  <2>7. QED
    BY <2>1, <2>3, <2>4, <2>5, <2>6 DEF FilterInv
<1>4. CASE GF!Drop(b)
  <2>1. ~ PassesGroupFilter(b, g_i[b])
    <3>1. \A c \in 1 .. Len(clauses) : c \in 1 .. g_k[b] - 1
      BY <1>1, <1>4 DEF GF!Drop
    <3>2. QED
      BY <1>1, <3>1, PassesIff
  <2>2. QED
    BY <1>4, <2>1, FilterNextGroup DEF GF!Drop
<1>5. CASE GF!Return(b)
  <2>1. /\ g_i[b] = num_groups[b] + 1
        /\ g_i' = g_i /\ g_k' = g_k
        /\ filtered_groupset' = filtered_groupset
    BY <1>1, <1>5 DEF GF!Return
  <2>2. /\ \A g : PassesGroupFilter(b, g)' <=> PassesGroupFilter(b, g)
        /\ \A c, g : GF!ClauseHolds(b, c, g)' <=> GF!ClauseHolds(b, c, g)
        /\ num_groups' = num_groups
        /\ groupfilter_clauseset' = groupfilter_clauseset
    BY DEF PassesGroupFilter, GF!ClauseHolds, query
  <2>3. FilterInv(b)
    BY DEF FiltersInv
  <2>4. QED
    BY <2>1, <2>2, <2>3 DEF FilterInv
<1>6. QED
  BY <1>2, <1>3, <1>4, <1>5 DEF GF!Next

\* The threads of the branches.
LEMMA FiltersThread ==
  ASSUME QueryOK, FiltersInv, NEW b \in Branches, Thread(b)
  PROVE  FiltersInv'
<1>1. GF!Next(b) /\ UNCHANGED query
  BY DEF Thread
<1>2. ASSUME NEW c \in Branches PROVE FilterInv(c)'
  <2>1. CASE c = b
    BY <1>1, <2>1, FilterStep
  <2>2. CASE c # b
    BY <1>1, <2>2, OthersStay, FilterKept
  <2>3. QED
    BY <2>1, <2>2
<1>3. QED
  BY <1>1, <1>2, FilterTypes DEF FiltersInv

LEMMA FiltersStay ==
  ASSUME FiltersInv, UNCHANGED <<query, filtering>>
  PROVE  FiltersInv'
<1>1. \A b \in Branches : FilterInv(b)'
  BY FilterKept DEF filtering
<1>2. QED
  BY <1>1 DEF FiltersInv, filtering

-----------------------------------------------------------------------------
(* The records of a tuple.                                                 *)

\* f gives the records up to each branch, up to the branch n.
UnfoldsUpTo(f, t, n) ==
  f = [b \in 0 .. n |->
         IF b = 0 THEN <<>> ELSE f[b - 1] \o Members[<<b, t[b]>>]]

\* There is such a function for every n: there is no least n without one.
LEMMA UnfoldingExists ==
  ASSUME NEW t, NEW n \in Nat
  PROVE  \E f : UnfoldsUpTo(f, t, n)
<1> DEFINE Without == {m \in Nat : ~ \E f : UnfoldsUpTo(f, t, m)}
<1>1. SUFFICES ASSUME Without # {} PROVE FALSE
  OBVIOUS
<1>2. PICK m \in Without : \A l \in Without : m <= l
  BY <1>1, MP!LeastElement, MergerAssumed
<1>3. m # 0
  <2>1. SUFFICES ASSUME m = 0 PROVE FALSE
    OBVIOUS
  <2> DEFINE f == [b \in 0 .. 0 |-> <<>>]
  <2>2. UnfoldsUpTo(f, t, 0)
    BY DEF UnfoldsUpTo
  <2>3. QED
    BY <1>2, <2>1, <2>2
<1>4. m \in Nat /\ m - 1 \in Nat /\ ~ (m <= m - 1)
  BY <1>2, <1>3
<1>5. PICK f : UnfoldsUpTo(f, t, m - 1)
  BY <1>2, <1>4
<1> DEFINE step(b) == f[b - 1] \o Members[<<b, t[b]>>]
<1> DEFINE g == [b \in 0 .. m |-> IF b = m THEN step(m) ELSE f[b]]
<1>6. \A b \in 0 .. m - 1 : f[b] = IF b = 0 THEN <<>> ELSE step(b)
  BY <1>5, Zenon DEF UnfoldsUpTo
<1>7. ASSUME NEW b \in 0 .. m
      PROVE  g[b] = IF b = 0 THEN <<>> ELSE g[b - 1] \o Members[<<b, t[b]>>]
  <2>1. b # 0 => b - 1 \in 0 .. m /\ b - 1 # m
    BY <1>4
  <2>2. b # 0 => g[b - 1] = f[b - 1]
    BY <2>1
  <2>3. g[b] = IF b = 0 THEN <<>> ELSE step(b)
    <3>1. CASE b = m
      BY <1>3, <3>1
    <3>2. CASE b # m
      <4>1. b \in 0 .. m - 1
        BY <1>4, <3>2
      <4>2. QED
        BY <1>6, <3>2, <4>1
    <3>3. QED
      BY <3>1, <3>2
  <2>4. QED
    BY <2>2, <2>3
<1>8. UnfoldsUpTo(g, t, m)
  BY <1>7 DEF UnfoldsUpTo
<1>9. QED
  BY <1>2, <1>8

\* The records of the branches up to b are those up to b - 1 and its own.
LEMMA UnfoldingIs ==
  ASSUME NEW t
  PROVE  /\ Unfolding(t)[0] = <<>>
         /\ \A b \in Branches :
              Unfolding(t)[b] = Unfolding(t)[b - 1] \o Members[<<b, t[b]>>]
<1>1. NumBranches \in Nat
  BY PipelineAssumption
<1>2. \E f : UnfoldsUpTo(f, t, NumBranches)
  BY <1>1, UnfoldingExists
<1>3. Unfolding(t) = CHOOSE f : UnfoldsUpTo(f, t, NumBranches)
  BY DEF Unfolding, UnfoldsUpTo
<1>4. UnfoldsUpTo(Unfolding(t), t, NumBranches)
  BY <1>2, <1>3
<1>5. \A b \in 0 .. NumBranches :
        Unfolding(t)[b] =
          IF b = 0 THEN <<>> ELSE Unfolding(t)[b - 1] \o Members[<<b, t[b]>>]
  <2> DEFINE u == Unfolding(t)
  <2>1. u = [b \in 0 .. NumBranches |->
               IF b = 0 THEN <<>> ELSE u[b - 1] \o Members[<<b, t[b]>>]]
    BY <1>4 DEF UnfoldsUpTo
  <2> HIDE DEF u
  <2>2. \A b \in 0 .. NumBranches :
          u[b] = IF b = 0 THEN <<>> ELSE u[b - 1] \o Members[<<b, t[b]>>]
    BY <2>1, Zenon
  <2>3. QED
    BY <2>2 DEF u
<1>6. 0 \in 0 .. NumBranches
      /\ \A b \in Branches : b \in 0 .. NumBranches /\ b # 0
  BY <1>1 DEF Branches
<1>7. QED
  BY <1>5, <1>6

-----------------------------------------------------------------------------
(* What the merger is given.                                               *)

\* The groups kept are no more than the groups there are.
LEMMA KeptBounds ==
  ASSUME QueryOK, FiltersInv
  PROVE  /\ NumFiltered \in [Branches -> 0 .. MaxGroups]
         /\ \A b \in Branches :
              /\ filtered_groupset[b] \in Seq(Groups)
              /\ DOMAIN filtered_groupset[b] = 1 .. NumFiltered[b]
<1>1. ASSUME NEW b \in Branches
      PROVE  /\ filtered_groupset[b] \in Seq(Groups)
             /\ DOMAIN filtered_groupset[b] = 1 .. Len(filtered_groupset[b])
             /\ Len(filtered_groupset[b]) \in 0 .. MaxGroups
  <2>1. /\ filtered_groupset[b] \in Seq(Groups)
        /\ Len(filtered_groupset[b]) < g_i[b]
        /\ g_i[b] \in 1 .. num_groups[b] + 1
    BY DEF FiltersInv, FilterInv
  <2>2. num_groups[b] \in 0 .. MaxGroups /\ MaxGroups \in Nat
    BY PipelineAssumption DEF QueryOK
  <2>3. Len(filtered_groupset[b]) \in Nat
        /\ DOMAIN filtered_groupset[b] = 1 .. Len(filtered_groupset[b])
    BY <2>1, LenProperties
  <2>4. QED
    BY <2>1, <2>2, <2>3
<1>2. QED
  BY <1>1 DEF NumFiltered

\* In terms of the groups that are left, the clauses are clauses still.
LEMMA ClausesType ==
  ASSUME QueryOK, NumFiltered \in [Branches -> 0 .. MaxGroups]
  PROVE  [c \in DOMAIN merger_clauseset |->
            [n \in DOMAIN merger_clauseset[c] |->
               OnFiltered(merger_clauseset[c][n])]] \in Seq(Seq(MergerTerm))
<1>1. merger_clauseset \in Seq(Seq(MergerTerm))
  BY PipelineAssumption DEF QueryOK
<1>2. ASSUME NEW term \in MergerTerm PROVE OnFiltered(term) \in MergerTerm
  <2>1. term.branch1 \in Branches /\ term.branch2 \in Branches
    BY <1>2 DEF MergerTerm
  <2>2. ASSUME NEW b \in Branches, NEW m \in 1 .. NumFiltered[b]
        PROVE  m \in Groups
    <3>1. NumFiltered[b] \in 0 .. MaxGroups /\ MaxGroups \in Nat
      BY PipelineAssumption
    <3>2. QED
      BY <2>2, <3>1 DEF Groups
  <2>3. OnFiltered(term).func \in SUBSET (Groups \X Groups)
    <3>1. \A p \in (1 .. NumFiltered[term.branch1])
                     \X (1 .. NumFiltered[term.branch2]) :
            p \in Groups \X Groups
      BY <2>1, <2>2
    <3>2. QED
      BY <3>1, <1>2 DEF OnFiltered, MergerTerm
  <2>4. OnFiltered(term) = [term EXCEPT !.func = OnFiltered(term).func]
    BY <1>2 DEF OnFiltered, MergerTerm
  <2>5. QED
    BY <1>2, <2>3, <2>4 DEF MergerTerm
<1>3. ASSUME NEW c \in DOMAIN merger_clauseset
      PROVE  [n \in DOMAIN merger_clauseset[c] |->
                OnFiltered(merger_clauseset[c][n])] \in Seq(MergerTerm)
  <2>1. merger_clauseset[c] \in Seq(MergerTerm)
    BY <1>1, <1>3, ElementOfSeq, LenProperties
  <2>2. /\ Len(merger_clauseset[c]) \in Nat
        /\ DOMAIN merger_clauseset[c] = 1 .. Len(merger_clauseset[c])
        /\ \A n \in DOMAIN merger_clauseset[c] :
             merger_clauseset[c][n] \in MergerTerm
    BY <2>1, LenProperties, ElementOfSeq
  <2>3. \A n \in 1 .. Len(merger_clauseset[c]) :
          OnFiltered(merger_clauseset[c][n]) \in MergerTerm
    BY <1>2, <2>2
  <2>4. QED
    BY <2>2, <2>3, IsASeq
<1>4. Len(merger_clauseset) \in Nat
      /\ DOMAIN merger_clauseset = 1 .. Len(merger_clauseset)
  BY <1>1, LenProperties
<1>5. QED
  BY <1>3, <1>4, IsASeq

\* While the threads run, the merger has not begun.
LEMMA MergerStays ==
  ASSUME QueryOK', FiltersInv', M!Init, UNCHANGED merging
  PROVE  M!Init'
<1>1. NumFiltered' \in [Branches -> 0 .. MaxGroups]
  <2>1. QueryOK' /\ FiltersInv' => (NumFiltered \in [Branches -> 0 .. MaxGroups])'
    BY KeptBounds, PTL
  <2>2. QED
    BY <2>1
<1>2. ([c \in DOMAIN merger_clauseset |->
         [n \in DOMAIN merger_clauseset[c] |->
            OnFiltered(merger_clauseset[c][n])]] \in Seq(Seq(MergerTerm)))'
  <2>1. QueryOK' /\ (NumFiltered \in [Branches -> 0 .. MaxGroups])'
          => ([c \in DOMAIN merger_clauseset |->
                [n \in DOMAIN merger_clauseset[c] |->
                   OnFiltered(merger_clauseset[c][n])]]
                \in Seq(Seq(MergerTerm)))'
    BY ClausesType, PTL
  <2>2. QED
    BY <1>1, <2>1
<1>3. QED
  BY <1>1, <1>2
     DEF M!Init, merging, M!Branches, M!Groups, Branches, Groups

-----------------------------------------------------------------------------
(* The ungrouper.                                                          *)

\* The stored tuples are always tuples of groups.
LEMMA TuplesType ==
  ASSUME stage \in {"join", "merger", "ungrouper"}, StageInv
  PROVE  /\ group_tuples \in Seq([Branches -> Groups])
         /\ Len(group_tuples) \in Nat
         /\ DOMAIN group_tuples = 1 .. Len(group_tuples)
         /\ Len([n \in DOMAIN group_tuples |-> MatchedTuple(group_tuples[n])])
              = Len(group_tuples)
<1>1. group_tuples \in Seq([Branches -> Groups])
  <2>1. CASE stage = "join"
    BY <2>1, EmptySeq DEF StageInv, M!Init
  <2>2. CASE stage # "join"
    BY <2>2 DEF StageInv, M!MergerInv, M!TypeOK, M!Branches, M!Groups,
                Branches, Groups
  <2>3. QED
    BY <2>1, <2>2
<1>2. Len(group_tuples) \in Nat /\ DOMAIN group_tuples = 1 .. Len(group_tuples)
  BY <1>1, LenProperties
<1>3. QED
  BY <1>1, <1>2

\* The tuples the merger returns are of groups that are there.
LEMMA TakenGroups ==
  ASSUME QueryOK, FiltersInv, StageInv, stage = "ungrouper",
         NEW n \in DOMAIN group_tuples
  PROVE  /\ group_tuples[n] \in M!AllTuples
         /\ \A b \in Branches :
              group_tuples[n][b] \in DOMAIN filtered_groupset[b]
         /\ Taken(group_tuples[n]) \in [Branches -> Groups]
<1>1. group_tuples[n] \in M!AllTuples
  <2>1. M!MatchedInv /\ M!BoundaryInv /\ m_pc = "done"
    BY DEF StageInv, M!MergerInv
  <2>2. QED
    BY <2>1 DEF M!MatchedInv, M!BoundaryInv, M!Matched
<1>2. ASSUME NEW b \in Branches
      PROVE  group_tuples[n][b] \in DOMAIN filtered_groupset[b]
  <2>1. group_tuples[n][b] \in 1 .. MaxGroups
        /\ group_tuples[n][b] <= NumFiltered[b]
    BY <1>1 DEF M!AllTuples, M!Branches, M!Groups, Branches
  <2>2. NumFiltered[b] \in 0 .. MaxGroups /\ MaxGroups \in Nat
        /\ DOMAIN filtered_groupset[b] = 1 .. NumFiltered[b]
    BY KeptBounds, PipelineAssumption
  <2>3. QED
    BY <2>1, <2>2
<1>3. \A b \in Branches : Filtered(b, group_tuples[n][b]) \in Groups
  BY <1>2, KeptBounds, ElementOfSeq, LenProperties DEF Filtered
<1>4. QED
  BY <1>1, <1>2, <1>3 DEF Taken

\* Before it has begun, the ungrouper has no stream.
LEMMA UngroupStart ==
  stage \in {"join", "merger", "ungrouper"} /\ StageInv /\ U!Init => UngroupInv
<1> SUFFICES ASSUME stage \in {"join", "merger", "ungrouper"}, StageInv, U!Init
             PROVE  UngroupInv
  OBVIOUS
<1>1. Len(group_tuples) \in Nat
      /\ Len([n \in DOMAIN group_tuples |-> MatchedTuple(group_tuples[n])])
           = Len(group_tuples)
  BY TuplesType
<1>2. /\ u_i = 1 /\ u_j = 0 /\ recordset = <<>> /\ streamset = <<>>
      /\ stream_files = <<>> /\ u_returned = FALSE
  BY DEF U!Init
<1>3. <<>> \in Seq(Nat) /\ <<>> \in Seq(Seq(Nat)) /\ Len(streamset) = 0
  BY <1>2, EmptySeq
<1>4. U!TypeOK
  <2>1. NumBranches \in Nat
    BY PipelineAssumption
  <2>2. 1 \in 1 .. Len(group_tuples) + 1 /\ 0 \in 0 .. NumBranches + 1
    BY <1>1, <2>1
  <2>3. QED
    BY <1>1, <1>2, <1>3, <2>2 DEF U!TypeOK
<1>5. QED
  BY <1>2, <1>3, <1>4 DEF UngroupInv

\* The streams do not change when their tuples do not.
LEMMA UngroupStays ==
  ASSUME UngroupInv, UNCHANGED <<filtering, merging, ungrouping>>
  PROVE  UngroupInv'
<1>1. UNCHANGED <<filtered_groupset, group_tuples, u_i, u_j, recordset,
                  streamset, stream_files, u_returned>>
  BY DEF filtering, merging, ungrouping
<1>2. \A n : Taken(group_tuples[n])' = Taken(group_tuples[n])
  BY <1>1 DEF Taken, Filtered
<1>3. U!TypeOK' <=> U!TypeOK
  BY <1>1 DEF U!TypeOK, MatchedTuple, Filtered
<1>4. Taken(group_tuples[u_i])' = Taken(group_tuples[u_i])
  BY <1>1 DEF Taken, Filtered
<1>5. QED
  BY <1>1, <1>2, <1>3, <1>4 DEF UngroupInv

\* The invariant after a step of the ungrouper, of the same tuples.
LEMMA UngroupAfter ==
  ASSUME UNCHANGED <<filtering, merging>>,
         Len([n \in DOMAIN group_tuples |-> MatchedTuple(group_tuples[n])])
           = Len(group_tuples),
         u_i' \in 1 .. Len(group_tuples) + 1, u_j' \in 0 .. NumBranches + 1,
         recordset' \in Seq(Nat), streamset' \in Seq(Seq(Nat)),
         stream_files' \in Seq(Seq(Nat)), u_returned' \in BOOLEAN,
         u_j' > 0 => u_i' <= Len(group_tuples),
         u_returned' => u_i' = Len(group_tuples) + 1 /\ u_j' = 0,
         Len(streamset') = u_i' - 1,
         \A n \in 1 .. u_i' - 1 :
           streamset'[n] = Unfolded(Taken(group_tuples[n])),
         u_j' > 0 => recordset'
                       = Unfolding(Taken(group_tuples[u_i']))[u_j' - 1],
         stream_files' = IF u_j' > 0 THEN Append(streamset', recordset')
                                     ELSE streamset'
  PROVE  UngroupInv'
<1>1. filtered_groupset' = filtered_groupset /\ group_tuples' = group_tuples
  BY DEF filtering, merging
<1>2. \A n : Taken(group_tuples[n])' = Taken(group_tuples[n])
  BY <1>1 DEF Taken, Filtered
<1>3. Taken(group_tuples[u_i])' = Taken(group_tuples[u_i'])
  BY <1>1 DEF Taken, Filtered
<1>4. Len([n \in DOMAIN group_tuples |-> MatchedTuple(group_tuples[n])])'
        = Len(group_tuples)
  BY <1>1 DEF MatchedTuple, Filtered
<1>5. U!TypeOK'
  BY <1>4 DEF U!TypeOK
<1>6. QED
  BY <1>1, <1>2, <1>3, <1>5 DEF UngroupInv

\* The last element of a sequence is the one that changes.
LEMMA LastExtended ==
  ASSUME NEW S, NEW q \in Seq(S), NEW r \in S, NEW e \in S
  PROVE  /\ Append(q, r)[Len(q) + 1] = r
         /\ [Append(q, r) EXCEPT ![Len(q) + 1] = e] = Append(q, e)
<1> DEFINE p == Append(q, r)
<1> DEFINE n == Len(q) + 1
<1> DEFINE s == [p EXCEPT ![n] = e]
<1>1. /\ p \in Seq(S) /\ Len(p) = n /\ p[n] = r
      /\ \A l \in 1 .. Len(q) : p[l] = q[l]
  BY AppendProperties
<1>2. n \in 1 .. Len(p) /\ \A l \in 1 .. n : l = n \/ l \in 1 .. Len(q)
  BY <1>1, LenProperties
<1>3. /\ Append(q, e) \in Seq(S) /\ Len(Append(q, e)) = n
      /\ Append(q, e)[n] = e
      /\ \A l \in 1 .. Len(q) : Append(q, e)[l] = q[l]
  BY AppendProperties
<1> HIDE DEF p, n
<1>4. /\ s \in Seq(S) /\ Len(s) = Len(p)
      /\ \A l \in 1 .. Len(p) : s[l] = IF l = n THEN e ELSE p[l]
  BY <1>1, <1>2, ExceptSeq
<1> HIDE DEF s
<1>5. \A l \in 1 .. n : s[l] = Append(q, e)[l]
  BY <1>1, <1>2, <1>3, <1>4
<1>6. s = Append(q, e)
  BY <1>1, <1>3, <1>4, <1>5, SeqEqual
<1>7. QED
  BY <1>1, <1>6 DEF s, p, n

\* Every step of the ungrouper keeps its streams exact.
LEMMA UngroupNext ==
  ASSUME QueryOK, FiltersInv, StageInv, UngroupInv, Ungroup
  PROVE  UngroupInv'
<1> DEFINE T(n) == Taken(group_tuples[n])
<1>1. /\ stage = "ungrouper" /\ UNCHANGED <<filtering, merging>>
      /\ U!OpenStream \/ U!AddGroup \/ U!SaveStream \/ U!Return
  BY DEF Ungroup, U!Next
<1>2. /\ Len(group_tuples) \in Nat
      /\ DOMAIN group_tuples = 1 .. Len(group_tuples)
      /\ Len([n \in DOMAIN group_tuples |-> MatchedTuple(group_tuples[n])])
           = Len(group_tuples)
  BY <1>1, TuplesType
<1>3. /\ u_i \in 1 .. Len(group_tuples) + 1 /\ u_j \in 0 .. NumBranches + 1
      /\ recordset \in Seq(Nat) /\ streamset \in Seq(Seq(Nat))
      /\ stream_files \in Seq(Seq(Nat)) /\ u_returned \in BOOLEAN
      /\ NumBranches \in Nat \ {0}
  BY <1>2, PipelineAssumption DEF UngroupInv, U!TypeOK
<1>4. /\ u_j > 0 => u_i <= Len(group_tuples)
      /\ u_returned => u_i = Len(group_tuples) + 1 /\ u_j = 0
      /\ Len(streamset) = u_i - 1
      /\ \A n \in 1 .. u_i - 1 : streamset[n] = Unfolded(T(n))
      /\ u_j > 0 => recordset = Unfolding(T(u_i))[u_j - 1]
      /\ stream_files = IF u_j > 0 THEN Append(streamset, recordset)
                                   ELSE streamset
  BY DEF UngroupInv
<1> HIDE DEF T
<1>5. CASE U!OpenStream
  <2>1. /\ u_i <= Len(group_tuples) /\ u_j = 0 /\ u_j' = 1 /\ u_i' = u_i
        /\ recordset' = <<>> /\ streamset' = streamset
        /\ u_returned' = u_returned /\ stream_files' = Append(streamset, <<>>)
    BY <1>2, <1>4, <1>5 DEF U!OpenStream
  <2>2. ~ u_returned
    BY <1>2, <1>3, <1>4, <2>1
  <2>3. <<>> \in Seq(Nat) /\ Unfolding(T(u_i))[1 - 1] = <<>>
    <3>1. Unfolding(T(u_i))[0] = <<>>
      BY UnfoldingIs
    <3>2. QED
      BY <3>1, EmptySeq
  <2>4. Append(streamset, <<>>) \in Seq(Seq(Nat))
    BY <1>3, <2>3, AppendProperties
  <2>5. 1 \in 0 .. NumBranches + 1
    BY <1>3
  <2>6. QED
    BY <1>1, <1>2, <1>3, <1>4, <2>1, <2>2, <2>3, <2>4, <2>5, UngroupAfter DEF T
<1>6. CASE U!AddGroup
  <2> DEFINE m == Members[<<u_j, T(u_i)[u_j]>>]
  <2>1. u_j \in Branches /\ u_j > 0 /\ u_i <= Len(group_tuples)
        /\ u_i \in DOMAIN group_tuples
    BY <1>2, <1>3, <1>4, <1>6 DEF U!AddGroup, Branches
  <2>2. [n \in DOMAIN group_tuples |-> MatchedTuple(group_tuples[n])][u_i][u_j]
          = <<u_j, T(u_i)[u_j]>>
    BY <2>1 DEF MatchedTuple, T, Taken
  <2>3. /\ recordset' = recordset \o m
        /\ stream_files' = [stream_files EXCEPT ![u_i] = @ \o m]
        /\ u_j' = u_j + 1 /\ u_i' = u_i /\ streamset' = streamset
        /\ u_returned' = u_returned
    BY <1>6, <2>2 DEF U!AddGroup
  <2>4. m \in Seq(Nat)
    <3>1. T(u_i) \in [Branches -> Groups]
      BY <1>1, <2>1, TakenGroups DEF T
    <3>2. QED
      BY <2>1, <3>1, PipelineAssumption
  <2>5. recordset = Unfolding(T(u_i))[u_j - 1]
        /\ stream_files = Append(streamset, recordset)
    BY <1>4, <2>1
  <2>6. recordset' = Unfolding(T(u_i))[u_j]
    BY <2>1, <2>3, <2>5, UnfoldingIs
  <2> HIDE DEF m
  <2>7. recordset' \in Seq(Nat)
    BY <1>3, <2>3, <2>4, ConcatProperties
  <2>8. stream_files' = Append(streamset', recordset')
    <3> DEFINE r == recordset \o m
    <3>1. u_i = Len(streamset) + 1
      BY <1>2, <1>3, <1>4
    <3>2. r \in Seq(Nat)
      BY <2>3, <2>7
    <3> HIDE DEF r
    <3>3. /\ Append(streamset, recordset)[u_i] = recordset
          /\ [Append(streamset, recordset) EXCEPT ![u_i] = r]
               = Append(streamset, r)
      BY <1>3, <3>1, <3>2, LastExtended
    <3>4. QED
      BY <2>3, <2>5, <3>3 DEF r
  <2>9. stream_files' \in Seq(Seq(Nat))
    <3>1. streamset' \in Seq(Seq(Nat))
      BY <1>3, <2>3
    <3>2. QED
      BY <2>7, <2>8, <3>1, AppendProperties
  <2>10. u_j' \in 0 .. NumBranches + 1 /\ u_j' > 0 /\ u_j' - 1 = u_j /\ ~ u_returned
    BY <1>3, <1>4, <2>1, <2>3 DEF Branches
  <2>11. QED
    BY <1>1, <1>2, <1>3, <1>4, <2>1, <2>3, <2>6, <2>7, <2>8, <2>9, <2>10,
       UngroupAfter DEF T
<1>7. CASE U!SaveStream
  <2>1. /\ u_j = NumBranches + 1 /\ streamset' = Append(streamset, recordset)
        /\ u_i' = u_i + 1 /\ u_j' = 0
        /\ UNCHANGED <<recordset, stream_files, u_returned>>
    BY <1>3, <1>7 DEF U!SaveStream
  <2>2. /\ u_i <= Len(group_tuples) /\ ~ u_returned
        /\ recordset = Unfolded(T(u_i))
        /\ stream_files = Append(streamset, recordset)
    <3>1. u_j > 0 /\ u_j # 0 /\ u_j - 1 = NumBranches
      BY <1>3, <2>1
    <3>2. QED
      BY <1>4, <3>1 DEF Unfolded
  <2>3. /\ streamset' \in Seq(Seq(Nat)) /\ Len(streamset') = u_i
        /\ streamset'[u_i] = recordset
        /\ \A n \in 1 .. u_i - 1 : streamset'[n] = streamset[n]
    BY <1>3, <1>4, <2>1, AppendProperties
  <2>4. u_i + 1 \in 1 .. Len(group_tuples) + 1
    BY <1>2, <1>3, <2>2
  <2>5. \A n \in 1 .. (u_i + 1) - 1 : streamset'[n] = Unfolded(T(n))
    <3>1. \A n \in 1 .. (u_i + 1) - 1 : n \in 1 .. u_i - 1 \/ n = u_i
      BY <1>3
    <3>2. QED
      BY <1>4, <2>2, <2>3, <3>1
  <2>6. Len(streamset') = (u_i + 1) - 1 /\ 0 \in 0 .. NumBranches + 1
    BY <1>3, <2>3
  <2>7. QED
    BY <1>1, <1>2, <1>3, <2>1, <2>2, <2>3, <2>4, <2>5, <2>6, UngroupAfter DEF T
<1>8. CASE U!Return
  <2>1. /\ u_j = 0 /\ u_i = Len(group_tuples) + 1 /\ u_returned' = TRUE
        /\ UNCHANGED <<u_i, u_j, recordset, streamset, stream_files>>
    <3>1. /\ u_j = 0 /\ u_i > Len(group_tuples) /\ u_returned' = TRUE
          /\ UNCHANGED <<u_i, u_j, recordset, streamset, stream_files>>
      BY <1>2, <1>8 DEF U!Return
    <3>2. u_i = Len(group_tuples) + 1
      BY <1>2, <1>3, <3>1
    <3>3. QED
      BY <3>1, <3>2
  <2>2. QED
    BY <1>1, <1>2, <1>3, <1>4, <2>1, UngroupAfter DEF T
<1>9. QED
  BY <1>1, <1>5, <1>6, <1>7, <1>8

-----------------------------------------------------------------------------
(* The invariant.                                                          *)

\* The merger's invariant holds when the merger begins, and goes on to hold
\* while it runs and after.
LEMMA MergerBegins == M!Init => M!MergerInv
BY SameMerger, SameMergerInv, MP!InvInit, MergerAssumed

LEMMA MergerGoesOn ==
  ASSUME M!MergerInv, M!Next \/ UNCHANGED <<query, filtering, merging>>
  PROVE  M!MergerInv'
<1>1. UNCHANGED <<query, filtering, merging>> => UNCHANGED MP!vars
  BY DEF query, filtering, merging, MP!vars, MP!inputs, MP!iter, NumFiltered,
         OnFiltered, Filtered
<1>2. MP!MergerInv /\ [MP!Next]_MP!vars
  BY <1>1, SameMerger, SameMergerInv
<1>3. MP!MergerInv'
  BY <1>2, MP!InvNext, MergerAssumed
<1>4. M!MergerInv' <=> MP!MergerInv'
  BY SameMergerInv, PTL
<1>5. QED
  BY <1>3, <1>4

\* The composition starts in its invariant.
LEMMA InvInit == Init => PipelineInv
<1> SUFFICES ASSUME Init PROVE PipelineInv
  OBVIOUS
<1>1. QueryOK /\ stage = "join" /\ GF!Init /\ M!Init /\ U!Init
  BY DEF Init, QueryOK
<1>2. ASSUME NEW b \in Branches PROVE FilterInv(b)
  <2>1. /\ g_i[b] = 1 /\ g_k[b] = 1 /\ filtered_groupset[b] = <<>>
        /\ g_returned = {}
    BY <1>1 DEF GF!Init
  <2>2. /\ 1 \in 1 .. num_groups[b] + 1
        /\ 1 \in 1 .. Len(groupfilter_clauseset[b]) + 1
        /\ 1 .. 1 - 1 = {}
    BY <1>1, QueryFacts
  <2>3. <<>> \in Seq(Groups) /\ Len(<<>>) < 1 /\ DOMAIN <<>> = {}
    BY EmptySeq
  <2>4. QED
    BY <2>1, <2>2, <2>3 DEF FilterInv
<1>3. FiltersInv
  <2>1. <<>> \in Seq(Nat)
    BY EmptySeq
  <2>2. QED
    BY <1>1, <1>2, <2>1 DEF FiltersInv, GF!Init
<1>4. StageInv
  BY <1>1 DEF StageInv
<1>5. UngroupInv
  BY <1>1, <1>4, UngroupStart
<1>6. QED
  BY <1>1, <1>3, <1>4, <1>5 DEF PipelineInv, QueryOK

\* A thread only moves before main goes on.
LEMMA ThreadsFirst ==
  ASSUME StageInv, NEW b \in Branches, Thread(b)
  PROVE  stage = "join"
<1>1. b \notin g_returned
  BY DEF Thread, GF!Next, GF!Keep, GF!NextClause, GF!Drop, GF!Return, GF!AtGroup
<1>2. QED
  BY <1>1 DEF StageInv

\* Every step preserves the invariant.
LEMMA InvNext == PipelineInv /\ [Next]_vars => PipelineInv'
<1> SUFFICES ASSUME PipelineInv, [Next]_vars PROVE PipelineInv'
  OBVIOUS
<1>1. /\ QueryOK /\ stage \in {"join", "merger", "ungrouper"}
      /\ FiltersInv /\ StageInv /\ UngroupInv
  BY DEF PipelineInv, QueryOK
<1>2. UNCHANGED query /\ stage' \in {"join", "merger", "ungrouper"}
  BY <1>1 DEF Next, Thread, Join, Merge, Ungroup, vars
<1>3. QueryOK'
  BY <1>1, <1>2 DEF QueryOK, query
<1>4. UNCHANGED ungrouping => (U!Init' <=> U!Init)
  BY DEF ungrouping, U!Init
<1>5. (stage \in {"join", "merger", "ungrouper"} /\ StageInv /\ U!Init)'
        => UngroupInv'
  BY UngroupStart, PTL
<1>6. ASSUME FiltersInv', StageInv', UngroupInv' PROVE PipelineInv'
  BY <1>2, <1>3, <1>6 DEF PipelineInv, QueryOK
<1>7. ASSUME NEW b \in Branches, Thread(b) PROVE PipelineInv'
  <2>1. stage = "join" /\ stage' = "join"
    BY <1>1, <1>7, ThreadsFirst DEF Thread
  <2>2. FiltersInv'
    BY <1>1, <1>7, FiltersThread
  <2>3. M!Init' /\ U!Init'
    BY <1>1, <1>3, <1>4, <1>7, <2>1, <2>2, MergerStays DEF Thread, StageInv
  <2>4. StageInv'
    BY <2>1, <2>3 DEF StageInv
  <2>5. QED
    BY <1>2, <1>5, <1>6, <2>2, <2>3, <2>4
<1>8. CASE Join
  <2>1. /\ stage = "join" /\ stage' = "merger" /\ Branches \subseteq g_returned
        /\ UNCHANGED <<query, filtering, merging, ungrouping>>
    BY <1>8 DEF Join
  <2>2. FiltersInv'
    BY <1>1, <2>1, FiltersStay
  <2>3. M!MergerInv'
    BY <1>1, <2>1, MergerBegins, MergerGoesOn DEF StageInv
  <2>4. U!Init'
    BY <1>1, <1>4, <2>1 DEF StageInv
  <2>5. StageInv'
    BY <2>1, <2>3, <2>4 DEF StageInv, filtering
  <2>6. QED
    BY <1>2, <1>5, <1>6, <2>2, <2>4, <2>5
<1>9. CASE Merge
  <2>1. /\ stage = "merger" /\ UNCHANGED <<query, filtering, ungrouping>>
        /\ M!Next /\ stage' = IF m_pc' = "done" THEN "ungrouper" ELSE stage
    BY <1>9 DEF Merge
  <2>2. FiltersInv'
    BY <1>1, <2>1, FiltersStay
  <2>3. M!MergerInv'
    BY <1>1, <2>1, MergerGoesOn DEF StageInv
  <2>4. U!Init'
    BY <1>1, <1>4, <2>1 DEF StageInv
  <2>5. StageInv'
    BY <1>1, <2>1, <2>3, <2>4 DEF StageInv, filtering
  <2>6. QED
    BY <1>2, <1>5, <1>6, <2>2, <2>4, <2>5
<1>10. CASE Ungroup
  <2>1. /\ stage = "ungrouper" /\ stage' = stage
        /\ UNCHANGED <<query, filtering, merging>>
    BY <1>10 DEF Ungroup
  <2>2. FiltersInv'
    BY <1>1, <2>1, FiltersStay
  <2>3. M!MergerInv'
    BY <1>1, <2>1, MergerGoesOn DEF StageInv
  <2>4. StageInv'
    BY <1>1, <2>1, <2>3 DEF StageInv, filtering, merging
  <2>5. UngroupInv'
    BY <1>1, <1>10, UngroupNext
  <2>6. QED
    BY <1>6, <2>2, <2>4, <2>5
<1>11. CASE UNCHANGED vars
  <2>1. UNCHANGED <<query, filtering, merging, ungrouping, stage>>
    BY <1>11 DEF vars
  <2>2. FiltersInv'
    BY <1>1, <2>1, FiltersStay
  <2>3. stage = "join" => M!Init'
    BY <1>1, <1>3, <2>1, <2>2, MergerStays DEF StageInv
  <2>4. stage # "join" => M!MergerInv'
    BY <1>1, <2>1, MergerGoesOn DEF StageInv
  <2>5. StageInv'
    BY <1>1, <1>4, <2>1, <2>3, <2>4 DEF StageInv, filtering, merging
  <2>6. UngroupInv'
    BY <1>1, <2>1, UngroupStays
  <2>7. QED
    BY <1>6, <2>2, <2>5, <2>6
<1>12. QED
  BY <1>7, <1>8, <1>9, <1>10, <1>11 DEF Next

\* The invariant holds in every reachable state, for any number of branches,
\* any groups and members, and any group filters and mergers.
THEOREM Invariance == Spec => []PipelineInv
<1>1. QED
  BY InvInit, InvNext, PTL DEF Spec

\* Type correctness of the three stages together.
THEOREM TypeCorrect == Spec => []TypeOK
<1>1. PipelineInv => TypeOK
  <2> SUFFICES ASSUME PipelineInv PROVE TypeOK
    OBVIOUS
  <2>1. /\ QueryOK /\ stage \in {"join", "merger", "ungrouper"}
        /\ FiltersInv /\ StageInv /\ UngroupInv
    BY DEF PipelineInv, QueryOK
  <2>2. GF!TypeOK
    BY <2>1 DEF GF!TypeOK, FiltersInv, FilterInv
  <2>3. M!TypeOK
    <3>1. M!MergerInv
      BY <2>1, MergerBegins DEF StageInv
    <3>2. QED
      BY <3>1 DEF M!MergerInv
  <2>4. U!TypeOK
    BY <2>1 DEF UngroupInv
  <2>5. QED
    BY <2>1, <2>2, <2>3, <2>4 DEF TypeOK, QueryOK
<1>2. QED
  BY <1>1, Invariance, PTL

\* The files of the group filters and of the ungrouper show in the end what
\* went on to the merger and what the streams are.
THEOREM FilesCorrect == Spec => []FilesAgree
<1>1. PipelineInv => FilesAgree
  BY DEF PipelineInv, FiltersInv, UngroupInv, FilesAgree
<1>2. QED
  BY <1>1, Invariance, PTL

-----------------------------------------------------------------------------
(* The answer.                                                             *)

\* The groups of the n-th tuple.
Row(n) == Taken(group_tuples[n])

\* The order of the streams is that of the merger's iterator.
LEMMA PrecedesIff ==
  ASSUME NEW t \in [Branches -> Nat], NEW u \in [Branches -> Nat]
  PROVE  Precedes(t, u) <=> MP!LexLess(t, u)
<1>1. Branches = MP!Branches
  BY DEF Branches, MP!Branches
<1>2. QED
  BY <1>1, MP!LexLessIff, MergerAssumed DEF Precedes

\* A sequence without repetition is as long as its elements are many.
LEMMA CountDistinct ==
  ASSUME NEW n \in Nat, NEW f, f = [m \in 1 .. n |-> f[m]],
         \A l, m \in 1 .. n : f[l] = f[m] => l = m
  PROVE  Cardinality({f[m] : m \in 1 .. n}) = n
<1> DEFINE S == {f[m] : m \in 1 .. n}
<1>1. f \in [1 .. n -> S] /\ \A x \in S : \E m \in 1 .. n : f[m] = x
  OBVIOUS
<1>2. f \in Bijection(1 .. n, S)
  <2> HIDE DEF S
  <2> QED
    BY <1>1 DEF Bijection, Injection, Surjection, IsInjective
<1>3. QED
  BY <1>2, FS_CountingElements DEF ExistsBijection

\* When the threads have returned, what is kept are the groups that pass.
LEMMA KeptFinal ==
  ASSUME PipelineInv, stage # "join", NEW b \in Branches
  PROVE  /\ {filtered_groupset[b][n] : n \in DOMAIN filtered_groupset[b]}
              = {g \in 1 .. num_groups[b] : PassesGroupFilter(b, g)}
         /\ \A m, n \in DOMAIN filtered_groupset[b] :
              m < n => filtered_groupset[b][m] < filtered_groupset[b][n]
         /\ filtered_groupset[b] \in Seq(Groups)
         /\ DOMAIN filtered_groupset[b] = 1 .. NumFiltered[b]
         /\ NumFiltered[b] \in 0 .. MaxGroups
         /\ 1 .. num_groups[b] \subseteq Groups
         /\ num_groups[b] \in Nat
<1>1. QueryOK /\ FiltersInv /\ StageInv
  BY DEF PipelineInv, QueryOK
<1>2. FilterInv(b) /\ b \in g_returned
  BY <1>1 DEF FiltersInv, StageInv
<1>3. g_i[b] = num_groups[b] + 1 /\ num_groups[b] \in Nat
  BY <1>1, <1>2, QueryFacts DEF FilterInv
<1>4. g_i[b] - 1 = num_groups[b]
  BY <1>3
<1>5. QED
  BY <1>1, <1>2, <1>3, <1>4, KeptBounds, QueryFacts DEF FilterInv

\* The tuples of the groups that are left, as the merger sees them.
LEMMA TuplesAre ==
  ASSUME PipelineInv, stage # "join", NEW t
  PROVE  t \in MP!AllTuples <=>
           /\ t \in [Branches -> Nat]
           /\ \A b \in Branches : t[b] \in DOMAIN filtered_groupset[b]
<1>1. \A b \in Branches :
        /\ DOMAIN filtered_groupset[b] = 1 .. NumFiltered[b]
        /\ NumFiltered[b] \in 0 .. MaxGroups
  BY KeptFinal
<1>2. MaxGroups \in Nat
  BY PipelineAssumption
<1>3. MP!AllTuples = {s \in [Branches -> Groups] :
                        \A b \in Branches : s[b] <= NumFiltered[b]}
  BY DEF MP!AllTuples, MP!Branches, MP!Groups, Branches, Groups
<1>4. ASSUME NEW b \in Branches, NEW n
      PROVE  n \in Groups /\ n <= NumFiltered[b]
               <=> n \in DOMAIN filtered_groupset[b]
  BY <1>1, <1>2 DEF Groups
<1>5. ASSUME NEW b \in Branches, NEW n \in DOMAIN filtered_groupset[b]
      PROVE  n \in Nat /\ n \in Groups
  BY <1>1, <1>4, <1>5
<1>6. Groups \subseteq Nat
  BY DEF Groups
<1>7. ASSUME t \in MP!AllTuples
      PROVE  /\ t \in [Branches -> Nat]
             /\ \A b \in Branches : t[b] \in DOMAIN filtered_groupset[b]
  BY <1>3, <1>4, <1>6, <1>7
<1>8. ASSUME t \in [Branches -> Nat],
             \A b \in Branches : t[b] \in DOMAIN filtered_groupset[b]
      PROVE  t \in MP!AllTuples
  <2>1. \A b \in Branches : t[b] \in Groups /\ t[b] <= NumFiltered[b]
    BY <1>4, <1>8
  <2>2. t \in [Branches -> Groups]
    BY <1>8, <2>1
  <2>3. QED
    BY <1>3, <2>1, <2>2
<1>9. QED
  BY <1>7, <1>8

\* A tuple of theirs satisfies the merger's first clause exactly when the
\* groups it stands for do.
LEMMA ClauseOfTaken ==
  ASSUME PipelineInv, stage # "join", NEW t \in MP!AllTuples
  PROVE  MP!FirstClauseHolds(t) <=> PassesMerger(Taken(t))
<1> DEFINE mapped == [c \in DOMAIN merger_clauseset |->
                        [n \in DOMAIN merger_clauseset[c] |->
                           OnFiltered(merger_clauseset[c][n])]]
<1>1. merger_clauseset \in Seq(Seq(MergerTerm))
  BY PipelineAssumption DEF PipelineInv
<1>2. \A b \in Branches : t[b] \in 1 .. NumFiltered[b]
  BY TuplesAre, KeptFinal
<1>3. CASE merger_clauseset = <<>>
  <2>1. mapped = <<>>
    BY <1>3
  <2>2. QED
    BY <1>3, <2>1 DEF MP!FirstClauseHolds, PassesMerger
<1>4. CASE merger_clauseset # <<>>
  <2>1. 1 \in DOMAIN merger_clauseset /\ merger_clauseset[1] \in Seq(MergerTerm)
    <3>1. Len(merger_clauseset) \in Nat /\ Len(merger_clauseset) # 0
          /\ DOMAIN merger_clauseset = 1 .. Len(merger_clauseset)
      BY <1>1, <1>4, EmptySeq, LenProperties
    <3>2. 1 \in 1 .. Len(merger_clauseset)
      BY <3>1
    <3>3. QED
      BY <1>1, <3>1, <3>2, ElementOfSeq
  <2>2. mapped # <<>>
    <3>1. DOMAIN mapped = DOMAIN merger_clauseset /\ DOMAIN <<>> = {}
      BY EmptySeq
    <3>2. QED
      BY <2>1, <3>1
  <2>3. ASSUME NEW n \in DOMAIN merger_clauseset[1]
        PROVE  LET term == merger_clauseset[1][n]
               IN <<t[term.branch1], t[term.branch2]>> \in OnFiltered(term).func
                  <=> <<Taken(t)[term.branch1], Taken(t)[term.branch2]>>
                        \in term.func
    <3> DEFINE term == merger_clauseset[1][n]
    <3>1. term \in MergerTerm
      BY <2>1, <2>3, ElementOfSeq, LenProperties
    <3> HIDE DEF term
    <3>2. term.branch1 \in Branches /\ term.branch2 \in Branches
      BY <3>1 DEF MergerTerm
    <3>3. OnFiltered(term).func =
            {p \in (1 .. NumFiltered[term.branch1])
                     \X (1 .. NumFiltered[term.branch2]) :
               <<Filtered(term.branch1, p[1]), Filtered(term.branch2, p[2])>>
                 \in term.func}
      BY <3>1 DEF OnFiltered, MergerTerm
    <3>4. Taken(t)[term.branch1] = Filtered(term.branch1, t[term.branch1])
          /\ Taken(t)[term.branch2] = Filtered(term.branch2, t[term.branch2])
      BY <3>2 DEF Taken
    <3>5. QED
      BY <1>2, <3>2, <3>3, <3>4 DEF term
  <2>4. mapped[1] = [n \in DOMAIN merger_clauseset[1] |->
                       OnFiltered(merger_clauseset[1][n])]
    BY <2>1
  <2>5. MP!FirstClauseHolds(t) <=>
          \A n \in DOMAIN mapped[1] : MP!TermHolds(mapped[1][n], t)
    BY <2>2 DEF MP!FirstClauseHolds, MP!ClauseHolds
  <2> HIDE DEF mapped
  <2>6. \A n \in DOMAIN merger_clauseset[1] :
          mapped[1][n] = OnFiltered(merger_clauseset[1][n])
    BY <2>4
  <2>7. \A n \in DOMAIN merger_clauseset[1] :
          LET term == merger_clauseset[1][n]
          IN  OnFiltered(term).branch1 = term.branch1
              /\ OnFiltered(term).branch2 = term.branch2
    <3>1. \A n \in DOMAIN merger_clauseset[1] :
            merger_clauseset[1][n] \in MergerTerm
      BY <2>1, ElementOfSeq, LenProperties
    <3>2. QED
      BY <3>1 DEF OnFiltered, MergerTerm
  <2>8. \A n \in DOMAIN merger_clauseset[1] :
          MP!TermHolds(mapped[1][n], t)
            <=> LET term == merger_clauseset[1][n]
                IN <<t[term.branch1], t[term.branch2]>>
                     \in OnFiltered(term).func
    BY <2>6, <2>7 DEF MP!TermHolds
  <2>9. DOMAIN mapped[1] = DOMAIN merger_clauseset[1]
    BY <2>4
  <2>10. QED
    BY <1>4, <2>3, <2>5, <2>8, <2>9 DEF PassesMerger
<1>5. QED
  BY <1>3, <1>4

\* The tuples in the merger's result, when it has returned.
LEMMA MatchedAre ==
  ASSUME PipelineInv, stage = "ungrouper"
  PROVE  /\ group_tuples \in Seq([Branches -> Groups])
         /\ Len(group_tuples) \in Nat
         /\ DOMAIN group_tuples = 1 .. Len(group_tuples)
         /\ {group_tuples[n] : n \in DOMAIN group_tuples}
              = {t \in MP!AllTuples : MP!FirstClauseHolds(t)}
         /\ \A m, n \in DOMAIN group_tuples :
              m < n => MP!LexLess(group_tuples[m], group_tuples[n])
<1>1. StageInv /\ stage \in {"join", "merger", "ungrouper"}
  BY DEF PipelineInv
<1>2. MP!MergerInv /\ m_pc = "done"
  BY <1>1, SameMergerInv DEF StageInv
<1>3. MP!Matched = {t \in MP!AllTuples : MP!FirstClauseHolds(t)}
      /\ MP!MatchedInOrder
  BY <1>2 DEF MP!MergerInv, MP!MatchedInv, MP!BoundaryInv
<1>4. QED
  BY <1>1, <1>3, TuplesType DEF MP!Matched, MP!MatchedInOrder

\* The rows are the tuples of groups that the query asks for.
LEMMA RowsAreWanted ==
  ASSUME PipelineInv, stage = "ungrouper"
  PROVE  {Row(n) : n \in 1 .. Len(group_tuples)} = WantedTuples
<1>1. ASSUME NEW n \in 1 .. Len(group_tuples) PROVE Row(n) \in WantedTuples
  <2> DEFINE t == group_tuples[n]
  <2>1. t \in MP!AllTuples /\ MP!FirstClauseHolds(t)
    BY <1>1, MatchedAre
  <2> HIDE DEF t
  <2>2. ASSUME NEW b \in Branches
        PROVE  /\ Taken(t)[b] \in 1 .. num_groups[b]
               /\ Taken(t)[b] \in Groups /\ Taken(t)[b] <= num_groups[b]
               /\ PassesGroupFilter(b, Taken(t)[b])
    <3>1. t[b] \in DOMAIN filtered_groupset[b]
      BY <2>1, TuplesAre
    <3>2. Taken(t)[b] = filtered_groupset[b][t[b]]
      BY DEF Taken, Filtered
    <3>3. Taken(t)[b] \in {g \in 1 .. num_groups[b] : PassesGroupFilter(b, g)}
      BY <3>1, <3>2, KeptFinal
    <3>4. num_groups[b] \in Nat /\ 1 .. num_groups[b] \subseteq Groups
      BY KeptFinal
    <3>5. QED
      BY <3>3, <3>4
  <2>3. Taken(t) \in [Branches -> Groups]
    BY <2>2 DEF Taken
  <2>4. PassesMerger(Taken(t))
    BY <2>1, ClauseOfTaken
  <2>5. Row(n) = Taken(t)
    BY DEF Row, t
  <2>6. QED
    BY <2>2, <2>3, <2>4, <2>5 DEF WantedTuples
<1>2. ASSUME NEW w \in WantedTuples
      PROVE  \E n \in 1 .. Len(group_tuples) : Row(n) = w
  <2>1. w \in [Branches -> Groups] /\ PassesMerger(w)
    BY DEF WantedTuples
  <2>2. ASSUME NEW b \in Branches
        PROVE  \E n \in DOMAIN filtered_groupset[b] :
                 filtered_groupset[b][n] = w[b]
    <3>1. w[b] <= num_groups[b] /\ PassesGroupFilter(b, w[b])
          /\ w[b] \in Groups /\ num_groups[b] \in Nat
      BY <2>1, KeptFinal DEF WantedTuples
    <3>2. w[b] \in 1 .. num_groups[b]
      BY <3>1, PipelineAssumption DEF Groups
    <3>3. w[b] \in {g \in 1 .. num_groups[b] : PassesGroupFilter(b, g)}
      BY <3>1, <3>2
    <3>4. QED
      BY <3>3, KeptFinal
  <2> DEFINE place(b) == CHOOSE n \in DOMAIN filtered_groupset[b] :
                           filtered_groupset[b][n] = w[b]
  <2> DEFINE t == [b \in Branches |-> place(b)]
  <2>3. ASSUME NEW b \in Branches
        PROVE  /\ place(b) \in DOMAIN filtered_groupset[b]
               /\ filtered_groupset[b][place(b)] = w[b]
    BY <2>2
  <2> HIDE DEF place
  <2>4. ASSUME NEW b \in Branches PROVE place(b) \in Nat
    <3>1. \A n \in DOMAIN filtered_groupset[b] : n \in Nat
      BY KeptFinal, PipelineAssumption
    <3>2. QED
      BY <2>3, <3>1
  <2>5. t \in [Branches -> Nat]
        /\ \A b \in Branches : t[b] \in DOMAIN filtered_groupset[b]
    BY <2>3, <2>4
  <2>6. t \in MP!AllTuples
    BY <2>5, TuplesAre
  <2>7. Taken(t) = w
    <3>1. \A b \in Branches : Taken(t)[b] = w[b]
      BY <2>3 DEF Taken, Filtered
    <3>2. Taken(t) = [b \in Branches |-> Taken(t)[b]]
      BY DEF Taken
    <3>3. w = [b \in Branches |-> w[b]]
      BY <2>1
    <3>4. QED
      BY <3>1, <3>2, <3>3, Zenon
  <2>8. MP!FirstClauseHolds(t)
    BY <2>1, <2>6, <2>7, ClauseOfTaken
  <2> HIDE DEF t
  <2>9. PICK n \in DOMAIN group_tuples : group_tuples[n] = t
    BY <2>6, <2>8, MatchedAre
  <2>10. QED
    BY <2>7, <2>9, MatchedAre DEF Row
<1>3. QED
  BY <1>1, <1>2

\* The rows come in the order of the groups.
LEMMA RowsInOrder ==
  ASSUME PipelineInv, stage = "ungrouper",
         NEW m \in 1 .. Len(group_tuples), NEW n \in 1 .. Len(group_tuples)
  PROVE  /\ Row(m) \in [Branches -> Nat]
         /\ m < n => Precedes(Row(m), Row(n))
<1>1. ASSUME NEW l \in 1 .. Len(group_tuples)
      PROVE  /\ group_tuples[l] \in [Branches -> Nat]
             /\ \A b \in Branches :
                  /\ group_tuples[l][b] \in DOMAIN filtered_groupset[b]
                  /\ Row(l)[b] = filtered_groupset[b][group_tuples[l][b]]
  <2>1. group_tuples[l] \in MP!AllTuples
    BY MatchedAre
  <2>2. QED
    BY <2>1, TuplesAre DEF Row, Taken, Filtered
<1>2. Row(m) \in [Branches -> Nat]
  <2>1. Row(m) \in WantedTuples
    BY RowsAreWanted
  <2>2. QED
    BY <2>1 DEF WantedTuples, Groups
<1>3. ASSUME m < n PROVE Precedes(Row(m), Row(n))
  <2>1. MP!LexLess(group_tuples[m], group_tuples[n])
    BY <1>3, MatchedAre
  <2>2. Precedes(group_tuples[m], group_tuples[n])
    BY <1>1, <2>1, PrecedesIff
  <2>3. PICK b \in Branches :
          /\ group_tuples[m][b] < group_tuples[n][b]
          /\ \A c \in 1 .. b - 1 : group_tuples[m][c] = group_tuples[n][c]
    BY <2>2 DEF Precedes
  <2>4. Row(m)[b] < Row(n)[b]
    BY <1>1, <2>3, KeptFinal
  <2>5. \A c \in 1 .. b - 1 : c \in Branches
    BY PipelineAssumption DEF Branches
  <2>6. \A c \in 1 .. b - 1 : Row(m)[c] = Row(n)[c]
    BY <1>1, <2>3, <2>5
  <2>7. QED
    BY <2>4, <2>6 DEF Precedes
<1>4. QED
  BY <1>2, <1>3

\* No row comes before itself or before an earlier one.
LEMMA RowsOrdered ==
  ASSUME PipelineInv, stage = "ungrouper",
         NEW m \in 1 .. Len(group_tuples), NEW n \in 1 .. Len(group_tuples)
  PROVE  /\ Precedes(Row(m), Row(n)) <=> m < n
         /\ Row(m) = Row(n) => m = n
<1>1. /\ Row(m) \in [Branches -> Nat] /\ Row(n) \in [Branches -> Nat]
      /\ m < n => Precedes(Row(m), Row(n))
      /\ n < m => Precedes(Row(n), Row(m))
  BY RowsInOrder
<1>2. ~ Precedes(Row(m), Row(m))
  BY <1>1, PrecedesIff DEF MP!LexLess
<1>3. Precedes(Row(m), Row(n)) => ~ Precedes(Row(n), Row(m))
  BY <1>1, PrecedesIff, MP!LexLessAsymmetric, MergerAssumed
     DEF MP!Branches, Branches
<1>4. m = n => Row(m) = Row(n)
  OBVIOUS
<1>5. m < n \/ m = n \/ n < m
  <2>1. Len(group_tuples) \in Nat
    BY MatchedAre
  <2>2. QED
    BY <2>1
<1>6. m < n => m # n
  OBVIOUS
<1>7. QED
  BY <1>1, <1>2, <1>3, <1>4, <1>5, <1>6

\* As many rows have been joined as there are tuples that are asked for, and
\* every one of them stands at the place its predecessors leave it.
LEMMA RowsCounted ==
  ASSUME PipelineInv, stage = "ungrouper"
  PROVE  /\ Cardinality(WantedTuples) = Len(group_tuples)
         /\ \A n \in 1 .. Len(group_tuples) :
              Cardinality({u \in WantedTuples : Precedes(u, Row(n))}) = n - 1
<1> DEFINE L == Len(group_tuples)
<1>1. L \in Nat
  BY MatchedAre
<1>2. {Row(m) : m \in 1 .. L} = WantedTuples
  BY RowsAreWanted
<1>3. \A l, m \in 1 .. L :
        /\ Precedes(Row(l), Row(m)) <=> l < m
        /\ Row(l) = Row(m) => l = m
  BY RowsOrdered
<1> HIDE DEF L
<1> DEFINE f(n) == [m \in 1 .. n |-> Row(m)]
<1>4. ASSUME NEW n \in Nat, n <= L
      PROVE  Cardinality({Row(m) : m \in 1 .. n}) = n
  <2>1. 1 .. n \subseteq 1 .. L
    BY <1>1, <1>4
  <2>2. \A m \in 1 .. n : f(n)[m] = Row(m)
    OBVIOUS
  <2>3. f(n) = [m \in 1 .. n |-> f(n)[m]]
    BY <2>2
  <2>4. {f(n)[m] : m \in 1 .. n} = {Row(m) : m \in 1 .. n}
    BY <2>2
  <2>5. \A l, m \in 1 .. n : f(n)[l] = f(n)[m] => l = m
    BY <1>3, <2>1, <2>2
  <2> HIDE DEF f
  <2>6. Cardinality({f(n)[m] : m \in 1 .. n}) = n
    BY <2>3, <2>5, CountDistinct
  <2>7. QED
    BY <2>4, <2>6
<1>5. Cardinality(WantedTuples) = L
  BY <1>1, <1>2, <1>4
<1>6. ASSUME NEW n \in 1 .. L
      PROVE  Cardinality({u \in WantedTuples : Precedes(u, Row(n))}) = n - 1
  <2>1. n - 1 \in Nat /\ n - 1 <= L
        /\ \A m \in 1 .. L : m < n <=> m \in 1 .. n - 1
        /\ 1 .. n - 1 \subseteq 1 .. L
    BY <1>1
  <2>2. {u \in WantedTuples : Precedes(u, Row(n))}
          = {Row(m) : m \in 1 .. n - 1}
    BY <1>2, <1>3, <2>1
  <2>3. Cardinality({Row(m) : m \in 1 .. n - 1}) = n - 1
    BY <1>4, <2>1
  <2>4. QED
    BY <2>2, <2>3
<1>7. QED
  BY <1>5, <1>6 DEF L

\* The invariant gives the whole answer once the ungrouper has returned.
LEMMA AnswerFollows ==
  ASSUME PipelineInv
  PROVE  AnswerExact
<1> SUFFICES ASSUME u_returned PROVE AnswerExact
  BY DEF AnswerExact
<1>1. stage = "ungrouper"
  <2>1. stage # "ungrouper" => U!Init
    BY DEF PipelineInv, StageInv
  <2>2. U!Init => ~ u_returned
    BY DEF U!Init
  <2>3. QED
    BY <2>1, <2>2
<1>2. u_i = Len(group_tuples) + 1 /\ Len(streamset) = u_i - 1
      /\ \A n \in 1 .. u_i - 1 : streamset[n] = Unfolded(Row(n))
  BY DEF PipelineInv, UngroupInv, Row
<1>3. Len(group_tuples) \in Nat
  BY <1>1, MatchedAre
<1>4. u_i - 1 = Len(group_tuples)
  BY <1>2, <1>3
<1>5. Len(streamset) = Cardinality(WantedTuples)
  BY <1>1, <1>2, <1>4, RowsCounted
<1>6. ASSUME NEW t \in WantedTuples
      PROVE  streamset[Cardinality({u \in WantedTuples : Precedes(u, t)}) + 1]
               = Unfolded(t)
  <2>1. PICK n \in 1 .. Len(group_tuples) : Row(n) = t
    BY <1>1, RowsAreWanted
  <2>2. Cardinality({u \in WantedTuples : Precedes(u, t)}) = n - 1
    BY <1>1, <2>1, RowsCounted
  <2>3. n - 1 + 1 = n
    BY <1>3
  <2>4. streamset[n] = Unfolded(Row(n))
    BY <1>2, <1>4
  <2>5. QED
    BY <2>1, <2>2, <2>3, <2>4
<1>7. QED
  BY <1>5, <1>6 DEF AnswerExact

\* Once the ungrouper has returned there is one stream for every tuple of
\* groups that pass the group filters of their branches and together pass the
\* merger, in the order of the groups, and each holds the members of all the
\* groups of its tuple: group filter, merger and ungrouper together, for any
\* number of branches and groups and any query of the sets.
THEOREM AnswerCorrect == Spec => []AnswerExact
<1>1. PipelineInv => AnswerExact
  BY AnswerFollows
<1>2. QED
  BY <1>1, Invariance, PTL
=============================================================================
