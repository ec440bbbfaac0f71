--------------------------- MODULE GrouperProofs ----------------------------
(***************************************************************************)
(* The scan of the grouper for any records, clauses and comparators: every *)
(* clause takes every record exactly once, the time bounds of the groups   *)
(* are exact, and the groups are the blocks of a partition. The aggregates *)
(* of every group are those of its members, and the variables keep their   *)
(* types.                                                                  *)
(***************************************************************************)
EXTENDS Grouper, AggregatesProofs

-----------------------------------------------------------------------------
(* Sequences and sets.                                                     *)

\* A sequence of anything is one of its own elements.
LEMMA OwnRange ==
  ASSUME NEW S, NEW q \in Seq(S)
  PROVE  /\ q \in Seq(Range(q))
         /\ Len(q) \in Nat
         /\ DOMAIN q = 1 .. Len(q)
<1>1. Len(q) \in Nat /\ DOMAIN q = 1 .. Len(q)
  BY LenProperties
<1>2. \A n \in 1 .. Len(q) : q[n] \in Range(q)
  BY <1>1 DEF Range
<1>3. q = [n \in 1 .. Len(q) |-> q[n]]
  BY <1>1, LenProperties
<1> DEFINE e(n) == q[n]
<1>4. [n \in 1 .. Len(q) |-> e(n)] \in Seq(Range(q))
  <2>1. \A n \in 1 .. Len(q) : e(n) \in Range(q)
    BY <1>2
  <2> HIDE DEF e
  <2>2. QED
    BY <1>1, <2>1, IsASeq
<1>5. QED
  BY <1>1, <1>3, <1>4

\* The same of a sequence with one more element.
LEMMA AppendOwn ==
  ASSUME NEW q, q \in Seq(Range(q)), NEW x
  PROVE  /\ Append(q, x) \in Seq(Range(Append(q, x)))
         /\ Len(q) \in Nat
         /\ DOMAIN q = 1 .. Len(q)
         /\ Len(Append(q, x)) = Len(q) + 1
         /\ DOMAIN Append(q, x) = 1 .. Len(q) + 1
         /\ \A n \in 1 .. Len(q) : Append(q, x)[n] = q[n]
         /\ Append(q, x)[Len(q) + 1] = x
<1> DEFINE S == Range(q) \cup {x}
<1>1. q \in Seq(S) /\ x \in S
  BY SeqMonotonic
<1> HIDE DEF S
<1>2. Append(q, x) \in Seq(S)
  BY <1>1, AppendFacts
<1>3. Append(q, x) \in Seq(Range(Append(q, x)))
  BY <1>2, OwnRange
<1>4. QED
  BY <1>1, <1>3, AppendFacts

\* The same of a sequence of which one element has been replaced.
LEMMA ExceptOwn ==
  ASSUME NEW q, q \in Seq(Range(q)), NEW k \in DOMAIN q, NEW x
  PROVE  LET r == [q EXCEPT ![k] = x]
         IN /\ r \in Seq(Range(r))
            /\ Len(r) = Len(q)
            /\ DOMAIN r = DOMAIN q
            /\ r[k] = x
            /\ \A n \in DOMAIN q : n # k => r[n] = q[n]
<1> DEFINE S == Range(q) \cup {x}
           r == [q EXCEPT ![k] = x]
<1>1. q \in Seq(S) /\ x \in S
  BY SeqMonotonic
<1>2. Len(q) \in Nat /\ DOMAIN q = 1 .. Len(q)
  BY LenProperties
<1>3. DOMAIN r = DOMAIN q /\ r[k] = x /\ \A n \in DOMAIN q : n # k => r[n] = q[n]
  OBVIOUS
<1> HIDE DEF S
<1>4. r \in Seq(S) /\ Len(r) = Len(q)
  BY <1>1, <1>2, ExceptSeq
<1> HIDE DEF r
<1>5. r \in Seq(Range(r))
  BY <1>4, OwnRange
<1>6. QED
  BY <1>3, <1>4, <1>5 DEF r

\* The least and the greatest element of a set are the ones CHOOSE finds.
LEMMA MinIsMin ==
  ASSUME NEW S, S \subseteq Int, NEW x, IsMin(x, S)
  PROVE  Min(S) = x
<1>1. \A y \in S : (\A z \in S : y <= z) => y = x
  BY DEF IsMin
<1>2. \E y \in S : \A z \in S : y <= z
  BY DEF IsMin
<1>3. Min(S) \in S /\ \A z \in S : Min(S) <= z
  BY <1>2 DEF Min
<1>4. QED
  BY <1>1, <1>3

\* What Max chooses is the greatest.
LEMMA MaxIsMax ==
  ASSUME NEW S, S \subseteq Int, NEW x, IsMax(x, S)
  PROVE  Max(S) = x
<1>1. \A y \in S : (\A z \in S : y >= z) => y = x
  BY DEF IsMax
<1>2. \E y \in S : \A z \in S : y >= z
  BY DEF IsMax
<1>3. Max(S) \in S /\ \A z \in S : Max(S) >= z
  BY <1>2 DEF Max
<1>4. QED
  BY <1>1, <1>3

\* Those of two numbers, and of a set that gets one more element.
LEMMA MinOfTwo ==
  ASSUME NEW S, S \subseteq Int, NEW x, IsMin(x, S), NEW y \in Int
  PROVE  IsMin(Min({x, y}), S \cup {y})
<1>1. x \in Int
  BY DEF IsMin
<1>2. CASE x <= y
  <2>1. IsMin(x, {x, y})
    BY <1>1, <1>2 DEF IsMin
  <2>2. Min({x, y}) = x
    BY <1>1, <2>1, MinIsMin
  <2>3. QED
    BY <1>1, <1>2, <2>2 DEF IsMin
<1>3. CASE y < x
  <2>1. IsMin(y, {x, y})
    BY <1>1, <1>3 DEF IsMin
  <2>2. Min({x, y}) = y
    BY <1>1, <2>1, MinIsMin
  <2>3. QED
    BY <1>1, <1>3, <2>2 DEF IsMin
<1>4. QED
  BY <1>1, <1>2, <1>3

\* The greatest of one number more.
LEMMA MaxOfTwo ==
  ASSUME NEW S, S \subseteq Int, NEW x, IsMax(x, S), NEW y \in Int
  PROVE  IsMax(Max({x, y}), S \cup {y})
<1>1. x \in Int
  BY DEF IsMax
<1>2. CASE x >= y
  <2>1. IsMax(x, {x, y})
    BY <1>1, <1>2 DEF IsMax
  <2>2. Max({x, y}) = x
    BY <1>1, <2>1, MaxIsMax
  <2>3. QED
    BY <1>1, <1>2, <2>2 DEF IsMax
<1>3. CASE y > x
  <2>1. IsMax(y, {x, y})
    BY <1>1, <1>3 DEF IsMax
  <2>2. Max({x, y}) = y
    BY <1>1, <2>1, MaxIsMax
  <2>3. QED
    BY <1>1, <1>3, <2>2 DEF IsMax
<1>4. QED
  BY <1>1, <1>2, <1>3

-----------------------------------------------------------------------------
(* What the steps do to the groups.                                        *)

\* A group that gets a member, and one that is completed.
LEMMA ExtendFacts ==
  ASSUME NEW group, DOMAIN group = GroupFields, NEW q
  PROVE  /\ DOMAIN Extend(group, q) = GroupFields
         /\ Extend(group, q).clause = group.clause
         /\ Extend(group, q).members = Append(group.members, q)
         /\ Extend(group, q).start_ts = Min({group.start_ts, flow[q].start})
         /\ Extend(group, q).end_ts = Max({group.end_ts, flow[q].end})
BY DEF Extend, GroupFields

\* The evaluation of a group leaves its clause, members and bounds alone.
LEMMA CompletedFacts ==
  ASSUME NEW group, DOMAIN group = GroupFields, NEW order
  PROVE  /\ DOMAIN Completed(group, order) = GroupFields
         /\ Completed(group, order).clause = group.clause
         /\ Completed(group, order).members = group.members
         /\ Completed(group, order).start_ts = group.start_ts
         /\ Completed(group, order).end_ts = group.end_ts
BY DEF Completed, GroupFields

\* The groups are the same but for their aggregates and records.
SameGroups ==
  /\ groupset' \in Seq(Range(groupset'))
  /\ Len(groupset') = Len(groupset)
  /\ DOMAIN groupset' = DOMAIN groupset
  /\ \A g \in DOMAIN groupset :
       /\ DOMAIN groupset'[g] = GroupFields
       /\ groupset'[g].clause = groupset[g].clause
       /\ groupset'[g].members = groupset[g].members
       /\ groupset'[g].start_ts = groupset[g].start_ts
       /\ groupset'[g].end_ts = groupset[g].end_ts

\* Groups that are not touched stay the same.
LEMMA SameUnchanged ==
  ASSUME GroupsInv, UNCHANGED groupset
  PROVE  SameGroups
BY DEF GroupsInv, SameGroups

\* The evaluation of the last group keeps the members and bounds of all groups.
LEMMA SameSaved ==
  ASSUME GroupsInv, ScanInv, pc = "grow", SaveGroup
  PROVE  SameGroups
<1> DEFINE k == Len(groupset)
<1>1. groupset \in Seq(Range(groupset)) /\ groupset # <<>>
  BY DEF GroupsInv, ScanInv
<1>2. k \in DOMAIN groupset
  BY <1>1, LenProperties, EmptySeq
<1>3. PICK order : groupset' = [groupset EXCEPT ![k] = Completed(groupset[k], order)]
  BY DEF SaveGroup
<1> DEFINE x == Completed(groupset[k], order)
<1>4. groupset' = [groupset EXCEPT ![k] = x]
  BY <1>3
<1>5. /\ DOMAIN x = GroupFields
      /\ x.clause = groupset[k].clause /\ x.members = groupset[k].members
      /\ x.start_ts = groupset[k].start_ts /\ x.end_ts = groupset[k].end_ts
  BY <1>2, CompletedFacts DEF GroupsInv
<1> HIDE DEF k, x
<1>6. /\ groupset' \in Seq(Range(groupset'))
      /\ Len(groupset') = Len(groupset)
      /\ DOMAIN groupset' = DOMAIN groupset
      /\ groupset'[k] = x
      /\ \A n \in DOMAIN groupset : n # k => groupset'[n] = groupset[n]
  BY <1>1, <1>2, <1>4, ExceptOwn
<1>7. QED
  BY <1>2, <1>5, <1>6 DEF SameGroups, GroupsInv

-----------------------------------------------------------------------------
(* What holds of groups that stay the same.                                *)

\* So the members and the groups of a clause do.
LEMMA MembersSame ==
  ASSUME SameGroups
  PROVE  /\ \A g \in DOMAIN groupset : Members(g)' = Members(g)
         /\ \A c : GroupsOf(c)' = GroupsOf(c)
BY DEF SameGroups, Members, GroupsOf

\* A clause that has taken no further record.
LEMMA OnceKept ==
  ASSUME SameGroups, NEW c, TakenOnce(c), Taken(c)' = Taken(c)
  PROVE  TakenOnce(c)'
<1>1. GroupsOf(c) \subseteq DOMAIN groupset /\ GroupsOf(c)' = GroupsOf(c)
  BY MembersSame DEF GroupsOf
<1>2. UNION {Members(g)' : g \in GroupsOf(c)} = UNION {Members(g) : g \in GroupsOf(c)}
  BY <1>1, MembersSame
<1>3. \A g \in GroupsOf(c) : groupset'[g].members = groupset[g].members
  BY <1>1 DEF SameGroups
<1>4. QED
  BY <1>1, <1>2, <1>3 DEF TakenOnce

\* The first part of the invariant is kept by such a step.
LEMMA GroupsKept ==
  ASSUME GroupsInv, SameGroups, UNCHANGED flow,
         \A g \in DOMAIN groupset :
           /\ groupset[g].clause \in 1 .. l'
           /\ pc' = "start" => groupset[g].clause < l'
  PROVE  GroupsInv'
BY DEF GroupsInv, SameGroups, Records, NumRecords

\* The bounds are kept by such a step.
LEMMA BoundsKept ==
  ASSUME BoundsInv, SameGroups, UNCHANGED <<flow, clauseset>>
  PROVE  BoundsInv'
<1>1. \A g \in DOMAIN groupset : Members(g)' = Members(g)
  BY MembersSame
<1>2. DOMAIN groupset' = DOMAIN groupset
      /\ \A g \in DOMAIN groupset : /\ groupset'[g].start_ts = groupset[g].start_ts
                                    /\ groupset'[g].end_ts = groupset[g].end_ts
  BY DEF SameGroups
<1>3. \A g \in DOMAIN groupset :
        /\ {flow[q].start : q \in Members(g)}' = {flow[q].start : q \in Members(g)}
        /\ {flow[q].end : q \in Members(g)}' = {flow[q].end : q \in Members(g)}
  BY <1>1
<1>4. CASE clauseset = <<>>
  BY <1>2, <1>3, <1>4 DEF BoundsInv, BoundsExact
<1>5. CASE clauseset # <<>>
  BY <1>2, <1>3, <1>5 DEF BoundsInv
<1>6. QED
  BY <1>4, <1>5

\* A clause that has taken one more record, which is the j-th member of the k-th
\* group now.
LEMMA OnceMore ==
  ASSUME NEW c, TakenOnce(c), NEW k, NEW j, NEW q,
         q \notin Taken(c), Taken(c)' = Taken(c) \cup {q},
         k \in GroupsOf(c)', j \in DOMAIN groupset'[k].members,
         groupset'[k].members[j] = q,
         \A g \in GroupsOf(c)' : \A m \in DOMAIN groupset'[g].members :
           \/ g = k /\ m = j
           \/ /\ g \in GroupsOf(c) /\ m \in DOMAIN groupset[g].members
              /\ groupset'[g].members[m] = groupset[g].members[m],
         \A g \in GroupsOf(c) :
           /\ g \in GroupsOf(c)'
           /\ \A m \in DOMAIN groupset[g].members :
                /\ m \in DOMAIN groupset'[g].members
                /\ groupset'[g].members[m] = groupset[g].members[m]
  PROVE  TakenOnce(c)'
<1> DEFINE in(g)  == {groupset[g].members[m] : m \in DOMAIN groupset[g].members}
           out(g) == {groupset'[g].members[m] : m \in DOMAIN groupset'[g].members}
<1>1. UNION {in(g) : g \in GroupsOf(c)} = Taken(c)
  BY DEF TakenOnce, Members, Range
<1>2. \A g \in GroupsOf(c) : \A m \in DOMAIN groupset[g].members :
        groupset[g].members[m] \in Taken(c)
  BY <1>1
<1>3. UNION {out(g) : g \in GroupsOf(c)'} = Taken(c) \cup {q}
  <2>1. ASSUME NEW y \in UNION {out(g) : g \in GroupsOf(c)'}
        PROVE  y \in Taken(c) \cup {q}
    BY <1>2, <2>1
  <2>2. ASSUME NEW y \in Taken(c) PROVE y \in UNION {out(g) : g \in GroupsOf(c)'}
    <3>1. PICK g \in GroupsOf(c) : y \in in(g)
      BY <1>1, <2>2
    <3>2. y \in out(g)
      BY <3>1
    <3>3. QED
      BY <3>2
  <2>3. q \in out(k)
    OBVIOUS
  <2>4. QED
    BY <2>1, <2>2, <2>3
<1>4. ASSUME NEW g \in GroupsOf(c)', NEW h \in GroupsOf(c)',
             NEW m \in DOMAIN groupset'[g].members,
             NEW n \in DOMAIN groupset'[h].members,
             groupset'[g].members[m] = groupset'[h].members[n]
      PROVE  g = h /\ m = n
  <2>1. CASE g = k /\ m = j /\ h = k /\ n = j
    BY <2>1
  <2>2. CASE ~ (g = k /\ m = j) /\ ~ (h = k /\ n = j)
    BY <1>4, <2>2 DEF TakenOnce
  <2>3. CASE g = k /\ m = j /\ ~ (h = k /\ n = j)
    BY <1>2, <1>4, <2>3
  <2>4. CASE ~ (g = k /\ m = j) /\ h = k /\ n = j
    BY <1>2, <1>4, <2>4
  <2>5. QED
    BY <2>1, <2>2, <2>3, <2>4
<1>5. QED
  BY <1>3, <1>4 DEF TakenOnce, Members, Range

-----------------------------------------------------------------------------
(* The invariant.                                                          *)

\* The grouper starts with no group, in front of its first clause.
LEMMA InvInit == Init => GrouperInv
<1> SUFFICES ASSUME Init PROVE GrouperInv
  OBVIOUS
<1>1. flow \in Seq(Flows) /\ clauseset \in Seq(Seq(Term))
  BY GrouperAssumption, SeqDef DEF Init
<1>2. Len(flow) \in Nat /\ Len(clauseset) \in Nat
      /\ (clauseset # <<>> => 1 <= Len(clauseset))
  BY <1>1, LenProperties, EmptySeq
<1>3. GroupsInv
  BY EmptySeq DEF Init, GroupsInv
<1>4. ScanInv
  BY <1>1, <1>2 DEF Init, ScanInv, Records, NumRecords
<1>5. GroupedOnce
  <2>1. GroupsOf(1) = {} /\ Taken(1) = {}
    BY DEF Init, GroupsOf, Taken, Finished
  <2>2. TakenOnce(1)
    BY <2>1 DEF TakenOnce
  <2>3. QED
    BY <2>2 DEF Init, GroupedOnce
<1>6. BoundsInv
  BY DEF Init, BoundsInv, BoundsExact
<1>7. QED
  BY <1>3, <1>4, <1>5, <1>6 DEF GrouperInv

\* The sizes and types that the steps rely on.
LEMMA Sizes ==
  ASSUME ScanInv
  PROVE  /\ NumRecords \in Nat
         /\ Len(clauseset) \in Nat
         /\ DOMAIN flow = Records
         /\ \A q \in Records : flow[q].start \in Int /\ flow[q].end \in Int
         /\ clauseset = <<>> <=> Len(clauseset) = 0
         /\ l \in Nat /\ 1 <= l
<1>1. flow \in Seq(Flows) /\ clauseset \in Seq(Seq(Term)) /\ l \in Nat \ {0}
  BY DEF ScanInv
<1>2. /\ Len(flow) \in Nat /\ DOMAIN flow = 1 .. Len(flow)
      /\ Len(clauseset) \in Nat /\ clauseset = <<>> <=> Len(clauseset) = 0
  BY <1>1, LenProperties, EmptySeq
<1>3. \A q \in 1 .. Len(flow) : flow[q] \in Flows
  BY <1>1, ElementOfSeq
<1>4. \A record \in Flows : record.start \in Nat /\ record.end \in Nat
  BY GrouperAssumption
<1>5. QED
  BY <1>1, <1>2, <1>3, <1>4 DEF Records, NumRecords

\* There is nothing to group: the only clause that has begun has all of nothing.
LEMMA InvNothingToGroup ==
  ASSUME GrouperInv, NothingToGroup PROVE GrouperInv'
<1>1. /\ pc = "start" /\ pc' = "done" /\ Records = {}
      /\ UNCHANGED <<flow, clauseset, filtered, groupset, l, current_item>>
  BY DEF NothingToGroup, inputs, Records
<1>2. GroupsInv /\ ScanInv /\ GroupedOnce /\ BoundsInv
  BY DEF GrouperInv
<1>3. SameGroups
  BY <1>1, <1>2, SameUnchanged
<1>4. GroupsInv'
  BY <1>1, <1>2, <1>3, GroupsKept DEF GroupsInv
<1>5. ScanInv'
  BY <1>1, <1>2 DEF ScanInv
<1>6. GroupedOnce'
  <2>1. ASSUME NEW c \in 1 .. l PROVE Taken(c)' = Taken(c)
    BY <1>1, <2>1 DEF Taken, Finished, Records, NumRecords
  <2>2. QED
    BY <1>1, <1>2, <1>3, <2>1, OnceKept DEF GroupedOnce
<1>7. BoundsInv'
  BY <1>1, <1>2, <1>3, BoundsKept
<1>8. QED
  BY <1>4, <1>5, <1>6, <1>7 DEF GrouperInv

\* Without clauses all records get into one group.
LEMMA InvClubAll ==
  ASSUME GrouperInv, ClubAll PROVE GrouperInv'
<1>1. GroupsInv /\ ScanInv /\ GroupedOnce /\ BoundsInv
  BY DEF GrouperInv
<1>2. /\ pc = "start" /\ pc' = "done" /\ clauseset = <<>> /\ NumRecords > 0
      /\ UNCHANGED <<flow, clauseset, filtered, l, current_item>>
  BY DEF ClubAll, inputs
<1>3. l = 1 /\ \A p \in Records : filtered[p] = p
  BY <1>1, <1>2 DEF ScanInv
<1> DEFINE members == [p \in Records |-> filtered[p]]
           group == [clause   |-> 1,
                     members  |-> members,
                     start_ts |-> Min({flow[q].start : q \in Records}),
                     end_ts   |-> Max({flow[q].end : q \in Records}),
                     aggrset  |-> <<>>,
                     record   |-> NoFields]
<1>4. PICK order \in ValueOrders(members) : groupset' = <<Completed(group, order)>>
  BY DEF ClubAll
<1> DEFINE x == Completed(group, order)
<1>5. /\ DOMAIN x = GroupFields /\ x.clause = 1 /\ x.members = members
      /\ x.start_ts = Min({flow[q].start : q \in Records})
      /\ x.end_ts = Max({flow[q].end : q \in Records})
  <2>1. DOMAIN group = GroupFields
    BY DEF GroupFields
  <2>2. /\ group.clause = 1 /\ group.members = members
        /\ group.start_ts = Min({flow[q].start : q \in Records})
        /\ group.end_ts = Max({flow[q].end : q \in Records})
    OBVIOUS
  <2> HIDE DEF group, members
  <2>3. QED
    BY <2>1, <2>2, CompletedFacts
<1>6. /\ members \in Seq(Records) /\ members # <<>> /\ DOMAIN members = Records
      /\ \A p \in Records : members[p] = p
  <2>1. NumRecords \in Nat /\ Records = 1 .. NumRecords /\ 1 \in Records
    BY <1>1, <1>2, Sizes DEF Records
  <2>2. \A p \in 1 .. NumRecords : filtered[p] \in Records
    BY <1>3, <2>1
  <2>3. members \in Seq(Records)
    BY <2>1, <2>2, IsASeq
  <2>4. QED
    BY <1>3, <2>1, <2>3
<1> HIDE DEF x, members
<1>7. groupset' = <<x>>
  BY <1>4 DEF x, members
<1>8. /\ DOMAIN groupset' = {1} /\ groupset'[1] = x
      /\ groupset' \in Seq(Range(groupset'))
  <2>1. groupset' \in Seq({x}) /\ DOMAIN groupset' = 1 .. 1 /\ groupset'[1] = x
    BY <1>7
  <2>2. QED
    BY <2>1, OwnRange
<1>9. GroupsInv'
  BY <1>2, <1>3, <1>5, <1>6, <1>8 DEF GroupsInv, Records, NumRecords
<1>10. ScanInv'
  BY <1>1, <1>2, <1>3 DEF ScanInv
<1>11. Range(members) = Records
  BY <1>6 DEF Range
<1>12. GroupedOnce'
  <2>1. GroupsOf(1)' = {1}
    BY <1>5, <1>8 DEF GroupsOf
  <2>2. Members(1)' = Records /\ Taken(1)' = Records
    BY <1>2, <1>3, <1>5, <1>8, <1>11
       DEF Members, Taken, Finished, Records, NumRecords
  <2>3. TakenOnce(1)'
    BY <1>5, <1>6, <1>8, <2>1, <2>2 DEF TakenOnce
  <2>4. QED
    BY <1>2, <1>3, <2>3 DEF GroupedOnce
<1>13. BoundsInv'
  <2>1. Members(1)' = Records
    BY <1>5, <1>8, <1>11 DEF Members
  <2>2. BoundsExact'
    BY <1>2, <1>5, <1>8, <2>1 DEF BoundsExact
  <2>3. QED
    BY <1>2, <2>2 DEF BoundsInv
<1>14. QED
  BY <1>9, <1>10, <1>12, <1>13 DEF GrouperInv

\* The recordset is sorted: still every record has one place in it.
LEMMA InvSortClause ==
  ASSUME GrouperInv, SortClause PROVE GrouperInv'
<1>1. GroupsInv /\ ScanInv /\ GroupedOnce /\ BoundsInv
  BY DEF GrouperInv
<1>2. /\ pc = "start" /\ pc' = "scan" /\ l <= Len(clauseset) /\ NumRecords > 0
      /\ current_item' = 1
      /\ UNCHANGED <<flow, clauseset, groupset, l>>
  BY DEF SortClause, inputs
<1>3. PICK order \in SortedOrders(l) : filtered' = Append(order, Null)
  BY DEF SortClause
<1>4. /\ NumRecords \in Nat /\ Records = 1 .. NumRecords
      /\ clauseset # <<>> /\ l \in Nat /\ 1 <= l
  BY <1>1, <1>2, Sizes DEF Records
<1>5. order \in Bijection(Records, Records) /\ order \in [Records -> Records]
  BY DEF SortedOrders, Bijection, Injection
<1>6. /\ filtered'[NumRecords + 1] = Null
      /\ [p \in Records |-> filtered'[p]] = order
  <2>1. order \in Seq(Nat) /\ Len(order) = NumRecords /\ Null \in Nat
    <3>1. \A p \in 1 .. NumRecords : order[p] \in Nat
      BY <1>4, <1>5
    <3>2. order = [p \in 1 .. NumRecords |-> order[p]]
      BY <1>4, <1>5
    <3>3. [p \in 1 .. NumRecords |-> order[p]] \in Seq(Nat)
      BY <1>4, <3>1, IsASeq
    <3>4. order \in Seq(Nat)
      BY <3>2, <3>3
    <3>5. Len(order) \in Nat /\ 1 .. Len(order) = 1 .. NumRecords
      BY <1>4, <1>5, <3>4, LenProperties
    <3>6. QED
      BY <1>4, <3>4, <3>5 DEF Null
  <2>2. /\ filtered'[NumRecords + 1] = Null
        /\ \A p \in 1 .. NumRecords : filtered'[p] = order[p]
    BY <1>3, <2>1, AppendFacts
  <2>3. QED
    BY <1>4, <1>5, <2>2
<1>7. SameGroups
  BY <1>1, <1>2, SameUnchanged
<1>8. GroupsInv'
  BY <1>1, <1>2, <1>7, GroupsKept DEF GroupsInv
<1>9. ScanInv'
  <2>1. Records' = Records /\ NumRecords' = NumRecords
    BY <1>2 DEF Records, NumRecords
  <2>2. 1 \in 1 .. NumRecords + 1
    BY <1>4
  <2>3. QED
    BY <1>1, <1>2, <1>4, <1>5, <1>6, <2>1, <2>2 DEF ScanInv
<1>10. GroupedOnce'
  <2>1. ASSUME NEW c \in 1 .. l PROVE Taken(c)' = Taken(c)
    <3>1. CASE c < l
      BY <1>2, <3>1 DEF Taken, Finished, Records, NumRecords
    <3>2. CASE c = l
      BY <1>2, <1>4, <3>2 DEF Taken, Finished
    <3>3. QED
      BY <1>4, <3>1, <3>2
  <2>2. QED
    BY <1>1, <1>2, <1>7, <2>1, OnceKept DEF GroupedOnce
<1>11. BoundsInv'
  BY <1>1, <1>2, <1>7, BoundsKept
<1>12. QED
  BY <1>8, <1>9, <1>10, <1>11 DEF GrouperInv

\* The places that the scan has passed hold the records it has taken, and the
\* record in the next place is none of them.
LEMMA NextIsNew ==
  ASSUME ScanInv, pc \in {"scan", "grow"},
         NEW k \in Nat, k + 1 \in Records
  PROVE  /\ filtered[k + 1] \in Records
         /\ filtered[k + 1] \notin {filtered[p] : p \in 1 .. k}
         /\ {filtered[p] : p \in 1 .. k + 1}
              = {filtered[p] : p \in 1 .. k} \cup {filtered[k + 1]}
<1> DEFINE f == [p \in Records |-> filtered[p]]
<1>1. f \in Bijection(Records, Records)
  BY DEF ScanInv
<1>2. \A p \in Records : filtered[p] = f[p] /\ f[p] \in Records
  BY <1>1 DEF Bijection, Injection
<1>3. \A p, r \in Records : f[p] = f[r] => p = r
  BY <1>1 DEF Bijection, Injection, IsInjective
<1>4. NumRecords \in Nat /\ Records = 1 .. NumRecords
  BY Sizes DEF Records
<1>5. \A p \in 1 .. k : p \in Records /\ p # k + 1
  BY <1>4
<1> HIDE DEF f
<1>6. \A p \in 1 .. k : filtered[p] # filtered[k + 1]
  BY <1>2, <1>3, <1>5
<1>7. /\ \A p \in 1 .. k + 1 : p \in 1 .. k \/ p = k + 1
      /\ \A p \in 1 .. k : p \in 1 .. k + 1
      /\ k + 1 \in 1 .. k + 1
  OBVIOUS
<1>8. QED
  BY <1>2, <1>6, <1>7

\* The next group starts.
LEMMA InvOpenGroup ==
  ASSUME GrouperInv, OpenGroup PROVE GrouperInv'
<1>1. GroupsInv /\ ScanInv /\ GroupedOnce /\ BoundsInv
  BY DEF GrouperInv
<1> DEFINE q == filtered[current_item]
           x == [clause   |-> l,
                 members  |-> <<q>>,
                 start_ts |-> flow[q].start,
                 end_ts   |-> flow[q].end,
                 aggrset  |-> <<>>,
                 record   |-> NoFields]
           k == Len(groupset) + 1
<1>2. /\ pc = "scan" /\ pc' = "grow" /\ q # Null
      /\ groupset' = Append(groupset, x)
      /\ UNCHANGED <<flow, clauseset, filtered, l, current_item>>
  BY DEF OpenGroup, inputs
<1>3. /\ NumRecords \in Nat /\ Records = 1 .. NumRecords
      /\ l \in Nat /\ 1 <= l /\ clauseset # <<>>
  BY <1>1, <1>2, Sizes DEF ScanInv, Records
<1>4. current_item \in Records
  BY <1>1, <1>2, <1>3 DEF ScanInv
<1>5. /\ q \in Records
      /\ q \notin {filtered[p] : p \in 1 .. current_item - 1}
      /\ {filtered[p] : p \in 1 .. current_item}
           = {filtered[p] : p \in 1 .. current_item - 1} \cup {q}
  <2> DEFINE j == current_item - 1
  <2>1. j \in Nat /\ j + 1 \in Records /\ j + 1 = current_item
    BY <1>3, <1>4
  <2> HIDE DEF j
  <2>2. /\ filtered[j + 1] \in Records
        /\ filtered[j + 1] \notin {filtered[p] : p \in 1 .. j}
        /\ {filtered[p] : p \in 1 .. j + 1}
             = {filtered[p] : p \in 1 .. j} \cup {filtered[j + 1]}
    BY <1>1, <1>2, <2>1, NextIsNew
  <2>3. QED
    BY <2>1, <2>2 DEF j
<1>6. /\ DOMAIN x = GroupFields /\ x.clause = l /\ x.members = <<q>>
      /\ x.start_ts = flow[q].start /\ x.end_ts = flow[q].end
  BY DEF GroupFields
<1> HIDE DEF x
<1>7. /\ groupset' \in Seq(Range(groupset'))
      /\ Len(groupset) \in Nat /\ DOMAIN groupset = 1 .. Len(groupset)
      /\ Len(groupset') = k /\ DOMAIN groupset' = 1 .. k
      /\ \A n \in 1 .. Len(groupset) : groupset'[n] = groupset[n]
      /\ groupset'[k] = x
  BY <1>1, <1>2, AppendOwn DEF GroupsInv
<1>8. /\ k \in DOMAIN groupset' /\ k \notin DOMAIN groupset
      /\ \A g \in DOMAIN groupset' : g \in DOMAIN groupset \/ g = k
      /\ \A g \in DOMAIN groupset : g \in DOMAIN groupset' /\ groupset'[g] = groupset[g]
  BY <1>7
<1> HIDE DEF q, k
<1>9. <<q>> \in Seq(Records) /\ <<q>> # <<>> /\ DOMAIN <<q>> = {1} /\ <<q>>[1] = q
      /\ Range(<<q>>) = {q}
  BY <1>5 DEF Range
<1>10. GroupsInv'
  <2>1. ASSUME NEW g \in DOMAIN groupset'
        PROVE  /\ DOMAIN groupset'[g] = GroupFields
               /\ groupset'[g].members \in Seq(Records)
               /\ groupset'[g].members # <<>>
               /\ groupset'[g].clause \in 1 .. l
    <3>1. CASE g = k
      <4>1. groupset'[g] = x /\ l \in 1 .. l
        BY <1>3, <1>7, <3>1
      <4>2. QED
        BY <1>6, <1>9, <4>1, Zenon
    <3>2. CASE g \in DOMAIN groupset
      BY <1>1, <1>8, <3>2 DEF GroupsInv
    <3>3. QED
      BY <1>8, <3>1, <3>2
  <2>2. QED
    BY <1>2, <1>7, <2>1 DEF GroupsInv, Records, NumRecords
<1>11. ScanInv'
  <2>1. groupset' # <<>> /\ Last(groupset').clause = l
    <3>1. Last(groupset') = x
      BY <1>7 DEF Last
    <3>2. groupset' # <<>>
      BY <1>8
    <3>3. QED
      BY <1>6, <3>1, <3>2
  <2>2. Records' = Records /\ NumRecords' = NumRecords
    BY <1>2 DEF Records, NumRecords
  <2>3. current_item # NumRecords + 1
    BY <1>3, <1>4
  <2>4. QED
    BY <1>1, <1>2, <1>3, <2>1, <2>2, <2>3 DEF ScanInv
<1>12. GroupedOnce'
  <2>1. ASSUME NEW c \in 1 .. l, c < l PROVE TakenOnce(c)'
    <3>1. TakenOnce(c)
      BY <1>1, <2>1 DEF GroupedOnce
    <3>2. GroupsOf(c)' = GroupsOf(c)
      BY <1>3, <1>6, <1>7, <1>8, <2>1 DEF GroupsOf
    <3>3. \A g \in GroupsOf(c) : Members(g)' = Members(g)
                                 /\ groupset'[g] = groupset[g]
      BY <1>8 DEF GroupsOf, Members
    <3>4. Taken(c)' = Taken(c)
      BY <1>2, <2>1 DEF Taken, Finished, Records, NumRecords
    <3>5. QED
      BY <3>1, <3>2, <3>3, <3>4 DEF TakenOnce
  <2>2. ASSUME NEW c \in 1 .. l, c = l PROVE TakenOnce(c)'
    <3>1. TakenOnce(c)
      BY <1>1, <2>2 DEF GroupedOnce
    <3>2. /\ Taken(c) = {filtered[p] : p \in 1 .. current_item - 1}
          /\ Taken(c)' = {filtered[p] : p \in 1 .. current_item}
      BY <1>2, <1>3, <2>2 DEF Taken, Finished
    <3>3. GroupsOf(c)' = GroupsOf(c) \cup {k} /\ k \notin GroupsOf(c)
      BY <1>6, <1>7, <1>8, <2>2 DEF GroupsOf
    <3>4. \A g \in GroupsOf(c) : groupset'[g].members = groupset[g].members
      BY <1>8 DEF GroupsOf
    <3>5. groupset'[k].members = <<q>>
      BY <1>6, <1>7
    <3>6. q \notin Taken(c) /\ Taken(c)' = Taken(c) \cup {q}
      BY <1>5, <3>2
    <3>7. /\ k \in GroupsOf(c)' /\ 1 \in DOMAIN groupset'[k].members
          /\ groupset'[k].members[1] = q
      BY <1>9, <3>3, <3>5
    <3>8. \A g \in GroupsOf(c)' : \A m \in DOMAIN groupset'[g].members :
            \/ g = k /\ m = 1
            \/ /\ g \in GroupsOf(c) /\ m \in DOMAIN groupset[g].members
               /\ groupset'[g].members[m] = groupset[g].members[m]
      BY <1>9, <3>3, <3>4, <3>5
    <3>9. \A g \in GroupsOf(c) :
            /\ g \in GroupsOf(c)'
            /\ \A m \in DOMAIN groupset[g].members :
                 /\ m \in DOMAIN groupset'[g].members
                 /\ groupset'[g].members[m] = groupset[g].members[m]
      BY <3>3, <3>4
    <3>10. QED
      BY <3>1, <3>6, <3>7, <3>8, <3>9, OnceMore
  <2>3. QED
    BY <1>2, <1>3, <2>1, <2>2 DEF GroupedOnce
<1>13. BoundsInv'
  <2>1. ASSUME NEW g \in DOMAIN groupset'
        PROVE  /\ IsMin(groupset'[g].start_ts, {flow[r].start : r \in Members(g)'})
               /\ IsMax(groupset'[g].end_ts, {flow[r].end : r \in Members(g)'})
    <3>1. CASE g = k
      <4>1. Members(g)' = {q}
        BY <1>6, <1>7, <1>9, <3>1 DEF Members
      <4>2. flow[q].start \in Int /\ flow[q].end \in Int
        BY <1>1, <1>5, Sizes
      <4>3. QED
        BY <1>6, <1>7, <3>1, <4>1, <4>2 DEF IsMin, IsMax
    <3>2. CASE g \in DOMAIN groupset
      <4>1. groupset'[g] = groupset[g] /\ Members(g)' = Members(g)
        BY <1>8, <3>2 DEF Members
      <4>2. QED
        BY <1>1, <1>3, <3>2, <4>1 DEF BoundsInv
    <3>3. QED
      BY <1>8, <3>1, <3>2
  <2>2. QED
    BY <1>2, <1>3, <2>1 DEF BoundsInv
<1>14. QED
  BY <1>10, <1>11, <1>12, <1>13 DEF GrouperInv

\* The group that is open gets the next record.
LEMMA InvAddMember ==
  ASSUME GrouperInv, AddMember PROVE GrouperInv'
<1>1. GroupsInv /\ ScanInv /\ GroupedOnce /\ BoundsInv
  BY DEF GrouperInv
<1> DEFINE q == filtered[current_item + 1]
           k == Len(groupset)
           x == Extend(groupset[k], q)
<1>2. /\ pc = "grow" /\ pc' = "grow" /\ current_item # NumRecords
      /\ current_item' = current_item + 1
      /\ groupset' = [groupset EXCEPT ![k] = x]
      /\ UNCHANGED <<flow, clauseset, filtered, l>>
  BY DEF AddMember, LastItem, inputs
<1>3. /\ NumRecords \in Nat /\ Records = 1 .. NumRecords
      /\ l \in Nat /\ 1 <= l /\ clauseset # <<>>
  BY <1>1, <1>2, Sizes DEF ScanInv, Records
<1>4. current_item \in Nat /\ current_item + 1 \in Records
  BY <1>1, <1>2, <1>3 DEF ScanInv
<1>5. /\ q \in Records
      /\ q \notin {filtered[p] : p \in 1 .. current_item}
      /\ {filtered[p] : p \in 1 .. current_item + 1}
           = {filtered[p] : p \in 1 .. current_item} \cup {q}
  BY <1>1, <1>2, <1>4, NextIsNew
<1>6. /\ groupset \in Seq(Range(groupset)) /\ groupset # <<>>
      /\ groupset[k].clause = l
  BY <1>1, <1>2 DEF GroupsInv, ScanInv, Last
<1>7. k \in DOMAIN groupset
  BY <1>6, LenProperties, EmptySeq
<1> DEFINE old == groupset[k].members
           n   == Len(old) + 1
<1>8. /\ DOMAIN x = GroupFields /\ x.clause = l /\ x.members = Append(old, q)
      /\ x.start_ts = Min({groupset[k].start_ts, flow[q].start})
      /\ x.end_ts = Max({groupset[k].end_ts, flow[q].end})
  BY <1>1, <1>6, <1>7, ExtendFacts DEF GroupsInv
<1> HIDE DEF x
<1>9. /\ Append(old, q) \in Seq(Records) /\ Len(old) \in Nat
      /\ DOMAIN old = 1 .. Len(old) /\ DOMAIN Append(old, q) = 1 .. n
      /\ \A m \in 1 .. Len(old) : Append(old, q)[m] = old[m]
      /\ Append(old, q)[n] = q
  <2>1. old \in Seq(Records)
    BY <1>1, <1>7 DEF GroupsInv
  <2>2. QED
    BY <1>5, <2>1, AppendFacts
<1>10. /\ groupset' \in Seq(Range(groupset')) /\ Len(groupset') = k
       /\ DOMAIN groupset' = DOMAIN groupset /\ groupset'[k] = x
       /\ \A g \in DOMAIN groupset : g # k => groupset'[g] = groupset[g]
  BY <1>2, <1>6, <1>7, ExceptOwn
<1> HIDE DEF q, k, old, n
<1>11. /\ n \in DOMAIN Append(old, q)
       /\ \A m \in DOMAIN Append(old, q) : m \in DOMAIN old \/ m = n
       /\ \A m \in DOMAIN old : /\ m \in DOMAIN Append(old, q)
                                /\ Append(old, q)[m] = old[m]
  BY <1>9 DEF n
<1>12. Range(Append(old, q)) = Range(old) \cup {q}
  BY <1>9, <1>11 DEF Range
<1>13. \A g \in DOMAIN groupset : groupset'[g].clause = groupset[g].clause
  BY <1>6, <1>8, <1>10
<1>14. GroupsInv'
  <2>1. ASSUME NEW g \in DOMAIN groupset
        PROVE  /\ DOMAIN groupset'[g] = GroupFields
               /\ groupset'[g].members \in Seq(Records)
               /\ groupset'[g].members # <<>>
               /\ groupset'[g].clause \in 1 .. l
    <3>1. CASE g = k
      <4>1. Append(old, q) # <<>>
        BY <1>11
      <4>2. l \in 1 .. l /\ groupset'[g] = x
        BY <1>3, <1>10, <3>1
      <4>3. QED
        BY <1>8, <1>9, <4>1, <4>2, Zenon
    <3>2. CASE g # k
      BY <1>1, <1>10, <3>2 DEF GroupsInv
    <3>3. QED
      BY <3>1, <3>2
  <2>2. QED
    BY <1>2, <1>10, <2>1 DEF GroupsInv, Records, NumRecords
<1>15. ScanInv'
  <2>1. groupset' # <<>> /\ Last(groupset').clause = l
    <3>1. Last(groupset') = x
      BY <1>10 DEF Last
    <3>2. groupset' # <<>>
      BY <1>7, <1>10
    <3>3. QED
      BY <1>8, <3>1, <3>2
  <2>2. Records' = Records /\ NumRecords' = NumRecords
    BY <1>2 DEF Records, NumRecords
  <2>3. /\ current_item' # NumRecords + 1
        /\ current_item' \in 1 .. NumRecords + 1
    BY <1>2, <1>3, <1>4
  <2>4. QED
    BY <1>1, <1>2, <1>3, <2>1, <2>2, <2>3 DEF ScanInv
<1>16. \A c : GroupsOf(c)' = GroupsOf(c)
  BY <1>10, <1>13 DEF GroupsOf
<1>17. GroupedOnce'
  <2>1. ASSUME NEW c \in 1 .. l, c < l PROVE TakenOnce(c)'
    <3>1. TakenOnce(c)
      BY <1>1, <2>1 DEF GroupedOnce
    <3>2. \A g \in GroupsOf(c) : Members(g)' = Members(g)
                                 /\ groupset'[g] = groupset[g]
      BY <1>3, <1>6, <1>10, <2>1 DEF GroupsOf, Members
    <3>3. Taken(c)' = Taken(c)
      BY <1>2, <2>1 DEF Taken, Finished, Records, NumRecords
    <3>4. QED
      BY <1>16, <3>1, <3>2, <3>3 DEF TakenOnce
  <2>2. ASSUME NEW c \in 1 .. l, c = l PROVE TakenOnce(c)'
    <3>1. TakenOnce(c)
      BY <1>1, <2>2 DEF GroupedOnce
    <3>2. /\ Taken(c) = {filtered[p] : p \in 1 .. current_item}
          /\ Taken(c)' = {filtered[p] : p \in 1 .. current_item + 1}
      BY <1>2, <1>3, <2>2 DEF Taken, Finished
    <3>3. q \notin Taken(c) /\ Taken(c)' = Taken(c) \cup {q}
      BY <1>5, <3>2
    <3>4. GroupsOf(c)' = GroupsOf(c) /\ k \in GroupsOf(c)
      BY <1>6, <1>7, <1>16, <2>2 DEF GroupsOf
    <3>5. \A g \in GroupsOf(c) : g # k => groupset'[g] = groupset[g]
      BY <1>10 DEF GroupsOf
    <3>6. groupset'[k].members = Append(old, q) /\ groupset[k].members = old
      BY <1>8, <1>10 DEF old
    <3>7. /\ k \in GroupsOf(c)' /\ n \in DOMAIN groupset'[k].members
          /\ groupset'[k].members[n] = q
      BY <1>9, <1>11, <3>4, <3>6
    <3>8. \A g \in GroupsOf(c)' : \A m \in DOMAIN groupset'[g].members :
            \/ g = k /\ m = n
            \/ /\ g \in GroupsOf(c) /\ m \in DOMAIN groupset[g].members
               /\ groupset'[g].members[m] = groupset[g].members[m]
      BY <1>11, <3>4, <3>5, <3>6
    <3>9. \A g \in GroupsOf(c) :
            /\ g \in GroupsOf(c)'
            /\ \A m \in DOMAIN groupset[g].members :
                 /\ m \in DOMAIN groupset'[g].members
                 /\ groupset'[g].members[m] = groupset[g].members[m]
      BY <1>11, <3>4, <3>5, <3>6
    <3>10. QED
      BY <3>1, <3>3, <3>7, <3>8, <3>9, OnceMore
  <2>3. QED
    BY <1>2, <1>3, <2>1, <2>2 DEF GroupedOnce
<1>18. BoundsInv'
  <2>1. ASSUME NEW g \in DOMAIN groupset
        PROVE  /\ IsMin(groupset'[g].start_ts, {flow[r].start : r \in Members(g)'})
               /\ IsMax(groupset'[g].end_ts, {flow[r].end : r \in Members(g)'})
    <3>1. CASE g = k
      <4> DEFINE S == {flow[r].start : r \in Members(g)}
                 E == {flow[r].end : r \in Members(g)}
      <4>1. Members(g) \subseteq Records
        <5>1. groupset[g].members \in Seq(Records)
          BY <1>1 DEF GroupsInv
        <5>2. QED
          BY <5>1, RangeOfSeq DEF Members
      <4>2. S \subseteq Int /\ E \subseteq Int
            /\ flow[q].start \in Int /\ flow[q].end \in Int
        BY <1>1, <1>5, <4>1, Sizes
      <4>3. IsMin(groupset[g].start_ts, S) /\ IsMax(groupset[g].end_ts, E)
        BY <1>1, <1>3 DEF BoundsInv
      <4>4. Members(g)' = Members(g) \cup {q}
        BY <1>8, <1>10, <1>12, <3>1 DEF Members, old
      <4>5. /\ {flow[r].start : r \in Members(g)'} = S \cup {flow[q].start}
            /\ {flow[r].end : r \in Members(g)'} = E \cup {flow[q].end}
        BY <4>4
      <4> HIDE DEF S, E
      <4>6. /\ IsMin(Min({groupset[g].start_ts, flow[q].start}), S \cup {flow[q].start})
            /\ IsMax(Max({groupset[g].end_ts, flow[q].end}), E \cup {flow[q].end})
        BY <4>2, <4>3, MinOfTwo, MaxOfTwo
      <4>7. /\ groupset'[g].start_ts = Min({groupset[g].start_ts, flow[q].start})
            /\ groupset'[g].end_ts = Max({groupset[g].end_ts, flow[q].end})
        BY <1>8, <1>10, <3>1
      <4>8. QED
        BY <4>5, <4>6, <4>7
    <3>2. CASE g # k
      <4>1. groupset'[g] = groupset[g] /\ Members(g)' = Members(g)
        BY <1>10, <3>2 DEF Members
      <4>2. QED
        BY <1>1, <1>3, <4>1 DEF BoundsInv
    <3>3. QED
      BY <3>1, <3>2
  <2>2. QED
    BY <1>2, <1>3, <1>10, <2>1 DEF BoundsInv
<1>19. QED
  BY <1>14, <1>15, <1>17, <1>18 DEF GrouperInv

\* A group is left with the members it has, and the scan goes on behind them.
LEMMA InvSaveGroup ==
  ASSUME GrouperInv, MismatchEndsGroup \/ LastItemEndsGroup
  PROVE  GrouperInv'
<1>1. GroupsInv /\ ScanInv /\ GroupedOnce /\ BoundsInv
  BY DEF GrouperInv
<1>2. /\ pc = "grow" /\ SaveGroup /\ pc' = "scan"
      /\ current_item' = current_item + 1
      /\ UNCHANGED <<flow, clauseset, filtered, l>>
  BY DEF MismatchEndsGroup, LastItemEndsGroup, SaveGroup, inputs
<1>3. /\ NumRecords \in Nat /\ l \in Nat /\ 1 <= l
      /\ current_item \in 1 .. NumRecords
  <2>1. /\ NumRecords \in Nat /\ l \in Nat /\ 1 <= l
        /\ current_item \in 1 .. NumRecords + 1 /\ current_item # NumRecords + 1
    BY <1>1, <1>2, Sizes DEF ScanInv
  <2>2. QED
    BY <2>1
<1>4. SameGroups
  BY <1>1, <1>2, SameSaved
<1>5. GroupsInv'
  BY <1>1, <1>2, <1>4, GroupsKept DEF GroupsInv
<1>6. ScanInv'
  <2>1. Records' = Records /\ NumRecords' = NumRecords
    BY <1>2 DEF Records, NumRecords
  <2>2. current_item' \in 1 .. NumRecords + 1
    BY <1>2, <1>3
  <2>3. QED
    BY <1>1, <1>2, <2>1, <2>2 DEF ScanInv
<1>7. GroupedOnce'
  <2>1. ASSUME NEW c \in 1 .. l PROVE Taken(c)' = Taken(c)
    <3>1. CASE c < l
      BY <1>2, <3>1 DEF Taken, Finished, Records, NumRecords
    <3>2. CASE c = l
      <4>1. current_item' - 1 = current_item
        BY <1>2, <1>3
      <4>2. Taken(c) = {filtered[p] : p \in 1 .. current_item}
        BY <1>2, <1>3, <3>2 DEF Taken, Finished
      <4>3. Taken(c)' = {filtered'[p] : p \in 1 .. current_item' - 1}
        BY <1>2, <1>3, <3>2 DEF Taken, Finished
      <4>4. QED
        BY <1>2, <4>1, <4>2, <4>3
    <3>3. QED
      BY <1>3, <3>1, <3>2
  <2>2. QED
    BY <1>1, <1>2, <1>4, <2>1, OnceKept DEF GroupedOnce
<1>8. BoundsInv'
  BY <1>1, <1>2, <1>4, BoundsKept
<1>9. QED
  BY <1>5, <1>6, <1>7, <1>8 DEF GrouperInv

\* At the sentinel all records have been taken.
LEMMA AllTaken ==
  ASSUME ScanInv, pc = "scan", filtered[current_item] = Null
  PROVE  Taken(l) = Records
<1> DEFINE f == [p \in Records |-> filtered[p]]
<1>1. /\ f \in Bijection(Records, Records) /\ NumRecords \in Nat
      /\ Records = 1 .. NumRecords /\ l \in Nat
      /\ current_item \in 1 .. NumRecords + 1
  BY Sizes DEF ScanInv, Records
<1>2. /\ \A p \in Records : filtered[p] = f[p] /\ f[p] \in Records
      /\ \A q \in Records : \E p \in Records : f[p] = q
  BY <1>1 DEF Bijection, Injection, Surjection
<1> HIDE DEF f
<1>3. current_item \notin Records
  <2>1. SUFFICES ASSUME current_item \in Records PROVE FALSE
    OBVIOUS
  <2>2. filtered[current_item] \in Records
    BY <1>2, <2>1
  <2>3. 0 \in Records
    BY <2>2 DEF Null
  <2>4. QED
    BY <1>1, <2>3
<1>4. 1 .. current_item - 1 = Records
  BY <1>1, <1>3
<1>5. Taken(l) = {filtered[p] : p \in 1 .. current_item - 1}
  BY <1>1 DEF Taken, Finished
<1>6. Taken(l) = {filtered[p] : p \in Records}
  BY <1>4, <1>5
<1>7. Taken(l) \subseteq Records
  BY <1>2, <1>6
<1>8. Records \subseteq Taken(l)
  <2>1. SUFFICES ASSUME NEW q \in Records PROVE q \in Taken(l)
    OBVIOUS
  <2>2. PICK p \in Records : f[p] = q
    BY <1>2
  <2>3. filtered[p] = q
    BY <1>2, <2>2
  <2>4. QED
    BY <1>6, <2>3
<1>9. QED
  BY <1>7, <1>8

\* The scan of a clause ends, and that of the next one has taken nothing yet.
LEMMA InvEndClause ==
  ASSUME GrouperInv, EndClause PROVE GrouperInv'
<1>1. GroupsInv /\ ScanInv /\ GroupedOnce /\ BoundsInv
  BY DEF GrouperInv
<1>2. /\ pc = "scan" /\ filtered[current_item] = Null
      /\ IF l = Len(clauseset) THEN pc' = "done" /\ l' = l
                               ELSE pc' = "start" /\ l' = l + 1
      /\ UNCHANGED <<flow, clauseset, filtered, groupset, current_item>>
  BY DEF EndClause, inputs
<1>3. /\ NumRecords \in Nat /\ Len(clauseset) \in Nat /\ clauseset # <<>>
      /\ l \in Nat /\ 1 <= l /\ l <= Len(clauseset)
  BY <1>1, <1>2, Sizes DEF ScanInv
<1>4. SameGroups
  BY <1>1, <1>2, SameUnchanged
<1>5. l' \in Nat \ {0} /\ l <= l' /\ (pc' = "start" => l < l' /\ l' <= Len(clauseset))
      /\ pc' \in {"start", "done"}
  BY <1>2, <1>3
<1>6. GroupsInv'
  <2>1. ASSUME NEW g \in DOMAIN groupset
        PROVE  /\ groupset[g].clause \in 1 .. l'
               /\ pc' = "start" => groupset[g].clause < l'
    <3>1. groupset[g].clause \in 1 .. l
      BY <1>1 DEF GroupsInv
    <3>2. QED
      BY <1>3, <1>5, <3>1
  <2>2. QED
    BY <1>1, <1>2, <1>4, <2>1, GroupsKept
<1>7. ScanInv'
  BY <1>1, <1>2, <1>3, <1>5 DEF ScanInv
<1>8. GroupedOnce'
  <2>1. ASSUME NEW c \in 1 .. l PROVE TakenOnce(c)'
    <3>1. Taken(c) = Records
      <4>1. CASE c = l
        BY <1>1, <1>2, <4>1, AllTaken
      <4>2. CASE c < l
        BY <4>2 DEF Taken, Finished
      <4>3. QED
        BY <1>3, <4>1, <4>2
    <3>2. Finished(c)'
      BY <1>2, <1>3 DEF Finished
    <3>3. Taken(c)' = Records
      BY <1>2, <3>2 DEF Taken, Records, NumRecords
    <3>4. QED
      BY <1>1, <1>4, <3>1, <3>3, OnceKept DEF GroupedOnce
  <2>2. ASSUME NEW c \in 1 .. l', c \notin 1 .. l PROVE TakenOnce(c)'
    <3>1. c = l' /\ pc' = "start" /\ c = l + 1
      BY <1>2, <1>3, <2>2
    <3>2. GroupsOf(c)' = {}
      <4>1. \A g \in DOMAIN groupset : groupset[g].clause # c
        BY <1>1, <1>3, <3>1 DEF GroupsInv
      <4>2. QED
        BY <1>2, <4>1 DEF GroupsOf
    <3>3. Taken(c)' = {}
      BY <1>3, <3>1 DEF Taken, Finished
    <3>4. QED
      BY <3>2, <3>3 DEF TakenOnce
  <2>3. QED
    BY <2>1, <2>2 DEF GroupedOnce
<1>9. BoundsInv'
  BY <1>1, <1>2, <1>4, BoundsKept
<1>10. QED
  BY <1>6, <1>7, <1>8, <1>9 DEF GrouperInv

\* Nothing changes.
LEMMA InvStutter ==
  ASSUME GrouperInv, UNCHANGED vars PROVE GrouperInv'
<1>1. GroupsInv /\ ScanInv /\ GroupedOnce /\ BoundsInv
  BY DEF GrouperInv
<1>2. UNCHANGED <<pc, l, current_item, flow, clauseset, filtered, groupset>>
  BY DEF vars, inputs
<1>3. SameGroups
  BY <1>1, <1>2, SameUnchanged
<1>4. GroupsInv' /\ BoundsInv'
  BY <1>1, <1>2, <1>3, GroupsKept, BoundsKept DEF GroupsInv
<1>5. ScanInv'
  BY <1>1, <1>2 DEF ScanInv, Records, NumRecords
<1>6. GroupedOnce'
  <2>1. ASSUME NEW c \in 1 .. l PROVE Taken(c)' = Taken(c)
    BY <1>2 DEF Taken, Finished, Records, NumRecords
  <2>2. QED
    BY <1>1, <1>2, <1>3, <2>1, OnceKept DEF GroupedOnce
<1>7. QED
  BY <1>4, <1>5, <1>6 DEF GrouperInv

\* Every step preserves the invariant.
LEMMA InvNext == GrouperInv /\ [Next]_vars => GrouperInv'
BY InvNothingToGroup, InvClubAll, InvSortClause, InvOpenGroup, InvAddMember,
   InvSaveGroup, InvEndClause, InvStutter DEF Next

-----------------------------------------------------------------------------
(* The theorems.                                                           *)

\* The bounds by place are those of the property.
LEMMA BoundsFromInv ==
  ASSUME GrouperInv PROVE BoundsExact
<1>1. GroupsInv /\ ScanInv /\ BoundsInv
  BY DEF GrouperInv
<1>2. CASE clauseset = <<>>
  BY <1>1, <1>2 DEF BoundsInv
<1>3. CASE clauseset # <<>>
  <2>1. SUFFICES ASSUME NEW g \in DOMAIN groupset
                 PROVE  /\ groupset[g].start_ts = Min({flow[q].start : q \in Members(g)})
                        /\ groupset[g].end_ts = Max({flow[q].end : q \in Members(g)})
    BY DEF BoundsExact
  <2>2. groupset[g].members \in Seq(Records)
    BY <1>1 DEF GroupsInv
  <2>3. Members(g) \subseteq Records
    BY <2>2, ElementOfSeq, LenProperties DEF Members, Range
  <2>4. \A q \in Records : flow[q].start \in Int /\ flow[q].end \in Int
    BY <1>1, Sizes
  <2>5. /\ {flow[q].start : q \in Members(g)} \subseteq Int
        /\ {flow[q].end : q \in Members(g)} \subseteq Int
    BY <2>3, <2>4
  <2>6. /\ IsMin(groupset[g].start_ts, {flow[q].start : q \in Members(g)})
        /\ IsMax(groupset[g].end_ts, {flow[q].end : q \in Members(g)})
    BY <1>1, <1>3 DEF BoundsInv
  <2>7. QED
    BY <2>5, <2>6, MinIsMin, MaxIsMax
<1>4. QED
  BY <1>2, <1>3

\* The invariant of the scan, which the properties below follow from.
THEOREM Invariance == Spec => []GrouperInv
<1>1. Init => GrouperInv
  BY InvInit
<1>2. GrouperInv /\ [Next]_vars => GrouperInv'
  BY InvNext
<1>3. QED
  BY <1>1, <1>2, PTL DEF Spec

\* For every clause, whatever its terms, however the records are sorted and
\* whichever of them match, the scan takes each record exactly once.
THEOREM GroupedOnceCorrect == Spec => []GroupedOnce
<1>1. GrouperInv => GroupedOnce
  BY DEF GrouperInv
<1>2. QED
  BY <1>1, Invariance, PTL

\* The time bounds of a group are those of its members at every moment.
THEOREM BoundsCorrect == Spec => []BoundsExact
<1>1. GrouperInv => BoundsExact
  BY BoundsFromInv
<1>2. QED
  BY <1>1, Invariance, PTL

-----------------------------------------------------------------------------
(* The grouper implements Partition.                                       *)

\* The number of rounds.
LEMMA RoundsIs ==
  ASSUME ScanInv
  PROVE  Rounds = IF Len(clauseset) = 0 THEN 1 ELSE Len(clauseset)
<1> DEFINE n == Len(clauseset)
<1>1. n \in Nat
  BY Sizes
<1> HIDE DEF n
<1>2. CASE n = 0
  <2>1. IsMax(1, {1, n})
    BY <1>2 DEF IsMax
  <2>2. Max({1, n}) = 1
    BY <1>1, <2>1, MaxIsMax
  <2>3. QED
    BY <1>2, <2>2 DEF Rounds, n
<1>3. CASE n # 0
  <2>1. IsMax(n, {1, n})
    BY <1>1, <1>3 DEF IsMax
  <2>2. Max({1, n}) = n
    BY <1>1, <2>1, MaxIsMax
  <2>3. QED
    BY <1>3, <2>2 DEF Rounds, n
<1>4. QED
  BY <1>2, <1>3

\* A group is closed unless it is the one being extended.
LEMMA ClosedIs ==
  ASSUME GroupsInv
  PROVE  /\ DOMAIN groupset = 1 .. Len(groupset)
         /\ Len(groupset) \in Nat
         /\ pc # "grow" => Closed = DOMAIN groupset
         /\ pc = "grow" => Closed = 1 .. Len(groupset) - 1
<1>1. groupset \in Seq(Range(groupset))
  BY DEF GroupsInv
<1>2. DOMAIN groupset = 1 .. Len(groupset) /\ Len(groupset) \in Nat
  BY <1>1, LenProperties
<1>3. QED
  BY <1>2 DEF Closed

\* Between two groups all the groups are closed.
LEMMA RestIs ==
  ASSUME GrouperInv, pc # "grow"
  PROVE  NotCutYet = Records \ Taken(l)
<1>1. GroupsInv /\ ScanInv /\ GroupedOnce
  BY DEF GrouperInv
<1>2. l \in 1 .. l
  BY <1>1, Sizes
<1>3. UNION {Members(g) : g \in GroupsOf(l)} = Taken(l)
  BY <1>1, <1>2 DEF GroupedOnce, TakenOnce
<1>4. Closed \cap GroupsOf(l) = GroupsOf(l)
  BY <1>1, ClosedIs DEF GroupsOf
<1>5. QED
  BY <1>3, <1>4 DEF NotCutYet, TakenBy

\* Steps that close no group.
LEMMA RestKept ==
  ASSUME UNCHANGED <<flow, clauseset, l>>, Closed' = Closed,
         \A g \in Closed : /\ g \in DOMAIN groupset /\ g \in DOMAIN groupset'
                           /\ groupset'[g].clause = groupset[g].clause
                           /\ groupset'[g].members = groupset[g].members
  PROVE  UNCHANGED <<Records, Rounds, NotCutYet, Blocks>>
<1>1. \A g \in Closed : Members(g)' = Members(g)
  BY DEF Members
<1>2. (Closed \cap GroupsOf(l))' = Closed \cap GroupsOf(l)
  BY DEF GroupsOf
<1>3. TakenBy(Closed \cap GroupsOf(l))' = TakenBy(Closed \cap GroupsOf(l))
  BY <1>1, <1>2 DEF TakenBy
<1>4. Records' = Records /\ Rounds' = Rounds
  BY DEF Records, NumRecords, Rounds
<1>5. Blocks' = Blocks
  BY <1>1 DEF Blocks
<1>6. QED
  BY <1>3, <1>4, <1>5 DEF NotCutYet

\* The grouper starts where the partition does.
LEMMA PartitionStarts == Init => P!PartitionInit
<1> SUFFICES ASSUME Init PROVE P!PartitionInit
  OBVIOUS
<1>1. l = 1 /\ pc = "start" /\ groupset = <<>>
  BY DEF Init
<1>2. Closed = {}
  BY <1>1 DEF Closed
<1>3. NotCutYet = Records /\ Blocks = {}
  BY <1>2 DEF NotCutYet, TakenBy, Blocks
<1>4. (pc = "done") = FALSE
  BY <1>1
<1>5. QED
  BY <1>1, <1>3, <1>4 DEF P!PartitionInit

\* Nothing to group: every round is over already.
LEMMA NothingFinishes ==
  ASSUME GrouperInv, NothingToGroup PROVE P!Finish
<1>1. GroupsInv
  BY DEF GrouperInv
<1>2. /\ pc = "start" /\ pc' = "done" /\ NumRecords = 0
      /\ UNCHANGED <<flow, clauseset, l, groupset>>
  BY DEF NothingToGroup, inputs
<1>3. Records = {}
  BY <1>2 DEF Records
<1>4. NotCutYet = {}
  BY <1>3 DEF NotCutYet
<1>5. Closed = DOMAIN groupset /\ Closed' = Closed
  BY <1>2 DEF Closed
<1>6. UNCHANGED <<Records, Rounds, NotCutYet, Blocks>>
  BY <1>2, <1>5, RestKept
<1>7. (pc = "done") = FALSE /\ (pc' = "done") = TRUE
  BY <1>2
<1>8. QED
  BY <1>2, <1>3, <1>4, <1>6, <1>7 DEF P!Finish

\* Sorting, opening a group and extending it cut nothing.
LEMMA SortStutters ==
  ASSUME GrouperInv, SortClause PROVE UNCHANGED P!partitionVars
<1>1. /\ pc = "start" /\ pc' = "scan" /\ UNCHANGED <<flow, clauseset, l, groupset>>
  BY DEF SortClause, inputs
<1>2. Closed = DOMAIN groupset /\ Closed' = Closed
  BY <1>1 DEF Closed
<1>3. UNCHANGED <<Records, Rounds, NotCutYet, Blocks>>
  BY <1>1, <1>2, RestKept
<1>4. (pc = "done") = FALSE /\ (pc' = "done") = FALSE
  BY <1>1
<1>5. QED
  BY <1>1, <1>3, <1>4 DEF P!partitionVars

\* An open group is none of the blocks yet.
LEMMA OpenStutters ==
  ASSUME GrouperInv, OpenGroup PROVE UNCHANGED P!partitionVars
<1>1. GroupsInv
  BY DEF GrouperInv
<1>2. PICK x : groupset' = Append(groupset, x)
  BY DEF OpenGroup
<1>3. /\ pc = "scan" /\ pc' = "grow" /\ UNCHANGED <<flow, clauseset, l>>
  BY DEF OpenGroup, inputs
<1>4. /\ groupset' \in Seq(Range(groupset'))
      /\ Len(groupset) \in Nat /\ DOMAIN groupset = 1 .. Len(groupset)
      /\ Len(groupset') = Len(groupset) + 1
      /\ DOMAIN groupset' = 1 .. Len(groupset) + 1
      /\ \A n \in 1 .. Len(groupset) : groupset'[n] = groupset[n]
  BY <1>1, <1>2, AppendOwn DEF GroupsInv
<1>5. Closed = DOMAIN groupset
  BY <1>3 DEF Closed
<1>6. Closed' = 1 .. Len(groupset') - 1
  BY <1>3 DEF Closed
<1>7. Closed' = Closed
  BY <1>4, <1>5, <1>6
<1>8. \A g \in Closed : g \in DOMAIN groupset' /\ groupset'[g] = groupset[g]
  BY <1>4, <1>5
<1>9. UNCHANGED <<Records, Rounds, NotCutYet, Blocks>>
  BY <1>3, <1>5, <1>7, <1>8, RestKept
<1>10. (pc = "done") = FALSE /\ (pc' = "done") = FALSE
  BY <1>3
<1>11. QED
  BY <1>3, <1>9, <1>10 DEF P!partitionVars

\* Nor is it when it grows.
LEMMA AddStutters ==
  ASSUME GrouperInv, AddMember PROVE UNCHANGED P!partitionVars
<1> DEFINE k == Len(groupset)
           x == Extend(groupset[k], filtered[current_item + 1])
<1>1. GroupsInv /\ ScanInv
  BY DEF GrouperInv
<1>2. /\ pc = "grow" /\ pc' = "grow" /\ UNCHANGED <<flow, clauseset, l>>
      /\ groupset' = [groupset EXCEPT ![k] = x]
  BY DEF AddMember, inputs
<1>3. groupset \in Seq(Range(groupset)) /\ groupset # <<>>
  BY <1>1, <1>2 DEF GroupsInv, ScanInv
<1>4. k \in DOMAIN groupset /\ k \in Nat /\ DOMAIN groupset = 1 .. k
  BY <1>3, LenProperties, EmptySeq
<1> HIDE DEF x
<1>5. /\ Len(groupset') = k /\ DOMAIN groupset' = DOMAIN groupset
      /\ \A g \in DOMAIN groupset : g # k => groupset'[g] = groupset[g]
  BY <1>2, <1>3, <1>4, ExceptOwn
<1>6. Closed = 1 .. k - 1
  BY <1>2 DEF Closed
<1>7. Closed' = Closed
  BY <1>2, <1>5, <1>6 DEF Closed
<1> HIDE DEF k
<1>8. \A g \in Closed : g \in DOMAIN groupset /\ g # k
  BY <1>4, <1>6
<1>9. UNCHANGED <<Records, Rounds, NotCutYet, Blocks>>
  BY <1>2, <1>5, <1>7, <1>8, RestKept
<1>10. (pc = "done") = FALSE /\ (pc' = "done") = FALSE
  BY <1>2
<1>11. QED
  BY <1>2, <1>9, <1>10 DEF P!partitionVars

\* Without a clause a single block is cut, of all the records.
LEMMA ClubAllCuts ==
  ASSUME GrouperInv, ClubAll PROVE P!Cut
<1>1. GroupsInv /\ ScanInv /\ GrouperInv'
  BY InvClubAll DEF GrouperInv
<1>2. /\ pc = "start" /\ pc' = "done" /\ clauseset = <<>> /\ NumRecords > 0
      /\ UNCHANGED <<flow, clauseset, l>>
  BY DEF ClubAll, inputs
<1>3. l = 1
  BY <1>1, <1>2 DEF ScanInv
<1>4. Records # {} /\ UNCHANGED <<Records, Rounds>>
  <2>1. NumRecords \in Nat /\ 1 \in Records
    BY <1>1, <1>2, Sizes DEF Records
  <2>2. QED
    BY <1>2, <2>1 DEF Records, NumRecords, Rounds
<1>5. DOMAIN groupset = {}
  <2>1. ASSUME NEW g \in DOMAIN groupset PROVE FALSE
    <3>1. groupset[g].clause \in 1 .. 1 /\ groupset[g].clause < 1
      BY <1>1, <1>2, <1>3, <2>1 DEF GroupsInv
    <3>2. QED
      BY <3>1
  <2>2. QED
    BY <2>1
<1>6. NotCutYet = Records /\ Blocks = {}
  BY <1>2, <1>5 DEF NotCutYet, TakenBy, Blocks, Closed
<1>7. DOMAIN groupset' = {1} /\ groupset'[1].clause = 1
  <2>1. PICK x : groupset' = <<x>> /\ x.clause = 1
    <3> DEFINE group == [clause   |-> 1,
                         members  |-> [p \in Records |-> filtered[p]],
                         start_ts |-> Min({flow[q].start : q \in Records}),
                         end_ts   |-> Max({flow[q].end : q \in Records}),
                         aggrset  |-> <<>>,
                         record   |-> NoFields]
    <3>1. PICK order : groupset' = <<Completed(group, order)>>
      BY DEF ClubAll
    <3>2. DOMAIN group = GroupFields /\ group.clause = 1
      BY DEF GroupFields
    <3> HIDE DEF group
    <3>3. Completed(group, order).clause = 1
      BY <3>2, CompletedFacts
    <3>4. QED
      BY <3>1, <3>3
  <2>2. DOMAIN groupset' = 1 .. 1 /\ groupset'[1] = x
    BY <2>1
  <2>3. QED
    BY <2>1, <2>2
<1>8. Closed' = {1} /\ GroupsOf(1)' = {1}
  BY <1>2, <1>7 DEF Closed, GroupsOf
<1>9. Members(1)' = Records
  <2>1. GroupedOnce' /\ 1 \in 1 .. l'
    BY <1>1, <1>2, <1>3 DEF GrouperInv
  <2>2. TakenOnce(1)'
    BY <1>2, <1>3, <2>1 DEF GroupedOnce
  <2>3. Taken(1)' = Records
    BY <1>2, <1>3, <1>4 DEF Taken, Finished
  <2>4. UNION {Members(g)' : g \in GroupsOf(1)'} = Taken(1)'
    BY <2>2 DEF TakenOnce
  <2>5. QED
    BY <1>8, <2>3, <2>4
<1>10. Blocks' = Blocks \cup {<<l, Records>>}
  BY <1>3, <1>6, <1>7, <1>8, <1>9 DEF Blocks
<1>11. NotCutYet' = {}
  <2>1. (Closed \cap GroupsOf(l))' = {1}
    BY <1>2, <1>3, <1>8
  <2>2. TakenBy(Closed \cap GroupsOf(l))' = Records
    BY <1>9, <2>1 DEF TakenBy
  <2>3. QED
    BY <1>4, <2>2 DEF NotCutYet
<1>12. l = Rounds
  BY <1>1, <1>2, <1>3, Sizes, RoundsIs
<1>13. (pc' = "done") = TRUE
  BY <1>2
<1>14. /\ Records \in (SUBSET NotCutYet) \ {{}}
       /\ NotCutYet' = NotCutYet \ Records
       /\ (pc' = "done") \in {FALSE, NotCutYet' = {} /\ l = Rounds}
  BY <1>4, <1>6, <1>11, <1>12, <1>13
<1>15. QED
  BY <1>2, <1>4, <1>10, <1>14 DEF P!Cut

\* Completing a group closes it: its members are a block.
LEMMA SaveCuts ==
  ASSUME GrouperInv, MismatchEndsGroup \/ LastItemEndsGroup
  PROVE  P!Cut
<1> DEFINE k == Len(groupset)
<1>1. GroupsInv /\ ScanInv /\ GroupedOnce
  BY DEF GrouperInv
<1>2. /\ pc = "grow" /\ SaveGroup /\ pc' = "scan" /\ UNCHANGED <<flow, clauseset, l>>
  BY DEF MismatchEndsGroup, LastItemEndsGroup, SaveGroup, inputs
<1>3. SameGroups
  BY <1>1, <1>2, SameSaved
<1>4. /\ groupset \in Seq(Range(groupset)) /\ groupset # <<>>
      /\ groupset[k].clause = l
  BY <1>1, <1>2 DEF GroupsInv, ScanInv, Last
<1>5. k \in DOMAIN groupset /\ k \in Nat /\ DOMAIN groupset = 1 .. k
  BY <1>4, LenProperties, EmptySeq
<1>6. Closed = 1 .. k - 1 /\ Closed' = 1 .. k
  BY <1>2, <1>3, <1>5 DEF Closed, SameGroups
<1> HIDE DEF k
<1>7. Closed' = Closed \cup {k} /\ k \notin Closed /\ Closed \subseteq DOMAIN groupset
  BY <1>5, <1>6
<1>8. k \in GroupsOf(l) /\ GroupsOf(l)' = GroupsOf(l)
  BY <1>2, <1>3, <1>4, <1>5, MembersSame DEF GroupsOf
<1>9. \A g \in DOMAIN groupset : /\ Members(g)' = Members(g)
                                 /\ groupset'[g].clause = groupset[g].clause
  BY <1>3, MembersSame DEF SameGroups
<1>10. Records' = Records /\ Rounds' = Rounds
  BY <1>2 DEF Records, NumRecords, Rounds
<1>11. Blocks' = Blocks \cup {<<l, Members(k)>>}
  BY <1>4, <1>5, <1>7, <1>9 DEF Blocks
<1>12. NotCutYet' = NotCutYet \ Members(k)
  <2>1. (Closed \cap GroupsOf(l))' = (Closed \cap GroupsOf(l)) \cup {k}
    BY <1>7, <1>8
  <2>2. TakenBy(Closed \cap GroupsOf(l))'
          = TakenBy(Closed \cap GroupsOf(l)) \cup Members(k)
    BY <1>5, <1>7, <1>9, <2>1 DEF TakenBy
  <2>3. QED
    BY <1>10, <2>2 DEF NotCutYet
<1>13. groupset[k].members \in Seq(Records) /\ groupset[k].members # <<>>
  BY <1>1, <1>5 DEF GroupsInv
<1>14. Members(k) # {}
  <2>1. 1 \in DOMAIN groupset[k].members
    BY <1>13, EmptySeq, LenProperties
  <2>2. QED
    BY <2>1 DEF Members, Range
<1>15. Members(k) \subseteq NotCutYet
  <2>1. Members(k) \subseteq Records
    BY <1>13, ElementOfSeq, LenProperties DEF Members, Range
  <2>2. TakenOnce(l)
    <3>1. l \in 1 .. l
      BY <1>1, Sizes
    <3>2. QED
      BY <1>1, <3>1 DEF GroupedOnce
  <2>3. ASSUME NEW y \in Members(k), NEW g \in Closed \cap GroupsOf(l), y \in Members(g)
        PROVE  FALSE
    <3>1. PICK m \in DOMAIN groupset[k].members : groupset[k].members[m] = y
      BY <2>3 DEF Members, Range
    <3>2. PICK n \in DOMAIN groupset[g].members : groupset[g].members[n] = y
      BY <2>3 DEF Members, Range
    <3>3. g = k
      BY <1>8, <2>2, <3>1, <3>2 DEF TakenOnce
    <3>4. QED
      BY <1>7, <3>3
  <2>4. QED
    BY <2>1, <2>3 DEF NotCutYet, TakenBy
<1>16. (pc' = "done") = FALSE
  BY <1>2
<1>17. /\ Members(k) \in (SUBSET NotCutYet) \ {{}}
       /\ (pc' = "done") \in {FALSE, NotCutYet' = {} /\ l = Rounds}
  BY <1>14, <1>15, <1>16
<1>18. QED
  BY <1>2, <1>10, <1>11, <1>12, <1>17 DEF P!Cut

\* The sentinel ends a round, and the last one the partition.
LEMMA EndEnds ==
  ASSUME GrouperInv, EndClause PROVE P!NextRound \/ P!Finish
<1>1. GroupsInv /\ ScanInv /\ GrouperInv'
  BY InvEndClause DEF GrouperInv
<1>2. /\ pc = "scan" /\ filtered[current_item] = Null
      /\ UNCHANGED <<flow, clauseset, groupset>>
      /\ IF l = Len(clauseset) THEN pc' = "done" /\ l' = l
                               ELSE pc' = "start" /\ l' = l + 1
  BY DEF EndClause, inputs
<1>3. l \in Nat /\ 1 <= l /\ l <= Len(clauseset) /\ Len(clauseset) \in Nat
  BY <1>1, <1>2, Sizes DEF ScanInv
<1>4. Rounds = Len(clauseset)
  BY <1>1, <1>3, RoundsIs
<1>5. Records' = Records /\ Rounds' = Rounds
  BY <1>2 DEF Records, NumRecords, Rounds
<1>6. NotCutYet = {}
  <2>1. Taken(l) = Records
    BY <1>1, <1>2, AllTaken
  <2>2. QED
    BY <1>2, <2>1, RestIs
<1>7. Closed' = Closed /\ Closed = DOMAIN groupset
  BY <1>2 DEF Closed
<1>8. Blocks' = Blocks
  BY <1>2, <1>7 DEF Blocks, Members
<1>9. (pc = "done") = FALSE
  BY <1>2
<1>10. CASE l = Len(clauseset)
  <2>1. UNCHANGED NotCutYet
    BY <1>2, <1>7, <1>10, RestKept
  <2>2. (pc' = "done") = TRUE /\ l' = l /\ l = Rounds
    BY <1>2, <1>4, <1>10
  <2>3. P!Finish
    BY <1>5, <1>6, <1>8, <1>9, <2>1, <2>2 DEF P!Finish
  <2>4. QED
    BY <2>3
<1>11. CASE l # Len(clauseset)
  <2>1. pc' = "start" /\ l' = l + 1
    BY <1>2, <1>11
  <2>2. NotCutYet' = Records \ Taken(l)'
    <3>1. l' \in 1 .. l' /\ GroupedOnce'
      BY <1>1, <1>3, <2>1 DEF GrouperInv
    <3>2. TakenOnce(l)'
      BY <3>1 DEF GroupedOnce
    <3>3. UNION {Members(g)' : g \in GroupsOf(l)'} = Taken(l)'
      BY <3>2 DEF TakenOnce
    <3>4. (Closed \cap GroupsOf(l))' = GroupsOf(l)'
      BY <1>2, <1>7 DEF GroupsOf
    <3>5. QED
      BY <1>5, <3>3, <3>4 DEF NotCutYet, TakenBy
  <2>3. Taken(l)' = {}
    BY <1>3, <2>1 DEF Taken, Finished
  <2>4. NotCutYet' = Records
    BY <2>2, <2>3
  <2>5. l < Rounds
    BY <1>3, <1>4, <1>11
  <2>6. (pc' = "done") = FALSE
    BY <2>1
  <2>7. P!NextRound
    BY <1>5, <1>6, <1>8, <1>9, <2>1, <2>4, <2>5, <2>6 DEF P!NextRound
  <2>8. QED
    BY <2>7
<1>12. QED
  BY <1>10, <1>11

\* A step that changes nothing changes nothing in Partition.
LEMMA IdleStutters ==
  ASSUME UNCHANGED vars PROVE UNCHANGED P!partitionVars
<1>1. UNCHANGED <<pc, l, flow, clauseset, groupset>>
  BY DEF vars, inputs
<1>2. UNCHANGED <<Records, Rounds, Closed>>
  BY <1>1 DEF Records, NumRecords, Rounds, Closed
<1>3. UNCHANGED <<NotCutYet, Blocks>>
  BY <1>1, <1>2 DEF NotCutYet, TakenBy, Blocks, Members, GroupsOf
<1>4. (pc' = "done") = (pc = "done")
  BY <1>1
<1>5. QED
  BY <1>1, <1>2, <1>3, <1>4 DEF P!partitionVars

\* Every step of the grouper cuts a block, ends a round, or goes unnoticed.
LEMMA PartitionSteps ==
  ASSUME GrouperInv, [Next]_vars
  PROVE  [P!PartitionNext]_P!partitionVars
BY NothingFinishes, ClubAllCuts, SortStutters, OpenStutters, AddStutters,
   SaveCuts, EndEnds, IdleStutters DEF Next, P!PartitionNext

\* The safety part of ImplementsPartition: clause by clause the groups cut up
\* the records, each into exactly one, until none is left.
THEOREM PartitionCorrect ==
  Spec => P!PartitionInit /\ [][P!PartitionNext]_P!partitionVars
<1>1. Init => P!PartitionInit
  BY PartitionStarts
<1>2. GrouperInv /\ [Next]_vars => [P!PartitionNext]_P!partitionVars
  BY PartitionSteps
<1>3. QED
  BY <1>1, <1>2, Invariance, PTL DEF Spec

-----------------------------------------------------------------------------
(* Neighbours: what the sort and the comparators make of the groups.       *)

\* The terms of a clause and the key they give a record.
LEMMA KeyFacts ==
  ASSUME ScanInv, NEW c \in DOMAIN clauseset, NEW q \in Records
  PROVE  /\ Len(clauseset[c]) \in Nat
         /\ DOMAIN clauseset[c] = 1 .. Len(clauseset[c])
         /\ DOMAIN SortKey(c, q) = DOMAIN clauseset[c]
         /\ \A j \in DOMAIN clauseset[c] :
              /\ clauseset[c][j] \in Term
              /\ SortKey(c, q)[j] = flow[q].fields[clauseset[c][j].offset2]
              /\ SortKey(c, q)[j] \in Words
              /\ SortKey(c, q)[j] \in Nat
<1>1. flow \in Seq(Flows) /\ clauseset \in Seq(Seq(Term))
  BY DEF ScanInv
<1>2. clauseset[c] \in Seq(Term)
  BY <1>1, ElementOfSeq, LenProperties
<1>3. /\ Len(clauseset[c]) \in Nat
      /\ DOMAIN clauseset[c] = 1 .. Len(clauseset[c])
      /\ \A j \in DOMAIN clauseset[c] : clauseset[c][j] \in Term
  BY <1>2, ElementOfSeq, LenProperties
<1>4. flow[q] \in Flows
  BY <1>1, ElementOfSeq, LenProperties DEF Records, NumRecords
<1>5. flow[q].fields \in [Fields -> Words]
  BY <1>4, GrouperAssumption
<1>6. \A j \in DOMAIN clauseset[c] : clauseset[c][j].offset2 \in Fields
  BY <1>3 DEF Term
<1>7. Words \subseteq Nat
  BY Ranges DEF Words
<1>8. QED
  BY <1>3, <1>5, <1>6, <1>7 DEF SortKey

\* Keys are equal when they are so term by term.
LEMMA KeysEqual ==
  ASSUME NEW c, NEW q, NEW r,
         \A j \in DOMAIN clauseset[c] : SortKey(c, q)[j] = SortKey(c, r)[j]
  PROVE  SortKey(c, q) = SortKey(c, r)
<1>1. /\ SortKey(c, q) = [j \in DOMAIN clauseset[c] |-> SortKey(c, q)[j]]
      /\ SortKey(c, r) = [j \in DOMAIN clauseset[c] |-> SortKey(c, r)[j]]
  BY DEF SortKey
<1>2. QED
  BY <1>1, Zenon

\* What is between two records with one key has that key as well.
LEMMA Squeezed ==
  ASSUME ScanInv, NEW c \in DOMAIN clauseset,
         NEW q \in Records, NEW r \in Records, NEW s \in Records,
         SortKey(c, q) = SortKey(c, s), ~ Before(c, r, q), ~ Before(c, s, r)
  PROVE  SortKey(c, r) = SortKey(c, q)
<1> DEFINE D == {j \in DOMAIN clauseset[c] : SortKey(c, r)[j] # SortKey(c, q)[j]}
<1>1. CASE D = {}
  BY <1>1, KeysEqual
<1>2. CASE D # {}
  <2>1. D \in SUBSET Nat
    BY KeyFacts
  <2>2. PICK j \in D : \A h \in D : j <= h
    <3> HIDE DEF D
    <3> QED
      BY <1>2, <2>1, LeastElement
  <2>3. /\ DOMAIN clauseset[c] = 1 .. Len(clauseset[c]) /\ Len(clauseset[c]) \in Nat
        /\ SortKey(c, q)[j] \in Nat /\ SortKey(c, r)[j] \in Nat
    BY KeyFacts
  <2>4. \A h \in 1 .. j - 1 : h \in DOMAIN clauseset[c] /\ ~ (j <= h)
    BY <2>3
  <2>5. \A h \in 1 .. j - 1 : SortKey(c, r)[h] = SortKey(c, q)[h]
    BY <2>2, <2>4
  <2>6. ~ (SortKey(c, r)[j] < SortKey(c, q)[j])
    BY <2>5 DEF Before
  <2>7. ~ (SortKey(c, q)[j] < SortKey(c, r)[j])
    <3>1. \A h \in 1 .. j - 1 : SortKey(c, s)[h] = SortKey(c, r)[h]
      BY <2>5
    <3>2. ~ (SortKey(c, s)[j] < SortKey(c, r)[j])
      BY <3>1 DEF Before
    <3>3. QED
      BY <3>2
  <2>8. SortKey(c, r)[j] = SortKey(c, q)[j]
    BY <2>3, <2>6, <2>7
  <2>9. QED
    BY <2>8
<1>3. QED
  BY <1>1, <1>2

\* No record is before itself.
LEMMA NotBeforeItself ==
  ASSUME ScanInv, NEW c \in DOMAIN clauseset, NEW q \in Records
  PROVE  ~ Before(c, q, q)
<1>1. \A j \in DOMAIN clauseset[c] : ~ (SortKey(c, q)[j] < SortKey(c, q)[j])
  BY KeyFacts
<1>2. QED
  BY <1>1 DEF Before

\* With one term the order is that of the numbers.
LEMMA OneTerm ==
  ASSUME ScanInv, NEW c \in DOMAIN clauseset, IsRelative(clauseset[c]),
         NEW q \in Records, NEW r \in Records, ~ Before(c, r, q)
  PROVE  /\ 1 \in DOMAIN clauseset[c]
         /\ DOMAIN clauseset[c] = {1}
         /\ SortKey(c, q)[1] \in Words /\ SortKey(c, r)[1] \in Words
         /\ clauseset[c][1].delta \in Words
         /\ SortKey(c, q)[1] <= SortKey(c, r)[1]
<1>1. DOMAIN clauseset[c] = {1}
  BY KeyFacts DEF IsRelative
<1>2. ~ (SortKey(c, r)[1] < SortKey(c, q)[1])
  <2>1. \A h \in 1 .. 1 - 1 : FALSE
    OBVIOUS
  <2>2. QED
    BY <1>1, <2>1 DEF Before
<1>3. SortKey(c, q)[1] \in Nat /\ SortKey(c, r)[1] \in Nat
  BY <1>1, KeyFacts
<1>4. clauseset[c][1] \in Term
  BY <1>1, KeyFacts
<1>5. QED
  BY <1>1, <1>2, <1>3, <1>4, KeyFacts DEF Term

\* Without a delta the comparator for "eq" is equality.
LEMMA EqualUpToNothing ==
  ASSUME NEW x \in Words, NEW y \in Words
  PROVE  Compare("eq", x, y, 0) <=> x = y
<1>1. 0 \in Words /\ Words \subseteq Int /\ WordRange \in Int
      /\ \A z \in Words : 0 <= z /\ z < WordRange
  BY Ranges DEF Words
<1>2. Plus(y, 0) = y /\ Minus(y, 0) = y
  BY <1>1, Bounds
<1>3. QED
  BY <1>1, <1>2 DEF Compare

\* With a delta it links two numbers in order just when it can follow.
LEMMA EqualUpToDelta ==
  ASSUME NEW x \in Words, NEW y \in Words, NEW d \in Words, x <= y
  PROVE  Compare("eq", x, y, d)
           <=> y <= x + d /\ y >= d /\ (y + d < WordRange \/ x <= y + d - WordRange)
<1>1. /\ x \in Int /\ y \in Int /\ d \in Int /\ WordRange \in Int
      /\ 0 <= x /\ x < WordRange /\ 0 <= y /\ y < WordRange /\ 0 <= d
      /\ d < WordRange
  BY Ranges DEF Words
<1>2. /\ Plus(y, d) = IF y + d < WordRange THEN y + d ELSE y + d - WordRange
      /\ Minus(y, d) = IF y >= d THEN y - d ELSE y - d + WordRange
  BY Bounds
<1>3. Compare("eq", x, y, d) <=> x >= Minus(y, d) /\ x <= Plus(y, d)
  BY DEF Compare
<1>4. QED
  BY <1>1, <1>2, <1>3

\* The terms of a clause of keys, told by the keys.
LEMMA KeyTerm ==
  ASSUME ScanInv, l \in DOMAIN clauseset, AllKeys(clauseset[l]),
         NEW members \in Seq(Records), members # <<>>, NEW q \in Records,
         SortKey(l, Last(members)) = SortKey(l, members[1]),
         NEW j \in DOMAIN clauseset[l]
  PROVE  TermMatches(clauseset[l][j], members, q)
           <=> SortKey(l, members[1])[j] = SortKey(l, q)[j]
<1> DEFINE term == clauseset[l][j]
           p    == Compared(term, members)
           d    == IF term.dtype = "no" THEN 0 ELSE term.delta
<1>1. /\ term \in Term /\ IsKey(term)
  BY KeyFacts DEF AllKeys
<1>2. /\ term.offset1 = term.offset2 /\ term.op = "eq" /\ d = 0
  BY <1>1 DEF IsKey
<1>3. members[1] \in Records /\ Last(members) \in Records
  <2>1. Len(members) \in Nat /\ Len(members) # 0
    BY EmptySeq, LenProperties
  <2>2. 1 \in 1 .. Len(members) /\ Len(members) \in 1 .. Len(members)
    BY <2>1
  <2>3. QED
    BY <2>2, ElementOfSeq DEF Last
<1>4. p \in Records /\ SortKey(l, p) = SortKey(l, members[1])
  BY <1>3 DEF Compared
<1>5. TermMatches(term, members, q)
        <=> Compare("eq", flow[p].fields[term.offset2],
                    flow[q].fields[term.offset2], 0)
  <2>1. TermMatches(term, members, q)
          <=> Compare(term.op, flow[p].fields[term.offset1],
                      flow[q].fields[term.offset2], d)
    BY DEF TermMatches
  <2> HIDE DEF term, p, d
  <2>2. QED
    BY <1>2, <2>1
<1>6. /\ SortKey(l, p)[j] = flow[p].fields[term.offset2]
      /\ SortKey(l, q)[j] = flow[q].fields[term.offset2]
      /\ SortKey(l, p)[j] \in Words /\ SortKey(l, q)[j] \in Words
  BY <1>4, KeyFacts
<1> HIDE DEF p, d
<1>7. TermMatches(term, members, q) <=> SortKey(l, p)[j] = SortKey(l, q)[j]
  BY <1>5, <1>6, EqualUpToNothing
<1>8. QED
  BY <1>4, <1>7

\* The term of a relative clause, told by the last member.
LEMMA RelativeTerm ==
  ASSUME ScanInv, l \in DOMAIN clauseset, IsRelative(clauseset[l]),
         NEW members, Last(members) \in Records, NEW q \in Records,
         ~ Before(l, q, Last(members))
  PROVE  Matches(members, q) <=> Linked(l, Last(members), q)
<1> DEFINE term == clauseset[l][1]
           p    == Last(members)
<1>1. /\ DOMAIN clauseset[l] = {1} /\ term.delta \in Words
      /\ SortKey(l, p)[1] \in Words /\ SortKey(l, q)[1] \in Words
      /\ SortKey(l, p)[1] <= SortKey(l, q)[1]
  BY OneTerm
<1>2. /\ term.op = "eq" /\ term.dtype = "rel" /\ term.offset1 = term.offset2
  BY DEF IsRelative
<1>3. Matches(members, q) <=> TermMatches(term, members, q)
  BY <1>1 DEF Matches
<1>4. /\ SortKey(l, p)[1] = flow[p].fields[term.offset2]
      /\ SortKey(l, q)[1] = flow[q].fields[term.offset2]
  BY <1>1, KeyFacts
<1>5. TermMatches(term, members, q)
        <=> Compare("eq", SortKey(l, p)[1], SortKey(l, q)[1], term.delta)
  <2>1. Compared(term, members) = p
    BY <1>2 DEF Compared
  <2>2. term.dtype # "no"
    BY <1>2
  <2>3. QED
    BY <1>2, <1>4, <2>1, <2>2 DEF TermMatches
<1>6. QED
  BY <1>1, <1>3, <1>5, EqualUpToDelta DEF Linked

\* A member that follows the last one goes together with those before.
LEMMA MatchedTogether ==
  ASSUME ScanInv, l \in DOMAIN clauseset,
         NEW members \in Seq(Records), members # <<>>, NEW q \in Records,
         Together(l, members), ~ Before(l, q, Last(members)),
         Matches(members, q)
  PROVE  Together(l, Append(members, q))
<1> DEFINE n == Len(members)
           m == Append(members, q)
<1>1. /\ n \in Nat /\ n # 0 /\ DOMAIN members = 1 .. n
      /\ DOMAIN m = 1 .. n + 1 /\ Len(m) = n + 1
      /\ \A i \in 1 .. n : m[i] = members[i]
      /\ m[n + 1] = q
  BY AppendFacts, EmptySeq
<1>2. Last(members) = members[n] /\ members[n] \in Records /\ n \in 1 .. n
      /\ 1 \in 1 .. n /\ m[1] = members[1]
  <2>1. n \in 1 .. n /\ 1 \in 1 .. n
    BY <1>1
  <2>2. members[n] \in Records
    BY <2>1, ElementOfSeq
  <2>3. QED
    BY <1>1, <2>1, <2>2 DEF Last
<1>3. ASSUME AllKeys(clauseset[l]), NEW i \in DOMAIN m
      PROVE  SortKey(l, m[i]) = SortKey(l, m[1])
  <2>1. \A h \in 1 .. n : SortKey(l, members[h]) = SortKey(l, members[1])
    BY <1>1, <1>3 DEF Together
  <2>2. SortKey(l, Last(members)) = SortKey(l, members[1])
    BY <1>2, <2>1
  <2>3. \A j \in DOMAIN clauseset[l] :
          SortKey(l, members[1])[j] = SortKey(l, q)[j]
    BY <1>3, <2>2, KeyTerm DEF Matches
  <2>4. SortKey(l, members[1]) = SortKey(l, q)
    BY <2>3, KeysEqual
  <2>5. i \in 1 .. n \/ i = n + 1
    BY <1>1
  <2> HIDE DEF m, n
  <2>6. QED
    BY <1>1, <1>2, <2>1, <2>4, <2>5
<1>4. ASSUME IsRelative(clauseset[l]), NEW i \in 2 .. Len(m)
      PROVE  Linked(l, m[i - 1], m[i])
  <2>1. Linked(l, members[n], q)
    BY <1>2, <1>4, RelativeTerm
  <2>2. \A h \in 2 .. n : Linked(l, members[h - 1], members[h])
    BY <1>4 DEF Together
  <2>3. i = n + 1 \/ (i \in 2 .. n /\ i \in 1 .. n /\ i - 1 \in 1 .. n)
    BY <1>1
  <2>4. CASE i = n + 1
    <3>1. i - 1 = n
      BY <1>1, <2>4
    <3> HIDE DEF m, n
    <3>2. m[i] = q /\ m[i - 1] = members[n]
      BY <1>1, <1>2, <2>4, <3>1
    <3>3. QED
      BY <2>1, <3>2
  <2>5. CASE i \in 2 .. n /\ i \in 1 .. n /\ i - 1 \in 1 .. n
    <3> HIDE DEF m, n
    <3>1. m[i] = members[i] /\ m[i - 1] = members[i - 1]
      BY <1>1, <2>5
    <3>2. QED
      BY <2>2, <2>5, <3>1
  <2>6. QED
    BY <2>3, <2>4, <2>5
<1>5. QED
  BY <1>3, <1>4 DEF Together

\* What is between two records that are next to each other but not grouped.
Torn(c, p, q) ==
  /\ AllKeys(clauseset[c]) => SortKey(c, p) # SortKey(c, q)
  /\ IsRelative(clauseset[c]) =>
       \/ SortKey(c, q)[1] > SortKey(c, p)[1] + clauseset[c][1].delta
       \/ SortKey(c, q)[1] < clauseset[c][1].delta
       \/ SortKey(c, q)[1] + clauseset[c][1].delta >= WordRange

\* A record that is near the last member but does not match it is torn off by
\* a bound that leaves the range.
LEMMA UnmatchedTorn ==
  ASSUME ScanInv, l \in DOMAIN clauseset,
         NEW members \in Seq(Records), members # <<>>, NEW q \in Records,
         Together(l, members), ~ Before(l, q, Last(members)),
         ~ Matches(members, q)
  PROVE  Torn(l, Last(members), q)
<1> DEFINE n == Len(members)
<1>1. /\ n \in Nat /\ n # 0 /\ DOMAIN members = 1 .. n
  BY EmptySeq, LenProperties
<1>2. Last(members) = members[n] /\ members[n] \in Records /\ n \in 1 .. n
  <2>1. n \in 1 .. n
    BY <1>1
  <2>2. members[n] \in Records
    BY <2>1, ElementOfSeq
  <2>3. QED
    BY <2>1, <2>2 DEF Last
<1>3. ASSUME AllKeys(clauseset[l])
      PROVE  SortKey(l, Last(members)) # SortKey(l, q)
  <2>1. SortKey(l, Last(members)) = SortKey(l, members[1])
    BY <1>1, <1>2, <1>3 DEF Together
  <2>2. PICK j \in DOMAIN clauseset[l] :
          ~ TermMatches(clauseset[l][j], members, q)
    BY DEF Matches
  <2>3. SortKey(l, members[1])[j] # SortKey(l, q)[j]
    BY <1>3, <2>1, <2>2, KeyTerm
  <2>4. QED
    BY <2>1, <2>3
<1>4. ASSUME IsRelative(clauseset[l])
      PROVE  \/ SortKey(l, q)[1] > SortKey(l, members[n])[1] + clauseset[l][1].delta
             \/ SortKey(l, q)[1] < clauseset[l][1].delta
             \/ SortKey(l, q)[1] + clauseset[l][1].delta >= WordRange
  <2>1. ~ Linked(l, members[n], q)
    BY <1>2, <1>4, RelativeTerm
  <2>2. /\ clauseset[l][1].delta \in Int /\ WordRange \in Int
        /\ SortKey(l, members[n])[1] \in Int /\ SortKey(l, q)[1] \in Int
    <3>1. Words \subseteq Int /\ WordRange \in Int
      BY Ranges DEF Words
    <3>2. QED
      BY <1>2, <1>4, <3>1, OneTerm
  <2>3. QED
    BY <2>1, <2>2 DEF Linked
<1>5. QED
  BY <1>2, <1>3, <1>4 DEF Torn

\* Two records with such a gap between them are separate.
LEMMA TornSeparates ==
  ASSUME ScanInv, NEW c \in DOMAIN clauseset,
         NEW a \in Records, NEW p \in Records, NEW q \in Records,
         NEW b \in Records,
         ~ Before(c, p, a), ~ Before(c, q, a), ~ Before(c, q, p),
         ~ Before(c, b, p), ~ Before(c, b, q), Torn(c, p, q)
  PROVE  Separate(c, a, b) /\ Separate(c, b, a)
<1>1. ASSUME AllKeys(clauseset[c]), SortKey(c, a) = SortKey(c, b) PROVE FALSE
  <2>1. SortKey(c, p) = SortKey(c, a) /\ SortKey(c, q) = SortKey(c, a)
    BY <1>1, Squeezed
  <2>2. QED
    BY <1>1, <2>1 DEF Torn
<1>2. ASSUME IsRelative(clauseset[c])
      PROVE  Apart(c, a, b) /\ Apart(c, b, a)
  <2> DEFINE x == SortKey(c, a)[1]
             y == SortKey(c, p)[1]
             z == SortKey(c, q)[1]
             w == SortKey(c, b)[1]
             d == clauseset[c][1].delta
  <2>1. /\ x \in Words /\ y \in Words /\ z \in Words /\ w \in Words
        /\ d \in Words /\ x <= y /\ y <= z /\ z <= w
    BY <1>2, OneTerm
  <2>2. z > y + d \/ z < d \/ z + d >= WordRange
    BY <1>2 DEF Torn
  <2>3. /\ Apart(c, a, b) <=> (x <= w => w > x + d \/ x < d \/ w + d >= WordRange)
        /\ Apart(c, b, a) <=> (w <= x => x > w + d \/ w < d \/ x + d >= WordRange)
    BY DEF Apart
  <2>4. /\ x \in Int /\ y \in Int /\ z \in Int /\ w \in Int /\ d \in Int
        /\ WordRange \in Int /\ d >= 0
    BY <2>1, Ranges DEF Words
  <2> HIDE DEF x, y, z, w, d
  <2>5. QED
    BY <2>1, <2>2, <2>3, <2>4
<1>3. QED
  BY <1>1, <1>2 DEF Separate

\* What holds of members by their fields alone.
LEMMA TogetherSame ==
  ASSUME flow' = flow, clauseset' = clauseset, NEW c, NEW m
  PROVE  Together(c, m)' <=> Together(c, m)
BY DEF Together, SortKey, Linked

\* Which records are apart depends on the records and the query only.
LEMMA SeparateSame ==
  ASSUME flow' = flow, clauseset' = clauseset, NEW c, NEW q, NEW r
  PROVE  Separate(c, q, r)' <=> Separate(c, q, r)
BY DEF Separate, SortKey, Apart

\* A step that makes no group bigger but the k-th, and closes no other.
LEMMA ClassesStep ==
  ASSUME NEW c, ClassesInv(c), UNCHANGED <<flow, clauseset>>, NEW k,
         \A g \in GroupsOf(c)' : g # k =>
           /\ g \in GroupsOf(c)
           /\ groupset'[g].members = groupset[g].members
           /\ g \in Closed' => g \in Closed,
         k \in GroupsOf(c)' => Together(c, groupset'[k].members),
         k \in GroupsOf(c)' /\ k \in Closed' =>
           \A q \in Range(groupset'[k].members) :
             \A r \in Records \ Range(groupset'[k].members) : Separate(c, q, r)
  PROVE  ClassesInv(c)'
<1>1. flow' = flow /\ clauseset' = clauseset
  OBVIOUS
<1>2. Records' = Records
  BY DEF Records, NumRecords
<1>3. ASSUME NEW g \in GroupsOf(c)', NEW m, m = groupset'[g].members
      PROVE  /\ Together(c, m)
             /\ g \in Closed' =>
                  \A q \in Range(m), r \in Records \ Range(m) : Separate(c, q, r)
  <2>1. CASE g = k
    BY <1>3, <2>1
  <2>2. CASE g # k
    <3>1. g \in GroupsOf(c) /\ m = groupset[g].members
          /\ (g \in Closed' => g \in Closed)
      BY <1>3, <2>2
    <3>2. QED
      BY <3>1 DEF ClassesInv, Members
  <2>3. QED
    BY <2>1, <2>2
<1>4. ASSUME NEW g \in GroupsOf(c)', NEW m, m = groupset'[g].members
      PROVE  /\ Together(c, m)'
             /\ g \in Closed' =>
                  \A q \in Range(m), r \in Records \ Range(m) :
                    Separate(c, q, r)'
  <2>1. Together(c, m)' <=> Together(c, m)
    BY <1>1, TogetherSame
  <2>2. \A q, r : Separate(c, q, r)' <=> Separate(c, q, r)
    BY <1>1, SeparateSame
  <2>3. QED
    BY <1>3, <1>4, <2>1, <2>2
<1>5. QED
  BY <1>2, <1>4 DEF ClassesInv, Members

\* Steps that leave all groups and close none.
LEMMA ClassesKept ==
  ASSUME NEW c, ClassesInv(c), SameGroups, UNCHANGED <<flow, clauseset>>,
         Closed' \subseteq Closed
  PROVE  ClassesInv(c)'
<1>1. GroupsOf(c)' = GroupsOf(c)
  BY MembersSame
<1>2. PICK k : k \notin DOMAIN groupset
  BY <1>1, NoSetContainsEverything
<1>3. \A g \in GroupsOf(c)' : g \in GroupsOf(c) /\ g # k
                              /\ groupset'[g].members = groupset[g].members
  BY <1>1, <1>2 DEF GroupsOf, SameGroups
<1>4. QED
  BY <1>3, ClassesStep

\* Where the scan is: the records it has come past, the last one first.
LEMMA ScanPlace ==
  ASSUME ScanInv, OrderInv, pc \in {"scan", "grow"}
  PROVE  /\ l \in DOMAIN clauseset
         /\ NumRecords \in Nat /\ Records = 1 .. NumRecords
         /\ \A p \in Records : filtered[p] \in Records
         /\ \A r \in Records : \E p \in Records : filtered[p] = r
         /\ \A m, n \in Records : m <= n => ~ Before(l, filtered[n], filtered[m])
<1> DEFINE f == [p \in Records |-> filtered[p]]
<1>1. f \in Bijection(Records, Records) /\ l <= Len(clauseset)
  BY DEF ScanInv
<1>2. /\ \A p \in Records : filtered[p] = f[p] /\ f[p] \in Records
      /\ \A q \in Records : \E p \in Records : f[p] = q
  BY <1>1 DEF Bijection, Injection, Surjection
<1> HIDE DEF f
<1>3. /\ NumRecords \in Nat /\ Records = 1 .. NumRecords
      /\ Len(clauseset) \in Nat /\ l \in Nat /\ 1 <= l
  BY Sizes DEF Records
<1>4. l \in DOMAIN clauseset
  <2>1. clauseset \in Seq(Seq(Term))
    BY DEF ScanInv
  <2>2. DOMAIN clauseset = 1 .. Len(clauseset)
    BY <2>1, LenProperties
  <2>3. QED
    BY <1>1, <1>3, <2>2
<1>5. ASSUME NEW m \in Records, NEW n \in Records, m <= n
      PROVE  ~ Before(l, filtered[n], filtered[m])
  <2>1. CASE m < n
    BY <2>1 DEF OrderInv
  <2>2. CASE m = n
    BY <1>2, <1>4, <2>2, NotBeforeItself
  <2>3. QED
    BY <1>3, <1>5, <2>1, <2>2
<1>6. QED
  BY <1>2, <1>3, <1>4, <1>5

\* A group that ends is separate from the records it does not have: from those
\* that the scan has come past, because their groups are separate from it, and
\* from the others, because the next one did not match.
LEMMA SavedSeparate ==
  ASSUME NeighboursInv, pc = "grow",
         current_item # NumRecords =>
           ~ Matches(Last(groupset).members, filtered[current_item + 1]),
         NEW q \in Members(Len(groupset)),
         NEW r \in Records \ Members(Len(groupset))
  PROVE  Separate(l, q, r)
<1> DEFINE k == Len(groupset)
           members == groupset[k].members
<1>1. GrouperInv /\ OrderInv /\ GroupsInv /\ ScanInv /\ GroupedOnce
  BY DEF NeighboursInv, GrouperInv
<1>2. /\ l \in DOMAIN clauseset
      /\ NumRecords \in Nat /\ Records = 1 .. NumRecords
      /\ \A p \in Records : filtered[p] \in Records
      /\ \A s \in Records : \E p \in Records : filtered[p] = s
      /\ \A m, n \in Records : m <= n => ~ Before(l, filtered[n], filtered[m])
  BY <1>1, ScanPlace
<1>3. current_item \in Records
  <2>1. current_item \in 1 .. NumRecords + 1 /\ current_item # NumRecords + 1
    BY <1>1 DEF ScanInv
  <2>2. QED
    BY <1>2, <2>1
<1>4. /\ DOMAIN groupset = 1 .. k /\ k \in Nat /\ Closed = 1 .. k - 1
      /\ groupset # <<>> /\ groupset[k].clause = l
      /\ Last(groupset).members = members
  BY <1>1, ClosedIs DEF ScanInv, Last
<1>5. k \in DOMAIN groupset
  <2>1. k # 0
    BY <1>1, <1>4, EmptySeq, LenProperties DEF GroupsInv
  <2>2. QED
    BY <1>4, <2>1
<1>6. k \in GroupsOf(l) /\ l \in 1 .. l
  BY <1>1, <1>4, <1>5, Sizes DEF GroupsOf
<1>7. /\ UNION {Members(g) : g \in GroupsOf(l)} = {filtered[p] : p \in 1 .. current_item}
      /\ \A g \in GroupsOf(l) : Members(g) \cap Members(k) # {} => g = k
  <2>1. TakenOnce(l)
    BY <1>1, <1>6 DEF GroupedOnce
  <2>2. Taken(l) = {filtered[p] : p \in 1 .. current_item}
    BY <1>1, Sizes DEF Taken, Finished
  <2>3. UNION {Members(g) : g \in GroupsOf(l)} = Taken(l)
    BY <2>1 DEF TakenOnce
  <2>4. ASSUME NEW g \in GroupsOf(l), NEW x \in Members(g), x \in Members(k)
        PROVE  g = k
    <3>1. PICK m \in DOMAIN groupset[g].members : groupset[g].members[m] = x
      BY DEF Members, Range
    <3>2. PICK n \in DOMAIN groupset[k].members : groupset[k].members[n] = x
      BY <2>4 DEF Members, Range
    <3>3. QED
      BY <1>6, <2>1, <3>1, <3>2 DEF TakenOnce
  <2>5. QED
    BY <2>2, <2>3, <2>4
<1>8. /\ Together(l, members) /\ members \in Seq(Records) /\ members # <<>>
      /\ Last(members) = filtered[current_item]
  BY <1>1, <1>2, <1>4, <1>5, <1>6 DEF NeighboursInv, ClassesInv, GroupsInv, OrderInv
<1>9. PICK a \in 1 .. current_item : filtered[a] = q
  BY <1>6, <1>7
<1>10. PICK b \in Records : filtered[b] = r
  BY <1>2
<1>14. q \in Records /\ a \in Records /\ a <= current_item
      /\ current_item \in 1 .. NumRecords /\ b \in 1 .. NumRecords
      /\ NumRecords \in Nat
  <2>1. current_item \in 1 .. NumRecords /\ NumRecords \in Nat
    BY <1>2, <1>3
  <2>2. a \in 1 .. NumRecords /\ a <= current_item
    BY <1>9, <2>1
  <2>3. QED
    BY <1>2, <1>9, <1>10, <2>1, <2>2
<1>11. CASE b <= current_item
  <2>1. b \in 1 .. current_item
    BY <1>2, <1>3, <1>10, <1>11
  <2>2. PICK h \in GroupsOf(l) : r \in Members(h)
    BY <1>7, <1>10, <2>1
  <2>3. h # k /\ h \in Closed
    <3>1. h # k /\ h \in 1 .. k
      BY <1>4, <2>2 DEF GroupsOf
    <3>2. k \in Nat /\ Closed = 1 .. k - 1
      BY <1>4
    <3> HIDE DEF k
    <3>3. QED
      BY <3>1, <3>2
  <2>4. q \notin Members(h)
    BY <1>7, <2>2, <2>3
  <2>5. Separate(l, r, q)
    BY <1>2, <1>14, <2>2, <2>3, <2>4 DEF NeighboursInv, ClassesInv
  <2>6. QED
    BY <2>5 DEF Separate
<1>12. CASE ~ (b <= current_item)
  <2> DEFINE p == filtered[current_item]
             s == filtered[current_item + 1]
  <2>1. /\ current_item + 1 \in Records /\ current_item # NumRecords
        /\ a \in Records /\ a <= current_item /\ a <= current_item + 1
        /\ current_item + 1 <= b /\ current_item <= b
        /\ current_item <= current_item + 1
    <3>1. /\ current_item + 1 \in 1 .. NumRecords /\ current_item # NumRecords
          /\ a <= current_item + 1 /\ current_item + 1 <= b
          /\ current_item <= b /\ current_item <= current_item + 1
      <4>1. a \in Int
        BY <1>2, <1>14
      <4>2. QED
        BY <1>12, <1>14, <4>1
    <3>2. QED
      BY <1>2, <1>14, <3>1
  <2>2. /\ ~ Before(l, p, q) /\ ~ Before(l, s, q) /\ ~ Before(l, s, p)
        /\ ~ Before(l, r, p) /\ ~ Before(l, r, s)
        /\ p \in Records /\ s \in Records /\ q \in Records
    BY <1>2, <1>3, <1>9, <1>10, <2>1
  <2>3. ~ Matches(members, s) /\ Last(members) = p
    BY <1>4, <1>8, <2>1
  <2> HIDE DEF p, s, members
  <2>4. Torn(l, p, s)
    BY <1>1, <1>2, <1>8, <2>2, <2>3, UnmatchedTorn
  <2>5. QED
    BY <1>1, <1>2, <2>2, <2>4, TornSeparates
<1>13. QED
  BY <1>11, <1>12

\* So does the order of the records.
LEMMA BeforeSame ==
  ASSUME flow' = flow, clauseset' = clauseset, NEW c, NEW q, NEW r
  PROVE  Before(c, q, r)' <=> Before(c, q, r)
BY DEF Before, SortKey

\* The recordset in order in the state after a step.
LEMMA OrderAfter ==
  ASSUME flow' = flow, clauseset' = clauseset, l' = l,
         \A m, n \in Records : m < n => ~ Before(l, filtered'[n], filtered'[m]),
         pc' = "grow" => Last(Last(groupset').members) = filtered'[current_item']
  PROVE  OrderInv'
<1>1. Records' = Records
  BY DEF Records, NumRecords
<1>2. ASSUME NEW m \in Records, NEW n \in Records, m < n,
             NEW c, c = l', NEW q, q = filtered'[n], NEW r, r = filtered'[m]
      PROVE  ~ Before(c, q, r)'
  <2>1. ~ Before(c, q, r)
    BY <1>2
  <2>2. QED
    BY <2>1, BeforeSame
<1>3. QED
  BY <1>1, <1>2 DEF OrderInv

\* The order while a scan goes on.
LEMMA OrderKept ==
  ASSUME OrderInv, pc \in {"scan", "grow"},
         UNCHANGED <<flow, clauseset, filtered, l>>,
         pc' = "grow" => Last(Last(groupset').members) = filtered[current_item']
  PROVE  OrderInv'
BY OrderAfter DEF OrderInv

\* Steps in which the groups stay: the ones before and after a scan.
LEMMA NeighboursIdle ==
  ASSUME NeighboursInv, NothingToGroup \/ EndClause \/ UNCHANGED vars
  PROVE  OrderInv' /\ \A c \in DOMAIN clauseset : ClassesInv(c)'
<1>1. GrouperInv /\ OrderInv /\ GroupsInv /\ ScanInv
  BY DEF NeighboursInv, GrouperInv
<1>2. /\ UNCHANGED <<flow, clauseset, filtered, groupset, current_item>>
      /\ (pc # "grow" /\ pc' \notin {"scan", "grow"}) \/ UNCHANGED <<pc, l>>
  BY DEF NothingToGroup, EndClause, vars, inputs
<1>3. SameGroups
  BY <1>1, <1>2, SameUnchanged
<1>4. Closed' \subseteq Closed
  BY <1>2 DEF Closed
<1>5. OrderInv'
  <2>1. CASE pc' \notin {"scan", "grow"}
    BY <2>1 DEF OrderInv
  <2>2. CASE UNCHANGED <<pc, l>> /\ pc \in {"scan", "grow"}
    BY <1>1, <1>2, <2>2, OrderKept DEF OrderInv
  <2>3. QED
    BY <1>2, <2>1, <2>2
<1>6. ASSUME NEW c \in DOMAIN clauseset PROVE ClassesInv(c)'
  BY <1>2, <1>3, <1>4, ClassesKept DEF NeighboursInv
<1>7. QED
  BY <1>5, <1>6

\* What the sort leaves is in order.
LEMMA NeighboursSort ==
  ASSUME NeighboursInv, SortClause
  PROVE  OrderInv' /\ \A c \in DOMAIN clauseset : ClassesInv(c)'
<1>1. GrouperInv /\ OrderInv /\ GroupsInv /\ ScanInv
  BY DEF NeighboursInv, GrouperInv
<1>2. /\ UNCHANGED <<flow, clauseset, groupset, l>>
      /\ pc = "start" /\ pc' = "scan"
  BY DEF SortClause, inputs
<1>3. PICK order \in SortedOrders(l) : filtered' = Append(order, Null)
  BY DEF SortClause
<1>4. SameGroups
  BY <1>1, <1>2, SameUnchanged
<1>5. Closed' \subseteq Closed
  BY <1>2 DEF Closed
<1>6. ASSUME NEW c \in DOMAIN clauseset PROVE ClassesInv(c)'
  BY <1>2, <1>4, <1>5, ClassesKept DEF NeighboursInv
<1>7. /\ NumRecords \in Nat /\ Records = 1 .. NumRecords
      /\ order \in [Records -> Records]
  BY <1>1, Sizes DEF Records, SortedOrders, Bijection, Injection
<1>8. order \in Seq(Nat) /\ Len(order) = NumRecords
  <2>1. \A p \in 1 .. NumRecords : order[p] \in Nat
    BY <1>7
  <2>2. order = [p \in 1 .. NumRecords |-> order[p]]
    BY <1>7
  <2>3. order \in Seq(Nat)
    BY <1>7, <2>1, <2>2, IsASeq
  <2>4. Len(order) \in Nat /\ 1 .. Len(order) = 1 .. NumRecords
    BY <1>7, <2>3, LenProperties
  <2>5. QED
    BY <1>7, <2>3, <2>4
<1>9. \A p \in Records : filtered'[p] = order[p]
  BY <1>3, <1>7, <1>8, AppendFacts DEF Null
<1>10. \A m, n \in Records : m < n => ~ Before(l, filtered'[n], filtered'[m])
  BY <1>9 DEF SortedOrders
<1>11. OrderInv'
  BY <1>2, <1>10, OrderAfter
<1>12. QED
  BY <1>6, <1>11

\* Without clauses there is nothing to say.
LEMMA NeighboursClubAll ==
  ASSUME NeighboursInv, ClubAll
  PROVE  OrderInv' /\ \A c \in DOMAIN clauseset : ClassesInv(c)'
BY EmptySeq DEF ClubAll, OrderInv

\* A group starts with a record that goes together with itself.
LEMMA NeighboursOpen ==
  ASSUME NeighboursInv, OpenGroup
  PROVE  OrderInv' /\ \A c \in DOMAIN clauseset : ClassesInv(c)'
<1>1. GrouperInv /\ OrderInv /\ GroupsInv /\ ScanInv
  BY DEF NeighboursInv, GrouperInv
<1> DEFINE q == filtered[current_item]
           x == [clause   |-> l,
                 members  |-> <<q>>,
                 start_ts |-> flow[q].start,
                 end_ts   |-> flow[q].end,
                 aggrset  |-> <<>>,
                 record   |-> NoFields]
           k == Len(groupset) + 1
<1>2. /\ pc = "scan" /\ pc' = "grow"
      /\ groupset' = Append(groupset, x)
      /\ UNCHANGED <<flow, clauseset, filtered, l, current_item>>
  BY DEF OpenGroup, inputs
<1>3. x.members = <<q>>
  OBVIOUS
<1> HIDE DEF x, q
<1>4. /\ Len(groupset) \in Nat /\ DOMAIN groupset = 1 .. Len(groupset)
      /\ Len(groupset') = k /\ DOMAIN groupset' = 1 .. k
      /\ \A n \in 1 .. Len(groupset) : groupset'[n] = groupset[n]
      /\ groupset'[k] = x
  BY <1>1, <1>2, AppendOwn DEF GroupsInv
<1>5. Last(groupset').members = <<q>> /\ Last(<<q>>) = q
  BY <1>3, <1>4 DEF Last
<1>6. OrderInv'
  BY <1>1, <1>2, <1>5, OrderKept DEF q
<1>7. Closed' = 1 .. k - 1 /\ Closed = 1 .. Len(groupset) /\ k - 1 = Len(groupset)
      /\ k \notin 1 .. Len(groupset)
      /\ \A g \in 1 .. k : g # k => g \in 1 .. Len(groupset)
  BY <1>2, <1>4 DEF Closed
<1> HIDE DEF k
<1>8. ASSUME NEW c \in DOMAIN clauseset PROVE ClassesInv(c)'
  <2>1. ClassesInv(c) /\ flow' = flow /\ clauseset' = clauseset
    BY <1>2 DEF NeighboursInv
  <2>2. ASSUME NEW g \in GroupsOf(c)', g # k
        PROVE  /\ g \in GroupsOf(c) /\ groupset'[g].members = groupset[g].members
               /\ g \in Closed' => g \in Closed
    BY <1>4, <1>7, <2>2 DEF GroupsOf
  <2>3. Together(c, <<q>>)
    <3>1. /\ DOMAIN <<q>> = {1} /\ Len(<<q>>) = 1
          /\ \A n \in 2 .. 1 : FALSE
      OBVIOUS
    <3>2. QED
      BY <3>1 DEF Together
  <2>4. groupset'[k].members = <<q>> /\ k \notin Closed'
    BY <1>3, <1>4, <1>7
  <2>5. QED
    BY <2>1, <2>2, <2>3, <2>4, ClassesStep
<1>9. QED
  BY <1>6, <1>8

\* A group is extended by a record that goes together with its members.
LEMMA NeighboursAdd ==
  ASSUME NeighboursInv, AddMember
  PROVE  OrderInv' /\ \A c \in DOMAIN clauseset : ClassesInv(c)'
<1>1. GrouperInv /\ OrderInv /\ GroupsInv /\ ScanInv
  BY DEF NeighboursInv, GrouperInv
<1> DEFINE q == filtered[current_item + 1]
           k == Len(groupset)
           x == Extend(groupset[k], q)
           old == groupset[k].members
<1>2. /\ pc = "grow" /\ pc' = "grow" /\ current_item # NumRecords
      /\ Matches(Last(groupset).members, q)
      /\ current_item' = current_item + 1
      /\ groupset' = [groupset EXCEPT ![k] = x]
      /\ UNCHANGED <<flow, clauseset, filtered, l>>
  BY DEF AddMember, LastItem, inputs
<1>3. /\ l \in DOMAIN clauseset
      /\ NumRecords \in Nat /\ Records = 1 .. NumRecords
      /\ \A p \in Records : filtered[p] \in Records
      /\ \A m, n \in Records : m <= n => ~ Before(l, filtered[n], filtered[m])
  BY <1>1, <1>2, ScanPlace
<1>4. current_item \in Records /\ current_item + 1 \in Records
      /\ current_item <= current_item + 1
  <2>1. current_item \in 1 .. NumRecords + 1 /\ current_item # NumRecords + 1
    BY <1>1, <1>2 DEF ScanInv
  <2>2. QED
    BY <1>2, <1>3, <2>1
<1>5. /\ groupset \in Seq(Range(groupset)) /\ groupset # <<>>
      /\ groupset[k].clause = l /\ Last(groupset).members = old
  BY <1>1, <1>2 DEF GroupsInv, ScanInv, Last
<1>6. k \in DOMAIN groupset /\ DOMAIN groupset = 1 .. k /\ k \in Nat
  BY <1>5, LenProperties, EmptySeq
<1>7. DOMAIN groupset[k] = GroupFields /\ old \in Seq(Records) /\ old # <<>>
  BY <1>1, <1>6 DEF GroupsInv
<1>8. x.members = Append(old, q) /\ x.clause = l
  BY <1>5, <1>7, ExtendFacts
<1> HIDE DEF x
<1>9. /\ Len(groupset') = k
      /\ DOMAIN groupset' = DOMAIN groupset /\ groupset'[k] = x
      /\ \A g \in DOMAIN groupset : g # k => groupset'[g] = groupset[g]
  BY <1>2, <1>5, <1>6, ExceptOwn
<1>10. Closed' = Closed /\ k \notin Closed'
  BY <1>2, <1>6, <1>9 DEF Closed
<1>11. q \in Records /\ Last(old) = filtered[current_item]
       /\ ~ Before(l, q, Last(old))
  BY <1>1, <1>2, <1>3, <1>4, <1>5 DEF OrderInv
<1>12. OrderInv'
  <2> HIDE DEF old, q
  <2>1. Last(groupset').members = Append(old, q)
    BY <1>8, <1>9 DEF Last
  <2>2. Last(Append(old, q)) = q
    BY <1>7, <1>11, AppendFacts DEF Last
  <2>3. QED
    BY <1>1, <1>2, <2>1, <2>2, OrderKept DEF q
<1> HIDE DEF k, q, old
<1>13. k \in GroupsOf(l)
  BY <1>5, <1>6 DEF GroupsOf
<1>14. Together(l, Append(old, q))
  <2>1. Together(l, old)
    BY <1>3, <1>13 DEF NeighboursInv, ClassesInv, old
  <2>2. QED
    BY <1>1, <1>2, <1>3, <1>5, <1>7, <1>11, <2>1, MatchedTogether
<1>15. ASSUME NEW c \in DOMAIN clauseset PROVE ClassesInv(c)'
  <2>1. ClassesInv(c) /\ flow' = flow /\ clauseset' = clauseset
    BY <1>2 DEF NeighboursInv
  <2>2. ASSUME NEW g \in GroupsOf(c)', g # k
        PROVE  /\ g \in GroupsOf(c) /\ groupset'[g].members = groupset[g].members
               /\ g \in Closed' => g \in Closed
    BY <1>9, <1>10, <2>2 DEF GroupsOf
  <2>3. k \in GroupsOf(c)' => Together(c, groupset'[k].members)
    BY <1>8, <1>9, <1>14 DEF GroupsOf
  <2>4. QED
    BY <1>10, <2>1, <2>2, <2>3, ClassesStep
<1>16. QED
  BY <1>12, <1>15

\* A group ends in front of a record that does not belong to it.
LEMMA NeighboursSave ==
  ASSUME NeighboursInv, MismatchEndsGroup \/ LastItemEndsGroup
  PROVE  OrderInv' /\ \A c \in DOMAIN clauseset : ClassesInv(c)'
<1>1. GrouperInv /\ OrderInv /\ GroupsInv /\ ScanInv
  BY DEF NeighboursInv, GrouperInv
<1> DEFINE k == Len(groupset)
<1>2. /\ pc = "grow" /\ SaveGroup /\ pc' = "scan"
      /\ UNCHANGED <<flow, clauseset, filtered, l>>
      /\ current_item # NumRecords =>
           ~ Matches(Last(groupset).members, filtered[current_item + 1])
  BY DEF MismatchEndsGroup, LastItemEndsGroup, SaveGroup, LastItem, inputs
<1>3. SameGroups
  BY <1>1, <1>2, SameSaved
<1>4. OrderInv'
  BY <1>1, <1>2, OrderKept
<1>5. DOMAIN groupset = 1 .. k /\ k \in Nat /\ Closed = 1 .. k - 1
      /\ k \in DOMAIN groupset /\ groupset[k].clause = l
      /\ l \in DOMAIN clauseset
  <2>1. DOMAIN groupset = 1 .. k /\ k \in Nat /\ Closed = 1 .. k - 1
    BY <1>1, <1>2, ClosedIs
  <2>2. groupset # <<>> /\ groupset[k].clause = l
    BY <1>1, <1>2 DEF ScanInv, Last
  <2>3. k # 0
    BY <1>1, <2>2, EmptySeq, LenProperties DEF GroupsInv
  <2>4. l \in DOMAIN clauseset
    BY <1>1, <1>2, ScanPlace
  <2>5. QED
    BY <2>1, <2>2, <2>3, <2>4
<1>6. \A q \in Members(k), r \in Records \ Members(k) : Separate(l, q, r)
  BY <1>2, SavedSeparate
<1>7. \A g \in 1 .. k : g # k => g \in Closed
  <2> HIDE DEF k
  <2> QED
    BY <1>5
<1> HIDE DEF k
<1>8. ASSUME NEW c \in DOMAIN clauseset PROVE ClassesInv(c)'
  <2>1. ClassesInv(c) /\ flow' = flow /\ clauseset' = clauseset
    BY <1>2 DEF NeighboursInv
  <2>2. GroupsOf(c)' = GroupsOf(c)
    BY <1>3, MembersSame
  <2>3. \A g \in GroupsOf(c) : groupset'[g].members = groupset[g].members
                               /\ g \in 1 .. k
    BY <1>3, <1>5 DEF SameGroups, GroupsOf
  <2>4. k \in GroupsOf(c) => Together(c, groupset'[k].members)
    BY <2>1, <2>3 DEF ClassesInv
  <2>5. ASSUME k \in GroupsOf(c)
        PROVE  \A q \in Range(groupset'[k].members) :
                 \A r \in Records \ Range(groupset'[k].members) :
                   Separate(c, q, r)
    <3>1. c = l
      BY <1>5, <2>5 DEF GroupsOf
    <3>2. Range(groupset'[k].members) = Members(k)
      BY <2>3, <2>5 DEF Members
    <3>3. QED
      BY <1>6, <3>1, <3>2
  <2>6. QED
    BY <1>7, <2>1, <2>2, <2>3, <2>4, <2>5, ClassesStep
<1>9. QED
  BY <1>4, <1>8

\* The groups that the scan leaves are neighbours in the order of the sort, and
\* separate from the rest of the records.
THEOREM NeighboursCorrect == Spec => []NeighboursInv
<1>1. Init => NeighboursInv
  <2> SUFFICES ASSUME Init PROVE NeighboursInv
    OBVIOUS
  <2>1. OrderInv
    BY DEF Init, OrderInv
  <2>2. \A c : GroupsOf(c) = {}
    BY DEF Init, GroupsOf
  <2>3. \A c : ClassesInv(c)
    BY <2>2 DEF ClassesInv
  <2>4. QED
    BY <2>1, <2>3, InvInit DEF NeighboursInv
<1>2. NeighboursInv /\ [Next]_vars => NeighboursInv'
  <2> SUFFICES ASSUME NeighboursInv, [Next]_vars PROVE NeighboursInv'
    OBVIOUS
  <2>1. GrouperInv'
    BY InvNext DEF NeighboursInv
  <2>2. clauseset' = clauseset
    BY DEF Next, NothingToGroup, ClubAll, SortClause, OpenGroup, AddMember,
           MismatchEndsGroup, LastItemEndsGroup, SaveGroup, EndClause, vars, inputs
  <2>3. OrderInv' /\ \A c \in DOMAIN clauseset : ClassesInv(c)'
    BY NeighboursIdle, NeighboursSort, NeighboursClubAll, NeighboursOpen,
       NeighboursAdd, NeighboursSave DEF Next
  <2>4. QED
    BY <2>1, <2>2, <2>3 DEF NeighboursInv
<1>3. QED
  BY <1>1, <1>2, PTL DEF Spec

\* The groups of a clause whose scan has ended are closed, have records, and no
\* two of them have one in common.
LEMMA FinishedGroups ==
  ASSUME NeighboursInv, NEW c \in DOMAIN clauseset, Finished(c),
         NEW g \in GroupsOf(c)
  PROVE  /\ g \in Closed
         /\ groupset[g].members \in Seq(Records)
         /\ Members(g) \subseteq Records
         /\ \A h \in GroupsOf(c) : \A q \in Members(h) :
              g # h => q \in Records \ Members(g)
<1>1. GrouperInv /\ GroupsInv /\ ScanInv /\ GroupedOnce
  BY DEF NeighboursInv, GrouperInv
<1>2. /\ DOMAIN groupset = 1 .. Len(groupset) /\ Len(groupset) \in Nat
      /\ pc # "grow" => Closed = DOMAIN groupset
      /\ pc = "grow" => Closed = 1 .. Len(groupset) - 1
  BY <1>1, ClosedIs
<1>3. /\ l \in Nat /\ c \in Nat /\ 1 <= c /\ c <= l
  <2>1. clauseset \in Seq(Seq(Term))
    BY <1>1 DEF ScanInv
  <2>2. c \in 1 .. Len(clauseset) /\ Len(clauseset) \in Nat
    BY <2>1, LenProperties
  <2>3. l \in Nat
    BY <1>1, Sizes
  <2>4. QED
    BY <2>2, <2>3 DEF Finished
<1>4. g \in Closed
  <2>1. CASE pc # "grow"
    BY <1>2, <2>1 DEF GroupsOf
  <2>2. CASE pc = "grow"
    <3>1. c < l
      BY <2>2 DEF Finished
    <3>2. groupset[Len(groupset)].clause = l
      BY <1>1, <2>2 DEF ScanInv, Last
    <3>3. g # Len(groupset)
      BY <1>3, <3>1, <3>2 DEF GroupsOf
    <3>4. g \in 1 .. Len(groupset)
      BY <1>2 DEF GroupsOf
    <3>5. g \in 1 .. Len(groupset) - 1
      <4>1. Len(groupset) \in Nat
        BY <1>2
      <4>2. QED
        BY <3>3, <3>4, <4>1
    <3>6. QED
      BY <1>2, <2>2, <3>5
  <2>3. QED
    BY <2>1, <2>2
<1>5. \A h \in GroupsOf(c) : groupset[h].members \in Seq(Records)
  BY <1>1 DEF GroupsInv, GroupsOf
<1>6. \A h \in GroupsOf(c) : Members(h) \subseteq Records
  BY <1>5, RangeOfSeq DEF Members
<1>7. c \in 1 .. l
  BY <1>3
<1>8. ASSUME NEW h \in GroupsOf(c), NEW q \in Members(h), q \in Members(g)
      PROVE  g = h
  <2>1. PICK m \in DOMAIN groupset[g].members : groupset[g].members[m] = q
    BY <1>8 DEF Members, Range
  <2>2. PICK n \in DOMAIN groupset[h].members : groupset[h].members[n] = q
    BY <1>8 DEF Members, Range
  <2>3. TakenOnce(c)
    BY <1>1, <1>7 DEF GroupedOnce
  <2>4. QED
    BY <2>1, <2>2, <2>3 DEF TakenOnce
<1>9. QED
  BY <1>4, <1>5, <1>6, <1>8

\* When all terms of a clause ask for equality, its groups are the classes of the
\* records with equal keys, for any records, any number of terms and whatever
\* order the sort leaves ties in.
THEOREM ClassesCorrect == Spec => []GroupsAreClasses
<1>1. NeighboursInv => GroupsAreClasses
  <2> SUFFICES ASSUME NeighboursInv, NEW c \in DOMAIN clauseset, Finished(c),
                      AllKeys(clauseset[c]),
                      NEW g \in GroupsOf(c), NEW h \in GroupsOf(c),
                      NEW q \in Members(g), NEW r \in Members(h)
               PROVE  g = h <=> SortKey(c, q) = SortKey(c, r)
    BY DEF GroupsAreClasses, AllKeys
  <2>1. ClassesInv(c)
    BY DEF NeighboursInv
  <2>2. ASSUME g = h PROVE SortKey(c, q) = SortKey(c, r)
    <3>1. Together(c, groupset[g].members)
      BY <2>1 DEF ClassesInv
    <3>2. \A x \in Members(g) : SortKey(c, x) = SortKey(c, groupset[g].members[1])
      BY <3>1 DEF Together, Members, Range
    <3>3. QED
      BY <2>2, <3>2
  <2>3. ASSUME g # h PROVE SortKey(c, q) # SortKey(c, r)
    <3>1. g \in Closed /\ r \in Records \ Members(g)
      BY <2>3, FinishedGroups
    <3>2. Separate(c, q, r)
      BY <2>1, <3>1 DEF ClassesInv
    <3>3. QED
      BY <3>2 DEF Separate
  <2>4. QED
    BY <2>2, <2>3
<1>2. QED
  BY <1>1, NeighboursCorrect, PTL

\* With a delta relative to the record before, every group is a chain of records
\* within the delta, and no two records within it are torn apart but at the ends
\* of the range: for words of any width and any delta.
THEOREM NearCorrect == Spec => []NearStayTogether
<1>1. NeighboursInv => NearStayTogether
  <2> SUFFICES ASSUME NeighboursInv, NEW c \in DOMAIN clauseset, Finished(c),
                      IsRelative(clauseset[c])
               PROVE  /\ \A g, h \in GroupsOf(c) :
                           \A q \in Members(g), r \in Members(h) :
                             g # h => Apart(c, q, r)
                      /\ \A g \in GroupsOf(c) :
                           \A n \in 2 .. Len(groupset[g].members) :
                             Linked(c, groupset[g].members[n - 1],
                                       groupset[g].members[n])
    BY DEF NearStayTogether, Apart, Linked
  <2>1. ClassesInv(c)
    BY DEF NeighboursInv
  <2>2. ASSUME NEW g \in GroupsOf(c), NEW h \in GroupsOf(c),
               NEW q \in Members(g), NEW r \in Members(h), g # h
        PROVE  Apart(c, q, r)
    <3>1. g \in Closed /\ r \in Records \ Members(g)
      BY <2>2, FinishedGroups
    <3>2. Separate(c, q, r)
      BY <2>1, <3>1 DEF ClassesInv
    <3>3. QED
      BY <3>2 DEF Separate
  <2>3. ASSUME NEW g \in GroupsOf(c), NEW n \in 2 .. Len(groupset[g].members)
        PROVE  Linked(c, groupset[g].members[n - 1], groupset[g].members[n])
    BY <2>1 DEF ClassesInv, Together
  <2>4. QED
    BY <2>2, <2>3
<1>2. QED
  BY <1>1, NeighboursCorrect, PTL

-----------------------------------------------------------------------------
(* The aggregates of the members are those of their values in order.       *)

\* The members of a group are different records.
AreMembers(m) ==
  /\ m \in Seq(Records)
  /\ m # <<>>
  /\ \A i, j \in 1 .. Len(m) : m[i] = m[j] => i = j

\* The values of a field in the members of a group.
LEMMA ValuesAre ==
  ASSUME ScanInv, NEW m, AreMembers(m), NEW f \in Fields
  PROVE  LET n == Len(m)
             V == FieldValues(f, m)
         IN /\ n \in Nat \ {0} /\ n <= NumRecords
            /\ DOMAIN m = 1 .. n
            /\ Range(m) = {m[i] : i \in 1 .. n} /\ Range(m) \subseteq Records
            /\ IsFiniteSet(Range(m)) /\ Cardinality(Range(m)) = n
            /\ V \in Seq(Words) /\ V # <<>> /\ Len(V) = n
            /\ \A i \in 1 .. n : m[i] \in Records /\ V[i] = flow[m[i]].fields[f]
            /\ \A q \in Records : flow[q].fields[f] \in Words
<1> DEFINE n == Len(m)
           V == FieldValues(f, m)
           M == Range(m)
<1>1. /\ n \in Nat \ {0} /\ DOMAIN m = 1 .. n
      /\ \A i \in 1 .. n : m[i] \in Records
  BY LenProperties, ElementOfSeq, EmptySeq DEF AreMembers
<1>2. M = {m[i] : i \in 1 .. n} /\ M \subseteq Records
  BY <1>1 DEF Range
<1>3. IsFiniteSet(M) /\ Cardinality(M) = n
  <2> DEFINE S == Records
  <2>1. m \in Seq(S) /\ \A i, j \in 1 .. Len(m) : m[i] = m[j] => i = j
    BY DEF AreMembers
  <2> HIDE DEF S
  <2>2. QED
    BY <2>1, RangeSize
<1>4. NumRecords \in Nat /\ \A q \in Records : flow[q] \in Flows
  BY LenProperties, ElementOfSeq DEF ScanInv, NumRecords, Records
<1>5. n <= NumRecords
  <2>1. IsFiniteSet(Records) /\ Cardinality(Records) = NumRecords
    BY <1>4, FS_Interval DEF Records
  <2> HIDE DEF n, M
  <2>2. Cardinality(M) <= Cardinality(Records)
    BY <1>2, <2>1, FS_Subset
  <2>3. QED
    BY <1>3, <2>1, <2>2
<1>6. \A q \in Records : flow[q].fields[f] \in Words
  BY <1>4, GrouperAssumption
<1>7. V = [i \in 1 .. n |-> flow[m[i]].fields[f]]
  BY <1>1 DEF FieldValues
<1> HIDE DEF V
<1>8. V \in [1 .. n -> Words]
  BY <1>1, <1>6, <1>7
<1>9. V \in Seq(Words) /\ Len(V) = n
  BY <1>1, <1>7, <1>8, SeqDef, LenProperties
<1>10. V # <<>>
  BY <1>1, <1>9, EmptySeq
<1>11. \A i \in 1 .. n : V[i] = flow[m[i]].fields[f]
  BY <1>7
<1>12. QED
  BY <1>1, <1>2, <1>3, <1>5, <1>6, <1>9, <1>10, <1>11 DEF V

\* The sum over the members, of any size, is that of their words wrapped around.
LEMMA TotalIs ==
  ASSUME ScanInv, NEW m, AreMembers(m), NEW f \in Fields
  PROVE  \E j \in Nat :
           Total(Range(m), f) = Sum(FieldValues(f, m)) + WordRange * j
<1> DEFINE M == Range(m)
           V == FieldValues(f, m)
           val == [q \in Records |-> flow[q].fields[f]]
           Is(g) == g = [s \in SUBSET M |->
                           IF s = {} THEN 0
                           ELSE flow[CHOOSE x \in s : TRUE].fields[f]
                                  + g[s \ {CHOOSE x \in s : TRUE}]]
<1>1. /\ IsFiniteSet(M) /\ M \subseteq Records
      /\ V \in Seq(Words) /\ Len(V) = Len(m)
      /\ \A i \in 1 .. Len(m) : m[i] \in Records /\ V[i] = flow[m[i]].fields[f]
      /\ \A q \in Records : flow[q].fields[f] \in Words
  BY ValuesAre
<1>2. \A q \in M : val[q] = flow[q].fields[f] /\ val[q] \in Nat
  BY <1>1, Ranges DEF Words
<1>3. ASSUME NEW g PROVE Is(g) <=> Totals(g, M, val)
  <2>1. \A s \in SUBSET M : s # {} =>
          flow[CHOOSE x \in s : TRUE].fields[f] = val[CHOOSE x \in s : TRUE]
    <3>1. TAKE s \in SUBSET M
    <3>2. s # {} => (CHOOSE x \in s : TRUE) \in M
      OBVIOUS
    <3> HIDE DEF val, M
    <3>3. QED
      BY <1>2, <3>2
  <2> HIDE DEF val, M
  <2>2. QED
    BY <2>1 DEF Totals
<1> DEFINE iter == CHOOSE g : Is(g)
<1>4. Is(iter)
  <2> HIDE DEF val, M, Is
  <2>1. \E g : Totals(g, M, val)
    BY <1>1, <1>2, TotalsExist
  <2>2. \E g : Is(g)
    BY <1>3, <2>1
  <2>3. QED
    BY <2>2
<1>5. Total(M, f) = iter[M]
  BY DEF Total, MapThenSumSet, MapThenFoldSet
<1>6. Totals(iter, M, val)
  <2> HIDE DEF val, M, Is, iter
  <2>1. QED
    BY <1>3, <1>4
<1>7. \A i \in 1 .. Len(m) : V[i] = val[m[i]]
  BY <1>1
<1> DEFINE S == Records
<1>8. m \in Seq(S) /\ \A i, j \in 1 .. Len(m) : m[i] = m[j] => i = j
  BY DEF AreMembers
<1>9. V \in Seq(Words) /\ Len(V) = Len(m) /\ Totals(iter, Range(m), val)
  BY <1>1, <1>6
<1> HIDE DEF iter, val, V, S, Is
<1>10. \E j \in Nat : iter[Range(m)] = Sum(V) + WordRange * j
  BY <1>7, <1>8, <1>9, SumOfMembers
<1>11. QED
  BY <1>5, <1>10 DEF V

\* The branches of IsAggregate.
LEMMA IsAggregateWhen ==
  ASSUME NEW op, NEW r, NEW M, NEW f,
         NEW value, \A q \in M : value[q] = flow[q].fields[f]
  PROVE  LET n == Cardinality(M)
             v == r[1]
             with(k) == {q \in M : k \in Bits[value[q]]}
             small == \A q \in M : value[q] < HalfRange
         IN /\ op = "count" /\ v = n => IsAggregate(op, r, M, f)
            /\ op = "sum" /\ (v - Total(M, f)) % WordRange = 0 => IsAggregate(op, r, M, f)
            /\ op = "mean" /\ (Total(M, f) < WordRange =>
                                v * n <= Total(M, f) /\ Total(M, f) < (v + 1) * n)
                 => IsAggregate(op, r, M, f)
            /\ op = "or"
                 /\ Bits[v] = {k \in 0 .. WordBits - 1 : Cardinality(with(k)) > 0}
                 => IsAggregate(op, r, M, f)
            /\ op = "xor"
                 /\ Bits[v] = {k \in 0 .. WordBits - 1 : Cardinality(with(k)) % 2 = 1}
                 => IsAggregate(op, r, M, f)
            /\ op = "median"
                 /\ (small => /\ \E q \in M : value[q] = v
                              /\ 2 * Cardinality({q \in M : value[q] < v}) <= n
                              /\ 2 * Cardinality({q \in M : value[q] > v}) < n)
                 => IsAggregate(op, r, M, f)
            /\ op = "union" /\ Range(r) = {value[q] : q \in M}
                 /\ (small => Len(r) = Cardinality(Range(r)))
                 => IsAggregate(op, r, M, f)
            /\ op \in {"min", "max"} /\ (\E q \in M : v = value[q])
                 => IsAggregate(op, r, M, f)
            /\ op \in {"prod", "and"} /\ v = 0 => IsAggregate(op, r, M, f)
            /\ op \in {"static", "stddev"} => IsAggregate(op, r, M, f)
<1> DEFINE n == Cardinality(M)
           v == r[1]
           with(k) == {q \in M : k \in Bits[value[q]]}
           small == \A q \in M : value[q] < HalfRange
<1>1. \A k : {q \in M : k \in Bits[flow[q].fields[f]]} = with(k)
  OBVIOUS
<1>2. (\A q \in M : flow[q].fields[f] < HalfRange) <=> small
  OBVIOUS
<1>3. /\ {q \in M : flow[q].fields[f] < v} = {q \in M : value[q] < v}
      /\ {q \in M : flow[q].fields[f] > v} = {q \in M : value[q] > v}
      /\ {flow[q].fields[f] : q \in M} = {value[q] : q \in M}
  OBVIOUS
<1>4. op = "count" /\ v = n => IsAggregate(op, r, M, f)
  BY DEF IsAggregate
<1>5. op = "sum" /\ (v - Total(M, f)) % WordRange = 0 => IsAggregate(op, r, M, f)
  BY DEF IsAggregate
<1>6. op = "mean" /\ (Total(M, f) < WordRange =>
                        v * n <= Total(M, f) /\ Total(M, f) < (v + 1) * n)
        => IsAggregate(op, r, M, f)
  BY DEF IsAggregate
<1>7. op = "or" /\ Bits[v] = {k \in 0 .. WordBits - 1 : Cardinality(with(k)) > 0}
        => IsAggregate(op, r, M, f)
  <2> HIDE DEF with
  <2>1. QED
    BY <1>1 DEF IsAggregate
<1>8. op = "xor" /\ Bits[v] = {k \in 0 .. WordBits - 1 : Cardinality(with(k)) % 2 = 1}
        => IsAggregate(op, r, M, f)
  <2> HIDE DEF with
  <2>1. QED
    BY <1>1 DEF IsAggregate
<1>9. op = "median"
        /\ (small => /\ \E q \in M : value[q] = v
                     /\ 2 * Cardinality({q \in M : value[q] < v}) <= n
                     /\ 2 * Cardinality({q \in M : value[q] > v}) < n)
        => IsAggregate(op, r, M, f)
  BY <1>2, <1>3 DEF IsAggregate
<1>10. op = "union" /\ Range(r) = {value[q] : q \in M}
         /\ (small => Len(r) = Cardinality(Range(r)))
         => IsAggregate(op, r, M, f)
  BY <1>2, <1>3 DEF IsAggregate
<1>11. op \in {"min", "max"} /\ (\E q \in M : v = value[q]) => IsAggregate(op, r, M, f)
  BY DEF IsAggregate
<1>12. op \in {"prod", "and"} /\ v = 0 => IsAggregate(op, r, M, f)
  BY DEF IsAggregate
<1>13. op \in {"static", "stddev"} => IsAggregate(op, r, M, f)
  BY DEF IsAggregate
<1>14. QED
  BY <1>4, <1>5, <1>6, <1>7, <1>8, <1>9, <1>10, <1>11, <1>12, <1>13, Zenon

\* A subset of the members has as many elements as places.
LEMMA MembersSize ==
  ASSUME NEW m, AreMembers(m), NEW I \in SUBSET (1 .. Len(m))
  PROVE  Cardinality({m[i] : i \in I}) = Cardinality(I)
<1> DEFINE S == Records
           D == 1 .. Len(m)
<1>1. m \in Seq(S) /\ \A i, j \in 1 .. Len(m) : m[i] = m[j] => i = j
  BY DEF AreMembers
<1> HIDE DEF S
<1>2. QED
  BY <1>1, PlacesSize

\* What an aggregation function returns for the members of a group.
LEMMA ExactAggregate ==
  ASSUME ScanInv, NEW m, AreMembers(m), NEW f \in Fields,
         NEW op \in AggrOps, NEW common \in BOOLEAN,
         NEW order \in SortOrders(FieldValues(f, m))
  PROVE  IsAggregate(op, Aggregate(op, common, FieldValues(f, m), order), Range(m), f)
<1> DEFINE n == Len(m)
           M == Range(m)
           V == FieldValues(f, m)
           r == Aggregate(op, common, V, order)
           s == Sorted(V, order)
           value == [q \in Records |-> flow[q].fields[f]]
           total == Total(M, f)
           small == \A q \in M : value[q] < HalfRange
<1>1. /\ n \in Nat \ {0}
      /\ M = {m[i] : i \in 1 .. n} /\ M \subseteq Records
      /\ Cardinality(M) = n
      /\ V \in Seq(Words) /\ V # <<>> /\ Len(V) = n
      /\ \A i \in 1 .. n : m[i] \in Records /\ V[i] = flow[m[i]].fields[f]
  BY ValuesAre
<1>2. \A q \in M : value[q] = flow[q].fields[f]
  BY <1>1
<1>3. \A i \in 1 .. n : m[i] \in M /\ V[i] = value[m[i]] /\ V[i] \in Words
  BY <1>1, ElementOfSeq
<1>4. order \in SortOrders(V)
  OBVIOUS
<1>5. 1 \in 1 .. n
  <2>1. n \in Nat \ {0}
    BY <1>1
  <2> HIDE DEF n
  <2>2. QED
    BY <2>1
<1>6. small => \A i \in 1 .. n : V[i] < HalfRange
  BY <1>3
<1> HIDE DEF n, M, V, r, s, value, total
<1>7. CASE op = "count"
  <2>1. r = <<n>>
    BY <1>1, <1>7, AggregateIs DEF r
  <2>2. IsAggregate(op, r, M, f)
    BY <1>1, <1>2, <1>7, <2>1, IsAggregateWhen
  <2>3. QED
    BY <2>2 DEF r, V, M
<1>8. CASE op \in {"sum", "mean"}
  <2>1. PICK j \in Nat : total = Sum(V) + WordRange * j
    BY TotalIs DEF total, V, M
  <2> DEFINE a == Sum(V)
  <2>2. a \in Words /\ WordRange \in Nat \ {0} /\ a \in Nat /\ a < WordRange
    BY <1>1, SumIsWord, Ranges DEF Words
  <2> HIDE DEF a
  <2>3. CASE op = "sum"
    <3>1. r = <<a>>
      BY <2>3, AggregateIs DEF r, a
    <3>2. (a - total) % WordRange = 0
      <4> DEFINE W == WordRange
      <4>1. a - total = W * (-j)
        <5> HIDE DEF W
        <5>1. total = a + W * j /\ W \in Nat
          BY <2>1, <2>2 DEF W, a
        <5>2. QED
          BY <2>2, <5>1
      <4>2. W \in Nat \ {0} /\ -j \in Int
        BY <2>2
      <4> HIDE DEF W
      <4>3. (W * (-j)) % W = 0
        BY <4>2, MultipleRemainder
      <4>4. QED
        BY <4>1, <4>3 DEF W
    <3>3. IsAggregate(op, r, M, f)
      BY <1>2, <2>3, <3>1, <3>2, IsAggregateWhen DEF total
    <3>4. QED
      BY <3>3 DEF r, V, M
  <2>4. CASE op = "mean"
    <3> DEFINE q == a \div n
    <3>1. r = <<q>>
      BY <1>1, <2>4, AggregateIs DEF r, a, Mean
    <3>2. q \in Int /\ q * n <= a /\ a < (q + 1) * n
      <4>1. /\ q \in Int /\ a % n \in 0 .. n - 1
            /\ a = n * q + (a % n)
        <5>1. a \in Int /\ n \in Nat \ {0}
          BY <1>1, <2>2
        <5> HIDE DEF q
        <5>2. QED
          BY <5>1, QuotientRemainder, Zenon DEF q
      <4> DEFINE b == a % n
      <4>2. b \in 0 .. n - 1 /\ a = n * q + b
        BY <4>1
      <4> HIDE DEF q, b
      <4>3. n * q = q * n /\ (q + 1) * n = q * n + n
        BY <1>1, <4>1
      <4> DEFINE c == q * n
      <4>4. c \in Int /\ a = c + b /\ (q + 1) * n = c + n
        BY <1>1, <4>1, <4>2, <4>3
      <4> HIDE DEF c
      <4>5. c <= a /\ a < c + n
        BY <1>1, <4>2, <4>4
      <4>6. QED
        BY <4>1, <4>4, <4>5 DEF c
    <3>3. total < WordRange => total = a
      <4> DEFINE W == WordRange
                 w == W * j
      <4>1. w \in Nat /\ (j # 0 => w >= W) /\ (j = 0 => w = 0)
        <5> HIDE DEF W
        <5>1. W \in Nat
          BY <2>2 DEF W
        <5>2. QED
          BY <5>1
      <4>2. total = a + w
        BY <2>1 DEF a
      <4> HIDE DEF w, W
      <4>3. QED
        BY <2>2, <4>1, <4>2 DEF W
    <3> HIDE DEF q
    <3>4. total < WordRange =>
            q * Cardinality(M) <= total /\ total < (q + 1) * Cardinality(M)
      BY <1>1, <3>2, <3>3
    <3>5. r[1] = q
      BY <3>1
    <3>6. IsAggregate(op, r, M, f)
      BY <1>2, <2>4, <3>4, <3>5, IsAggregateWhen DEF total
    <3>7. QED
      BY <3>6 DEF r, V, M
  <2>5. QED
    BY <1>8, <2>3, <2>4
<1>9. CASE op \in {"or", "xor"}
  <2> DEFINE v == Bitwise(op, V)
             with(k) == {q \in M : k \in Bits[value[q]]}
  <2>1. r = <<v>> /\ r[1] = v
    BY <1>9, AggregateIs DEF r
  <2>2. ASSUME NEW k
        PROVE  /\ Cardinality(with(k)) = Cardinality(With(V, n, k))
               /\ Cardinality(with(k)) \in Nat
               /\ Cardinality(with(k)) > 0 <=> With(V, n, k) # {}
    <3> DEFINE I == With(V, n, k)
    <3>1. I \in SUBSET (1 .. Len(m))
      BY DEF With, n
    <3>2. with(k) = {m[i] : i \in I}
      BY <1>1, <1>3 DEF With
    <3> HIDE DEF I, with
    <3>3. Cardinality({m[i] : i \in I}) = Cardinality(I)
      BY <3>1, MembersSize
    <3>4. IsFiniteSet(I) /\ Cardinality(I) \in Nat
      BY <1>1, WithFacts DEF I
    <3>5. Cardinality(I) > 0 <=> I # {}
      BY <3>4, FS_EmptySet
    <3>6. QED
      BY <3>2, <3>3, <3>4, <3>5 DEF I
  <2>3. /\ op = "or" => Bits[v] = {k \in 0 .. WordBits - 1 : With(V, n, k) # {}}
        /\ op = "xor" => Bits[v] =
             {k \in 0 .. WordBits - 1 : Cardinality(With(V, n, k)) % 2 = 1}
    BY <1>1, <1>9, BitwiseIs
  <2> HIDE DEF v, with
  <2>4. CASE op = "or"
    <3>1. Bits[r[1]] = {k \in 0 .. WordBits - 1 : Cardinality(with(k)) > 0}
      BY <2>1, <2>2, <2>3, <2>4
    <3>2. IsAggregate(op, r, M, f)
      BY <1>2, <2>4, <3>1, IsAggregateWhen DEF with
    <3>3. QED
      BY <3>2 DEF r, V, M
  <2>5. CASE op = "xor"
    <3>1. Bits[r[1]] = {k \in 0 .. WordBits - 1 : Cardinality(with(k)) % 2 = 1}
      BY <2>1, <2>2, <2>3, <2>5
    <3>2. IsAggregate(op, r, M, f)
      BY <1>2, <2>5, <3>1, IsAggregateWhen DEF with
    <3>3. QED
      BY <3>2 DEF r, V, M
  <2>6. QED
    BY <1>9, <2>4, <2>5
<1>10. CASE op = "median"
  <2> DEFINE mid == n \div 2 + 1
             v == V[order[mid]]
             Low == {i \in 1 .. n : V[i] < v}
             High == {i \in 1 .. n : V[i] > v}
  <2>1. mid \in 1 .. n /\ order[mid] \in 1 .. n
    <3>1. mid \in 1 .. n
      BY <1>1
    <3> HIDE DEF mid
    <3>2. QED
      BY <1>1, <1>4, <3>1, OrderIs
  <2>2. r = <<v>> /\ r[1] = v
    <3>1. r = <<s[mid]>>
      BY <1>1, <1>10, AggregateIs DEF r, s
    <3>2. DOMAIN V = 1 .. n
      BY <1>1, LenProperties
    <3>3. s[mid] = v
      BY <2>1, <3>2 DEF s, Sorted
    <3>4. QED
      BY <3>1, <3>3
  <2>3. \E q \in M : value[q] = v
    <3> HIDE DEF mid
    <3>1. QED
      BY <1>3, <2>1
  <2>4. small => 2 * Cardinality(Low) <= n /\ 2 * Cardinality(High) < n
    <3>1. SUFFICES ASSUME small PROVE 2 * Cardinality(Low) <= n /\ 2 * Cardinality(High) < n
      OBVIOUS
    <3>2. \A i \in 1 .. Len(V) : V[i] < HalfRange
      BY <1>1, <1>6, <3>1
    <3> HIDE DEF small
    <3>3. LET k == Len(V)
              x == V[order[k \div 2 + 1]]
          IN /\ 2 * Cardinality({i \in 1 .. k : V[i] < x}) <= k
             /\ 2 * Cardinality({i \in 1 .. k : V[i] > x}) < k
      BY <1>1, <1>4, <3>2, MedianIs
    <3>4. QED
      BY <1>1, <3>3
  <2>5. /\ {q \in M : value[q] < v} = {m[i] : i \in Low}
        /\ {q \in M : value[q] > v} = {m[i] : i \in High}
    <3> HIDE DEF v
    <3>1. QED
      BY <1>1, <1>3
  <2>6. /\ Cardinality({m[i] : i \in Low}) = Cardinality(Low)
        /\ Cardinality({m[i] : i \in High}) = Cardinality(High)
    <3>1. Low \in SUBSET (1 .. Len(m)) /\ High \in SUBSET (1 .. Len(m))
      BY DEF n
    <3> HIDE DEF Low, High
    <3>2. QED
      BY <3>1, MembersSize
  <2> HIDE DEF v, mid, Low, High
  <2>7. /\ small => 2 * Cardinality({q \in M : value[q] < v}) <= Cardinality(M)
        /\ small => 2 * Cardinality({q \in M : value[q] > v}) < Cardinality(M)
    <3> HIDE DEF small
    <3>1. QED
      BY <1>1, <2>4, <2>5, <2>6
  <2>8. IsAggregate(op, r, M, f)
    BY <1>2, <1>10, <2>2, <2>3, <2>7, IsAggregateWhen
  <2>9. QED
    BY <2>8 DEF r, V, M
<1>11. CASE op = "union"
  <2>1. r = DropRepeats(s)
    BY <1>11, AggregateIs DEF r, s
  <2>2. /\ s \in Seq(Words) /\ Len(s) = n /\ Range(s) = Range(V)
        /\ small => \A i, j \in 1 .. n : i < j => s[i] <= s[j]
    <3> HIDE DEF small
    <3>1. QED
      BY <1>1, <1>4, <1>6, SortedIs DEF s
  <2>3. Range(r) = Range(V) /\ (small => Len(r) = Cardinality(Range(r)))
    <3> HIDE DEF small
    <3>1. QED
      BY <2>1, <2>2, DropIs
  <2>4. Range(V) = {value[q] : q \in M}
    <3>1. DOMAIN V = 1 .. n
      BY <1>1, LenProperties
    <3> DEFINE D == 1 .. n
    <3>2. /\ DOMAIN V = D /\ M = {m[i] : i \in D}
          /\ \A i \in D : m[i] \in M /\ V[i] = value[m[i]]
      BY <1>1, <1>3, <3>1
    <3> HIDE DEF D
    <3>3. ASSUME NEW x \in Range(V) PROVE x \in {value[q] : q \in M}
      <4>1. PICK i \in D : x = V[i]
        BY <3>2 DEF Range
      <4>2. QED
        BY <3>2, <4>1
    <3>4. ASSUME NEW x \in {value[q] : q \in M} PROVE x \in Range(V)
      <4>1. PICK i \in D : x = value[m[i]]
        BY <3>2
      <4>2. QED
        BY <3>2, <4>1 DEF Range
    <3>5. QED
      BY <3>3, <3>4
  <2>5. IsAggregate(op, r, M, f)
    BY <1>2, <1>11, <2>3, <2>4, IsAggregateWhen
  <2>6. QED
    BY <2>5 DEF r, V, M
<1>12. CASE op \in {"min", "max"}
  <2>1. r = <<V[1]>> /\ r[1] = V[1]
    BY <1>12, AggregateIs DEF r
  <2>2. \E q \in M : r[1] = value[q]
    BY <1>3, <1>5, <2>1
  <2>3. IsAggregate(op, r, M, f)
    BY <1>2, <1>12, <2>2, IsAggregateWhen
  <2>4. QED
    BY <2>3 DEF r, V, M
<1>13. CASE op \in {"prod", "and"}
  <2>1. r[1] = 0
    <3>1. CASE op = "prod"
      BY <1>1, <3>1, AggregateIs, ProductIsZero DEF r
    <3>2. CASE op = "and"
      BY <1>1, <3>2, AggregateIs, BitwiseIs DEF r
    <3>3. QED
      BY <1>13, <3>1, <3>2
  <2>2. IsAggregate(op, r, M, f)
    BY <1>2, <1>13, <2>1, IsAggregateWhen
  <2>3. QED
    BY <2>2 DEF r, V, M
<1>14. CASE op \in {"static", "stddev"}
  <2>1. IsAggregate(op, r, M, f)
    BY <1>2, <1>14, IsAggregateWhen
  <2>2. QED
    BY <2>1 DEF r, V, M
<1>15. QED
  BY <1>7, <1>8, <1>9, <1>10, <1>11, <1>12, <1>13, <1>14 DEF AggrOps

-----------------------------------------------------------------------------
(* Closed groups are evaluated, and stay so.                               *)

\* The aggregates depend on the records and the query only.
LEMMA AggregationsSame ==
  ASSUME UNCHANGED inputs, NEW m, NEW order, NEW a
  PROVE  /\ ValueOrders(m)' = ValueOrders(m)
         /\ Aggregations(m, order)' = Aggregations(m, order)
         /\ Record(m, a)' = Record(m, a)
<1>1. flow' = flow /\ clauseset' = clauseset
  BY DEF inputs
<1>2. CommonFields' = CommonFields
  BY <1>1 DEF CommonFields
<1>3. \A f : FieldValues(f, m)' = FieldValues(f, m)
  BY <1>1 DEF FieldValues
<1>4. Common(m)' = Common(m)
  BY <1>1, <1>2 DEF Common
<1>5. ValueOrders(m)' = ValueOrders(m)
  BY <1>3 DEF ValueOrders
<1>6. Aggregations(m, order)' = Aggregations(m, order)
  BY <1>2, <1>3 DEF Aggregations
<1>7. Record(m, a)' = Record(m, a)
  BY <1>2, <1>4 DEF Record
<1>8. QED
  BY <1>5, <1>6, <1>7

\* What the end of a group makes of it.
LEMMA CompletedEvaluated ==
  ASSUME NEW group, DOMAIN group = GroupFields, NEW order
  PROVE  LET x == Completed(group, order)
         IN /\ x.aggrset = Aggregations(group.members, order)
            /\ x.record = Record(group.members, x.aggrset)
BY DEF Completed, GroupFields

\* A group has been evaluated with some order of the values of its members.
IsEvaluated(group) ==
  \E order \in ValueOrders(group.members) :
    /\ group.aggrset = Aggregations(group.members, order)
    /\ group.record = Record(group.members, group.aggrset)

\* An evaluated group stays evaluated in the state after a step.
LEMMA EvaluatedSame ==
  ASSUME UNCHANGED inputs, NEW group, IsEvaluated(group)
  PROVE  IsEvaluated(group)'
<1>1. PICK order \in ValueOrders(group.members) :
        /\ group.aggrset = Aggregations(group.members, order)
        /\ group.record = Record(group.members, group.aggrset)
  BY DEF IsEvaluated
<1> DEFINE m == group.members
           a == group.aggrset
<1>2. /\ ValueOrders(m)' = ValueOrders(m)
      /\ Aggregations(m, order)' = Aggregations(m, order)
      /\ Record(m, a)' = Record(m, a)
  BY AggregationsSame
<1>3. QED
  BY <1>1, <1>2 DEF IsEvaluated

\* A group stays as it was, is open, or has been evaluated in this step.
LEMMA EvaluatedStep ==
  ASSUME EvaluatedInv, GrouperInv', UNCHANGED inputs,
         \A g \in DOMAIN groupset' :
           \/ /\ g \in DOMAIN groupset
              /\ groupset'[g] = groupset[g]
              /\ g \in Closed' <=> g \in Closed
           \/ /\ g \notin Closed'
              /\ groupset'[g].aggrset = <<>>
              /\ groupset'[g].record = NoFields
           \/ \E order \in ValueOrders(groupset'[g].members) :
                /\ g \in Closed'
                /\ groupset'[g].aggrset = Aggregations(groupset'[g].members, order)
                /\ groupset'[g].record = Record(groupset'[g].members,
                                                groupset'[g].aggrset)
  PROVE  EvaluatedInv'
<1>1. ASSUME NEW g \in DOMAIN groupset'
      PROVE  IF g \in Closed' THEN Evaluated(g)'
             ELSE groupset'[g].aggrset = <<>> /\ groupset'[g].record = NoFields
  <2>1. CASE /\ g \in DOMAIN groupset
             /\ groupset'[g] = groupset[g]
             /\ g \in Closed' <=> g \in Closed
    <3>1. IF g \in Closed THEN Evaluated(g)
          ELSE groupset[g].aggrset = <<>> /\ groupset[g].record = NoFields
      BY <2>1 DEF EvaluatedInv
    <3>2. CASE g \in Closed
      <4>1. IsEvaluated(groupset[g])
        BY <3>1, <3>2 DEF Evaluated, IsEvaluated
      <4>2. ASSUME NEW y, y = groupset[g], y = groupset'[g]
            PROVE  Evaluated(g)'
        <5>1. IsEvaluated(y)
          BY <4>1, <4>2
        <5>2. IsEvaluated(y)'
          BY <5>1, EvaluatedSame
        <5>3. QED
          BY <4>2, <5>2 DEF Evaluated, IsEvaluated
      <4>3. QED
        BY <2>1, <3>2, <4>2
    <3>3. CASE g \notin Closed
      BY <2>1, <3>1, <3>3
    <3>4. QED
      BY <3>2, <3>3
  <2>2. CASE /\ g \notin Closed'
             /\ groupset'[g].aggrset = <<>>
             /\ groupset'[g].record = NoFields
    BY <2>2
  <2>3. CASE \E order \in ValueOrders(groupset'[g].members) :
               /\ g \in Closed'
               /\ groupset'[g].aggrset = Aggregations(groupset'[g].members, order)
               /\ groupset'[g].record = Record(groupset'[g].members,
                                               groupset'[g].aggrset)
    <3>1. ASSUME NEW y, y = groupset'[g] PROVE Evaluated(g)'
      <4>1. IsEvaluated(y)
        BY <2>3, <3>1 DEF IsEvaluated
      <4>2. IsEvaluated(y)'
        BY <4>1, EvaluatedSame
      <4>3. QED
        BY <3>1, <4>2 DEF Evaluated, IsEvaluated
    <3>2. QED
      BY <2>3, <3>1
  <2>4. QED
    BY <2>1, <2>2, <2>3
<1>2. NumRecords' <= MaxRecords
  BY DEF EvaluatedInv, NumRecords, inputs
<1>3. QED
  BY <1>1, <1>2 DEF EvaluatedInv

\* At the start there is no group.
LEMMA EvaluatedInit == Init => EvaluatedInv
<1> SUFFICES ASSUME Init PROVE EvaluatedInv
  OBVIOUS
<1>1. GrouperInv
  BY InvInit
<1>2. DOMAIN groupset = {}
  BY DEF Init
<1>3. NumRecords <= MaxRecords
  <2>1. PICK n \in 0 .. MaxRecords : flow \in [1 .. n -> Flows]
    BY DEF Init
  <2>2. Len(flow) = n /\ MaxRecords \in Nat
    BY <2>1, GrouperAssumption, Ranges
  <2>3. QED
    BY <2>1, <2>2 DEF NumRecords
<1>4. QED
  BY <1>1, <1>2, <1>3 DEF EvaluatedInv

\* Steps that leave the groups alone.
LEMMA EvaluatedIdle ==
  ASSUME EvaluatedInv, GrouperInv', UNCHANGED <<inputs, groupset>>,
         pc' = pc \/ (pc # "grow" /\ pc' # "grow")
  PROVE  EvaluatedInv'
<1>1. Closed' = Closed
  BY DEF Closed
<1>2. QED
  BY <1>1, EvaluatedStep

\* The one group of a grouper without clauses is evaluated when it is made.
LEMMA EvaluatedClubAll ==
  ASSUME EvaluatedInv, GrouperInv', ClubAll PROVE EvaluatedInv'
<1> DEFINE members == [p \in Records |-> filtered[p]]
           group == [clause   |-> 1,
                     members  |-> members,
                     start_ts |-> Min({flow[q].start : q \in Records}),
                     end_ts   |-> Max({flow[q].end : q \in Records}),
                     aggrset  |-> <<>>,
                     record   |-> NoFields]
<1>1. PICK order \in ValueOrders(members) : groupset' = <<Completed(group, order)>>
  BY DEF ClubAll
<1> DEFINE x == Completed(group, order)
<1>2. DOMAIN group = GroupFields /\ group.members = members
  BY DEF GroupFields
<1>3. /\ x.members = members
      /\ x.aggrset = Aggregations(members, order)
      /\ x.record = Record(members, x.aggrset)
  <2> HIDE DEF group, members
  <2>1. QED
    BY <1>2, CompletedFacts, CompletedEvaluated
<1>4. groupset' = <<x>>
  BY <1>1
<1> HIDE DEF x, members, group
<1>5. DOMAIN groupset' = {1} /\ groupset'[1] = x
  BY <1>4
<1>6. Closed' = {1}
  BY <1>5 DEF Closed, ClubAll
<1>7. UNCHANGED inputs
  BY DEF ClubAll
<1>8. ASSUME NEW g \in DOMAIN groupset'
      PROVE  \E o \in ValueOrders(groupset'[g].members) :
               /\ g \in Closed'
               /\ groupset'[g].aggrset = Aggregations(groupset'[g].members, o)
               /\ groupset'[g].record = Record(groupset'[g].members,
                                               groupset'[g].aggrset)
  <2>1. groupset'[g] = x /\ g \in Closed'
    BY <1>5, <1>6
  <2>2. /\ order \in ValueOrders(groupset'[g].members)
        /\ groupset'[g].aggrset = Aggregations(groupset'[g].members, order)
        /\ groupset'[g].record = Record(groupset'[g].members, groupset'[g].aggrset)
    BY <1>1, <1>3, <2>1
  <2>3. QED
    BY <2>1, <2>2
<1>9. QED
  BY <1>7, <1>8, EvaluatedStep

\* A group is opened with neither aggregates nor a record.
LEMMA EvaluatedOpen ==
  ASSUME EvaluatedInv, GrouperInv', OpenGroup PROVE EvaluatedInv'
<1> DEFINE q == filtered[current_item]
           x == [clause   |-> l,
                 members  |-> <<q>>,
                 start_ts |-> flow[q].start,
                 end_ts   |-> flow[q].end,
                 aggrset  |-> <<>>,
                 record   |-> NoFields]
           k == Len(groupset) + 1
<1>1. /\ groupset' = Append(groupset, x) /\ pc = "scan" /\ pc' = "grow"
      /\ UNCHANGED inputs
  BY DEF OpenGroup
<1>2. x.aggrset = <<>> /\ x.record = NoFields
  OBVIOUS
<1> HIDE DEF x
<1>3. GroupsInv /\ GroupsInv'
  BY DEF EvaluatedInv, GrouperInv
<1>4. /\ Len(groupset) \in Nat /\ DOMAIN groupset = 1 .. Len(groupset)
      /\ Len(groupset') = k /\ DOMAIN groupset' = 1 .. k
      /\ \A n \in 1 .. Len(groupset) : groupset'[n] = groupset[n]
      /\ groupset'[k] = x
  BY <1>1, <1>3, AppendOwn DEF GroupsInv
<1>5. Closed = DOMAIN groupset /\ Closed' = DOMAIN groupset
  BY <1>1, <1>4 DEF Closed
<1>6. ASSUME NEW g \in DOMAIN groupset'
      PROVE  \/ /\ g \in DOMAIN groupset
                /\ groupset'[g] = groupset[g]
                /\ g \in Closed' <=> g \in Closed
             \/ /\ g \notin Closed'
                /\ groupset'[g].aggrset = <<>>
                /\ groupset'[g].record = NoFields
  BY <1>2, <1>4, <1>5
<1>7. QED
  BY <1>1, <1>6, EvaluatedStep

\* It grows without them.
LEMMA EvaluatedAdd ==
  ASSUME EvaluatedInv, GrouperInv', AddMember PROVE EvaluatedInv'
<1> DEFINE k == Len(groupset)
           q == filtered[current_item + 1]
           x == Extend(groupset[k], q)
<1>1. /\ groupset' = [groupset EXCEPT ![k] = x] /\ pc = "grow" /\ pc' = "grow"
      /\ UNCHANGED inputs
  BY DEF AddMember
<1>2. GroupsInv /\ GroupsInv' /\ groupset # <<>>
  BY <1>1 DEF EvaluatedInv, GrouperInv, ScanInv
<1>3. /\ k \in Nat /\ k # 0 /\ DOMAIN groupset = 1 .. k
  BY <1>2, ClosedIs, EmptySeq DEF GroupsInv
<1>4. k \in DOMAIN groupset
  BY <1>3
<1>5. x.aggrset = groupset[k].aggrset /\ x.record = groupset[k].record
  BY <1>2, <1>4 DEF GroupsInv, Extend, GroupFields
<1> HIDE DEF x, k
<1>6. /\ Len(groupset') = Len(groupset) /\ DOMAIN groupset' = DOMAIN groupset
      /\ groupset'[k] = x
      /\ \A n \in DOMAIN groupset : n # k => groupset'[n] = groupset[n]
  BY <1>1, <1>2, <1>4, ExceptOwn DEF GroupsInv
<1>7. Closed = 1 .. k - 1 /\ Closed' = 1 .. k - 1
  BY <1>1, <1>6 DEF Closed, k
<1>8. groupset[k].aggrset = <<>> /\ groupset[k].record = NoFields
  <2>1. k \notin Closed
    BY <1>3, <1>7
  <2>2. QED
    BY <1>4, <2>1 DEF EvaluatedInv
<1>9. ASSUME NEW g \in DOMAIN groupset'
      PROVE  \/ /\ g \in DOMAIN groupset
                /\ groupset'[g] = groupset[g]
                /\ g \in Closed' <=> g \in Closed
             \/ /\ g \notin Closed'
                /\ groupset'[g].aggrset = <<>>
                /\ groupset'[g].record = NoFields
  <2>1. CASE g = k
    BY <1>3, <1>5, <1>6, <1>7, <1>8, <2>1
  <2>2. CASE g # k
    BY <1>6, <1>7, <2>2
  <2>3. QED
    BY <2>1, <2>2
<1>10. QED
  BY <1>1, <1>9, EvaluatedStep

\* It gets both when it is closed.
LEMMA EvaluatedSave ==
  ASSUME EvaluatedInv, GrouperInv', pc = "grow", SaveGroup PROVE EvaluatedInv'
<1> DEFINE k == Len(groupset)
<1>1. PICK order \in ValueOrders(Last(groupset).members) :
        groupset' = [groupset EXCEPT ![k] = Completed(groupset[k], order)]
  BY DEF SaveGroup
<1> DEFINE x == Completed(groupset[k], order)
<1>2. pc' = "scan" /\ UNCHANGED inputs /\ groupset' = [groupset EXCEPT ![k] = x]
  BY <1>1 DEF SaveGroup
<1>3. GroupsInv /\ GroupsInv' /\ groupset # <<>>
  BY DEF EvaluatedInv, GrouperInv, ScanInv
<1>4. k \in Nat /\ k # 0 /\ DOMAIN groupset = 1 .. k
  BY <1>3, ClosedIs, EmptySeq DEF GroupsInv
<1>5. k \in DOMAIN groupset /\ DOMAIN groupset[k] = GroupFields
  BY <1>3, <1>4 DEF GroupsInv
<1> DEFINE m == groupset[k].members
<1>6. order \in ValueOrders(m)
  BY <1>1 DEF Last
<1>7. /\ x.members = m
      /\ x.aggrset = Aggregations(m, order)
      /\ x.record = Record(m, x.aggrset)
  <2> HIDE DEF k
  <2>1. QED
    BY <1>5, CompletedFacts, CompletedEvaluated
<1> HIDE DEF x, k, m
<1>8. /\ Len(groupset') = Len(groupset) /\ DOMAIN groupset' = DOMAIN groupset
      /\ groupset'[k] = x
      /\ \A n \in DOMAIN groupset : n # k => groupset'[n] = groupset[n]
  BY <1>2, <1>3, <1>5, ExceptOwn DEF GroupsInv
<1>9. Closed = 1 .. k - 1 /\ Closed' = 1 .. k
  BY <1>2, <1>4, <1>8 DEF Closed, k
<1>10. ASSUME NEW g \in DOMAIN groupset'
       PROVE  \/ /\ g \in DOMAIN groupset
                 /\ groupset'[g] = groupset[g]
                 /\ g \in Closed' <=> g \in Closed
              \/ \E o \in ValueOrders(groupset'[g].members) :
                   /\ g \in Closed'
                   /\ groupset'[g].aggrset = Aggregations(groupset'[g].members, o)
                   /\ groupset'[g].record = Record(groupset'[g].members,
                                                   groupset'[g].aggrset)
  <2>1. CASE g = k
    <3>1. /\ g \in Closed'
          /\ order \in ValueOrders(groupset'[g].members)
          /\ groupset'[g].aggrset = Aggregations(groupset'[g].members, order)
          /\ groupset'[g].record = Record(groupset'[g].members, groupset'[g].aggrset)
      BY <1>4, <1>6, <1>7, <1>8, <1>9, <2>1
    <3>2. QED
      BY <3>1
  <2>2. CASE g # k
    <3>1. g \in 1 .. k - 1 /\ g \in 1 .. k
      BY <1>4, <1>8, <2>2
    <3>2. QED
      BY <1>8, <1>9, <2>2, <3>1
  <2>3. QED
    BY <2>1, <2>2
<1>11. QED
  BY <1>2, <1>10, EvaluatedStep

\* No other step touches them: the invariant is inductive.
LEMMA EvaluatedNext == EvaluatedInv /\ [Next]_vars => EvaluatedInv'
<1> SUFFICES ASSUME EvaluatedInv, [Next]_vars PROVE EvaluatedInv'
  OBVIOUS
<1>1. GrouperInv'
  BY InvNext DEF EvaluatedInv
<1>2. CASE NothingToGroup
  BY <1>1, <1>2, EvaluatedIdle DEF NothingToGroup
<1>3. CASE ClubAll
  BY <1>1, <1>3, EvaluatedClubAll
<1>4. CASE SortClause
  BY <1>1, <1>4, EvaluatedIdle DEF SortClause
<1>5. CASE OpenGroup
  BY <1>1, <1>5, EvaluatedOpen
<1>6. CASE AddMember
  BY <1>1, <1>6, EvaluatedAdd
<1>7. CASE MismatchEndsGroup
  BY <1>1, <1>7, EvaluatedSave DEF MismatchEndsGroup
<1>8. CASE LastItemEndsGroup
  BY <1>1, <1>8, EvaluatedSave DEF LastItemEndsGroup
<1>9. CASE EndClause
  BY <1>1, <1>9, EvaluatedIdle DEF EndClause
<1>10. CASE UNCHANGED vars
  BY <1>1, <1>10, EvaluatedIdle DEF vars
<1>11. QED
  BY <1>2, <1>3, <1>4, <1>5, <1>6, <1>7, <1>8, <1>9, <1>10 DEF Next

\* The members of a group are different.
LEMMA MembersDiffer ==
  ASSUME GrouperInv, NEW g \in DOMAIN groupset
  PROVE  AreMembers(groupset[g].members)
<1> DEFINE m == groupset[g].members
           c == groupset[g].clause
<1>1. m \in Seq(Records) /\ m # <<>> /\ c \in 1 .. l
  BY DEF GrouperInv, GroupsInv
<1>2. g \in GroupsOf(c) /\ TakenOnce(c)
  BY <1>1 DEF GrouperInv, GroupedOnce, GroupsOf
<1>3. DOMAIN m = 1 .. Len(m)
  BY <1>1, LenProperties
<1>4. \A i, j \in 1 .. Len(m) : m[i] = m[j] => i = j
  BY <1>2, <1>3 DEF TakenOnce
<1>5. QED
  BY <1>1, <1>4 DEF AreMembers

\* A closed group and one of the terms of the aggregation clause.
LEMMA EvaluatedTerm ==
  ASSUME EvaluatedInv, NEW m, AreMembers(m), NEW order \in ValueOrders(m),
         NEW j \in DOMAIN AggrTermset
  PROVE  LET term == AggrTermset[j]
         IN /\ term.op \in AggrOps /\ term.field \in Fields
            /\ order[term.field] \in SortOrders(FieldValues(term.field, m))
            /\ Aggregations(m, order)[j] =
                 Aggregate(term.op, term.field \in CommonFields,
                           FieldValues(term.field, m), order[term.field])
<1> DEFINE S == [op : AggrOps, field : Fields]
<1>1. AggrTermset[j] \in S
  <2>1. AggrTermset \in Seq(S)
    BY GrouperAssumption
  <2> HIDE DEF S
  <2>2. DOMAIN AggrTermset = 1 .. Len(AggrTermset)
    BY <2>1, LenProperties
  <2>3. QED
    BY <2>1, <2>2, ElementOfSeq
<1>2. AggrTermset[j].field \in AggrFields
  BY DEF AggrFields
<1>3. order[AggrTermset[j].field] \in SortOrders(FieldValues(AggrTermset[j].field, m))
  BY <1>2 DEF ValueOrders
<1>4. QED
  BY <1>1, <1>3 DEF Aggregations

\* The aggregates of an evaluated group are exact, whatever the order of ties.
LEMMA ExactFromInv ==
  ASSUME EvaluatedInv PROVE AggregatesExact
<1>1. GrouperInv /\ GroupsInv /\ ScanInv
  BY DEF EvaluatedInv, GrouperInv
<1>2. SUFFICES ASSUME NEW g \in Closed, NEW j \in DOMAIN AggrTermset
               PROVE  IsAggregate(AggrTermset[j].op, groupset[g].aggrset[j],
                                  Members(g), AggrTermset[j].field)
  BY DEF AggregatesExact
<1>3. g \in DOMAIN groupset
  BY <1>1, ClosedIs
<1> DEFINE m == groupset[g].members
           f == AggrTermset[j].field
           op == AggrTermset[j].op
           common == f \in CommonFields
<1>4. AreMembers(m)
  BY <1>1, <1>3, MembersDiffer
<1>5. PICK order \in ValueOrders(m) : groupset[g].aggrset = Aggregations(m, order)
  BY <1>3 DEF EvaluatedInv, Evaluated
<1> HIDE DEF m
<1>6. /\ op \in AggrOps /\ f \in Fields
      /\ order[f] \in SortOrders(FieldValues(f, m))
      /\ Aggregations(m, order)[j] = Aggregate(op, common, FieldValues(f, m), order[f])
  BY <1>4, <1>5, EvaluatedTerm
<1>7. common \in BOOLEAN
  OBVIOUS
<1> HIDE DEF f, op, common
<1>8. IsAggregate(op, Aggregate(op, common, FieldValues(f, m), order[f]), Range(m), f)
  BY <1>1, <1>4, <1>6, <1>7, ExactAggregate
<1>9. IsAggregate(op, groupset[g].aggrset[j], Range(m), f)
  BY <1>5, <1>6, <1>8
<1>10. QED
  BY <1>9 DEF m, op, f, Members

\* The aggregates of every closed group, with whatever terms, are those of its
\* members: the counts and the sums, up to the word they are kept in, the means
\* of sums that fit, the bits, the medians and the sets of values that compar
\* can tell apart.
THEOREM AggregatesCorrect == Spec => []AggregatesExact
<1>1. Init => EvaluatedInv
  BY EvaluatedInit
<1>2. EvaluatedInv /\ [Next]_vars => EvaluatedInv'
  BY EvaluatedNext
<1>3. EvaluatedInv => AggregatesExact
  BY ExactFromInv
<1>4. QED
  BY <1>1, <1>2, <1>3, PTL DEF Spec

-----------------------------------------------------------------------------
(* Types.                                                                  *)

\* The aggregates of a group are sequences of words.
LEMMA AggregationsType ==
  ASSUME EvaluatedInv, NEW m, AreMembers(m), NEW order \in ValueOrders(m)
  PROVE  /\ Aggregations(m, order) \in Seq(Seq(Words))
         /\ \A j \in DOMAIN AggrTermset :
              FieldValue(AggrTermset[j].op, AggrTermset[j].field \in CommonFields,
                         Aggregations(m, order)[j]) \in Words
<1>1. ScanInv /\ NumRecords <= MaxRecords
  BY DEF EvaluatedInv, GrouperInv
<1>2. ASSUME NEW j \in DOMAIN AggrTermset
      PROVE  /\ Aggregations(m, order)[j] \in Seq(Words)
             /\ FieldValue(AggrTermset[j].op, AggrTermset[j].field \in CommonFields,
                           Aggregations(m, order)[j]) \in Words
  <2> DEFINE f == AggrTermset[j].field
             op == AggrTermset[j].op
             common == f \in CommonFields
             V == FieldValues(f, m)
  <2>1. /\ op \in AggrOps /\ f \in Fields
        /\ order[f] \in SortOrders(FieldValues(f, m))
        /\ Aggregations(m, order)[j] = Aggregate(op, common, V, order[f])
    BY EvaluatedTerm
  <2>2. common \in BOOLEAN
    OBVIOUS
  <2> HIDE DEF f, op, common
  <2>3. V \in Seq(Words) /\ V # <<>> /\ Len(V) \in Nat /\ Len(V) <= NumRecords
        /\ order[f] \in SortOrders(V)
    BY <1>1, <2>1, ValuesAre
  <2>4. Len(V) \in Words
    <3>1. NumRecords \in Nat /\ MaxRecords \in 0 .. WordRange - 1
      BY <1>1, Sizes, GrouperAssumption
    <3> HIDE DEF V
    <3>2. QED
      BY <1>1, <2>3, <3>1, Ranges DEF Words
  <2> DEFINE a == Aggregate(op, common, V, order[f])
  <2>5. a \in Seq(Words) /\ FieldValue(op, common, a) \in Words
    <3> HIDE DEF V
    <3>1. QED
      BY <2>1, <2>2, <2>3, <2>4, AggregateIsWords
  <2> HIDE DEF a
  <2>6. Aggregations(m, order)[j] = a
    BY <2>1 DEF a
  <2>7. /\ Aggregations(m, order)[j] \in Seq(Words)
        /\ FieldValue(op, common, Aggregations(m, order)[j]) \in Words
    BY <2>5, <2>6
  <2>8. QED
    BY <2>7 DEF op, f, common
<1>3. Aggregations(m, order) \in Seq(Seq(Words))
  <2> DEFINE n == Len(AggrTermset)
             A == Aggregations(m, order)
             S == Seq(Words)
  <2>1. n \in Nat /\ DOMAIN AggrTermset = 1 .. n
    BY GrouperAssumption, LenProperties
  <2>2. A = [j \in 1 .. n |-> A[j]]
    BY <2>1 DEF Aggregations
  <2>3. \A j \in 1 .. n : A[j] \in S
    BY <1>2, <2>1
  <2> HIDE DEF A, S
  <2>4. [j \in 1 .. n |-> A[j]] \in Seq(S)
    BY <2>1, <2>3, IsASeq
  <2>5. QED
    BY <2>2, <2>4 DEF A, S
<1>4. QED
  BY <1>2, <1>3

\* The record of a group has values of the width of its fields.
LEMMA RecordType ==
  ASSUME EvaluatedInv, NEW m, AreMembers(m), NEW order \in ValueOrders(m)
  PROVE  LET r == Record(m, Aggregations(m, order))
         IN r \in [Fields -> Words] /\ IsRow(r)
<1>1. ScanInv /\ flow \in Seq(Flows)
  BY DEF EvaluatedInv, GrouperInv, ScanInv
<1> DEFINE A == Aggregations(m, order)
           r == Record(m, A)
<1>2. ASSUME NEW f \in Fields PROVE r[f] \in Words /\ r[f] < TypeRange[f]
  <2> DEFINE writers == {j \in DOMAIN AggrTermset :
                           AggrTermset[j].field = f /\ WritesField(AggrTermset[j].op)}
             last == Max(writers)
  <2>1. TypeRange[f] \in 1 .. WordRange /\ WordRange \in Nat
    BY GrouperAssumption, Ranges
  <2>2. CASE writers = {}
    <3>1. r[f] = Common(m)[f]
      BY <2>2 DEF Record
    <3>2. m[1] \in Records
      BY <1>1, ValuesAre
    <3>3. flow[m[1]] \in Flows
      BY <1>1, <3>2, ElementOfSeq DEF Records, NumRecords
    <3>4. /\ flow[m[1]].fields[f] \in Words
          /\ flow[m[1]].fields[f] < TypeRange[f]
      BY <3>3, GrouperAssumption DEF IsRow
    <3>5. 0 \in Words /\ 0 < TypeRange[f]
      BY <2>1 DEF Words
    <3>6. QED
      BY <3>1, <3>4, <3>5 DEF Common
  <2>3. CASE writers # {}
    <3> DEFINE n == Len(AggrTermset)
    <3>1. n \in Nat /\ DOMAIN AggrTermset = 1 .. n
      BY GrouperAssumption, LenProperties
    <3>2. last \in writers
      <4>1. writers \in SUBSET (1 .. n)
        BY <3>1
      <4> HIDE DEF writers, n
      <4>2. QED
        BY <2>3, <3>1, <4>1, UpTo
    <3> DEFINE v == FieldValue(AggrTermset[last].op, f \in CommonFields, A[last])
               t == TypeRange[f]
    <3>3. r[f] = v % t
      BY <2>3 DEF Record
    <3>4. v \in Words
      <4>1. last \in DOMAIN AggrTermset /\ AggrTermset[last].field = f
        BY <3>2
      <4> HIDE DEF last, writers
      <4>2. FieldValue(AggrTermset[last].op, AggrTermset[last].field \in CommonFields,
                       Aggregations(m, order)[last]) \in Words
        BY <4>1, AggregationsType
      <4>3. QED
        BY <4>1, <4>2
    <3> HIDE DEF v, t
    <3>5. v \in Int /\ t \in Nat \ {0} /\ t <= WordRange
      BY <2>1, <3>4, Ranges DEF Words, t
    <3>6. v % t \in 0 .. t - 1
      BY <3>5, QuotientRemainder
    <3> DEFINE x == v % t
    <3>7. x \in 0 .. t - 1
      BY <3>6
    <3> HIDE DEF x
    <3>8. x \in Words /\ x < t
      BY <2>1, <3>5, <3>7 DEF Words
    <3>9. QED
      BY <3>3, <3>8 DEF x, t
  <2>4. QED
    BY <2>2, <2>3
<1>3. r = [f \in Fields |-> r[f]]
  BY DEF Record
<1> HIDE DEF r
<1>4. r \in [Fields -> Words]
  BY <1>2, <1>3
<1>5. QED
  BY <1>2, <1>4 DEF IsRow, r

\* One of several numbers is the greatest.
LEMMA GreatestOfMany ==
  ASSUME NEW n \in Nat \ {0}, NEW e, \A i \in 1 .. n : e[i] \in Nat
  PROVE  \E i \in 1 .. n : \A j \in 1 .. n : e[i] >= e[j]
<1> DEFINE Has(k) == \E i \in 1 .. k : \A j \in 1 .. k : e[i] >= e[j]
           U == {k \in 0 .. n : k = 0 \/ Has(k)}
<1>1. 0 \in U
  OBVIOUS
<1>2. ASSUME NEW k \in 0 .. n - 1, k \in U PROVE k + 1 \in U
  <2>1. /\ k + 1 \in 1 .. n /\ k + 1 \in 0 .. n
        /\ \A j \in 1 .. k + 1 : j \in 1 .. k \/ j = k + 1
        /\ \A j \in 1 .. k : j \in 1 .. k + 1
        /\ \A j \in 1 .. k + 1 : e[j] \in Nat
    OBVIOUS
  <2>2. CASE k = 0
    <3>1. Has(k + 1)
      BY <2>1, <2>2
    <3> HIDE DEF Has
    <3>2. QED
      BY <2>1, <3>1
  <2>3. CASE Has(k)
    <3>1. PICK i \in 1 .. k : \A j \in 1 .. k : e[i] >= e[j]
      BY <2>3
    <3>2. CASE e[i] >= e[k + 1]
      <4>1. \A j \in 1 .. k + 1 : e[i] >= e[j]
        BY <2>1, <3>1, <3>2
      <4>2. Has(k + 1)
        BY <2>1, <4>1
      <4> HIDE DEF Has
      <4>3. QED
        BY <2>1, <4>2
    <3>3. CASE ~ (e[i] >= e[k + 1])
      <4>1. \A j \in 1 .. k + 1 : e[k + 1] >= e[j]
        BY <2>1, <3>1, <3>3
      <4>2. Has(k + 1)
        BY <2>1, <4>1
      <4> HIDE DEF Has
      <4>3. QED
        BY <2>1, <4>2
    <3>4. QED
      BY <3>2, <3>3
  <2>4. QED
    <3> HIDE DEF Has
    <3>1. QED
      BY <1>2, <2>2, <2>3
<1>3. n \in U
  <2> HIDE DEF U
  <2>1. 0 .. n \subseteq U
    BY <1>1, <1>2, AllUpTo
  <2>2. QED
    BY <2>1
<1>4. QED
  BY <1>3

\* The groups are records with the fields of a group.
AreRecords ==
  \A g \in DOMAIN groupset : groupset[g] = [h \in GroupFields |-> groupset[g][h]]

\* The groups have their types.
LEMMA GroupsType ==
  ASSUME EvaluatedInv, AreRecords
  PROVE  /\ groupset \in Seq([clause : Nat, members : Seq(Records), start_ts : Nat,
                              end_ts : Nat, aggrset : Seq(Seq(Words)),
                              record : [Fields -> Words]])
         /\ \A g \in DOMAIN groupset : IsRow(groupset[g].record)
<1> DEFINE Group == [clause : Nat, members : Seq(Records), start_ts : Nat,
                     end_ts : Nat, aggrset : Seq(Seq(Words)),
                     record : [Fields -> Words]]
<1>1. GrouperInv /\ GroupsInv /\ ScanInv /\ BoundsExact
  BY BoundsFromInv DEF EvaluatedInv, GrouperInv
<1>2. \A q \in Records : flow[q].start \in Nat /\ flow[q].end \in Nat
  <2>1. \A q \in Records : flow[q] \in Flows
    BY <1>1, ElementOfSeq DEF ScanInv, Records, NumRecords
  <2>2. QED
    BY <2>1, GrouperAssumption
<1>3. ASSUME NEW g \in DOMAIN groupset
      PROVE  groupset[g] \in Group /\ IsRow(groupset[g].record)
  <2> DEFINE x == groupset[g]
             m == x.members
  <2>1. /\ DOMAIN x = GroupFields
        /\ m \in Seq(Records)
        /\ x.clause \in Nat
    BY <1>1, Sizes DEF GroupsInv
  <2>2. AreMembers(m)
    BY <1>1, MembersDiffer
  <2>3. x.start_ts \in Nat /\ x.end_ts \in Nat
    <3> DEFINE Starts == {flow[q].start : q \in Members(g)}
               Ends == {flow[q].end : q \in Members(g)}
    <3>1. Members(g) \subseteq Records /\ Members(g) # {}
      <4>1. m # <<>> /\ DOMAIN m = 1 .. Len(m) /\ Len(m) \in Nat
        BY <2>1, <2>2, LenProperties DEF AreMembers
      <4>2. 1 \in DOMAIN m
        BY <2>1, <4>1, EmptySeq
      <4>3. \A i \in DOMAIN m : m[i] \in Records
        BY <2>1, <4>1, ElementOfSeq
      <4>4. QED
        BY <4>2, <4>3 DEF Members, Range
    <3>2. \E x1 \in Starts, y1 \in Ends :
            groupset[g].start_ts = x1 /\ groupset[g].end_ts = y1
      <4>1. CASE clauseset # <<>>
        BY <1>1, <4>1 DEF GrouperInv, BoundsInv, IsMin, IsMax
      <4>2. CASE clauseset = <<>>
        <5>1. x.start_ts = Min(Starts) /\ x.end_ts = Max(Ends)
          BY <1>1 DEF BoundsExact
        <5>2. Starts \in SUBSET Nat /\ Starts # {} /\ Ends \in SUBSET Nat /\ Ends # {}
          BY <1>2, <3>1
        <5>3. Min(Starts) \in Starts
          <6> HIDE DEF Starts
          <6>1. \E a \in Starts : \A b \in Starts : a <= b
            BY <5>2, LeastElement
          <6>2. QED
            BY <6>1 DEF Min
        <5>4. Max(Ends) \in Ends
          <6> DEFINE n == Len(m)
                     e == [i \in 1 .. n |-> flow[m[i]].end]
          <6>1. /\ n \in Nat \ {0} /\ DOMAIN m = 1 .. n
                /\ \A i \in 1 .. n : m[i] \in Records
            BY <2>1, <2>2, LenProperties, ElementOfSeq, EmptySeq DEF AreMembers
          <6>2. \A i \in 1 .. n : e[i] = flow[m[i]].end /\ e[i] \in Nat
            BY <1>2, <6>1
          <6>3. Ends = {e[i] : i \in 1 .. n}
            BY <6>1, <6>2 DEF Members, Range
          <6> HIDE DEF e, n, Ends
          <6>4. \E i \in 1 .. n : \A j \in 1 .. n : e[i] >= e[j]
            BY <6>1, <6>2, GreatestOfMany
          <6>5. \E x1 \in Ends : \A y1 \in Ends : x1 >= y1
            BY <6>3, <6>4
          <6>6. QED
            BY <6>5 DEF Max
        <5>5. QED
          BY <5>1, <5>3, <5>4
      <4>3. QED
        BY <4>1, <4>2
    <3>3. Starts \subseteq Nat /\ Ends \subseteq Nat
      BY <1>2, <3>1
    <3> HIDE DEF Starts, Ends
    <3>4. QED
      BY <3>2, <3>3
  <2>4. x.aggrset \in Seq(Seq(Words)) /\ x.record \in [Fields -> Words] /\ IsRow(x.record)
    <3>1. CASE g \in Closed
      <4>1. PICK order \in ValueOrders(m) :
              x.aggrset = Aggregations(m, order) /\ x.record = Record(m, x.aggrset)
        BY <3>1 DEF EvaluatedInv, Evaluated
      <4> HIDE DEF m
      <4>2. Aggregations(m, order) \in Seq(Seq(Words))
        BY <2>2, AggregationsType
      <4>3. Record(m, Aggregations(m, order)) \in [Fields -> Words]
            /\ IsRow(Record(m, Aggregations(m, order)))
        BY <2>2, RecordType
      <4>4. QED
        BY <4>1, <4>2, <4>3
    <3>2. CASE g \notin Closed
      <4>1. x.aggrset = <<>> /\ x.record = NoFields
        BY <3>2 DEF EvaluatedInv
      <4>2. <<>> \in Seq(Seq(Words))
        OBVIOUS
      <4>3. \A f \in Fields : 0 \in Words /\ 0 < TypeRange[f]
        BY GrouperAssumption, Ranges DEF Words
      <4>4. NoFields \in [Fields -> Words] /\ IsRow(NoFields)
        BY <4>3 DEF NoFields, IsRow
      <4>5. QED
        BY <4>1, <4>2, <4>4
    <3>3. QED
      BY <3>1, <3>2
  <2>5. x = [clause |-> x.clause, members |-> x.members, start_ts |-> x.start_ts,
             end_ts |-> x.end_ts, aggrset |-> x.aggrset, record |-> x.record]
    BY DEF AreRecords, GroupFields
  <2>6. QED
    BY <2>1, <2>3, <2>4, <2>5
<1>4. groupset \in Seq(Group)
  <2> HIDE DEF Group
  <2>1. Len(groupset) \in Nat /\ DOMAIN groupset = 1 .. Len(groupset)
    BY <1>1, ClosedIs
  <2>2. groupset = [g \in 1 .. Len(groupset) |-> groupset[g]]
    BY <1>1, <2>1, LenProperties DEF GroupsInv
  <2>3. [g \in 1 .. Len(groupset) |-> groupset[g]] \in Seq(Group)
    BY <1>3, <2>1, IsASeq
  <2>4. QED
    BY <2>2, <2>3
<1>5. QED
  BY <1>3, <1>4

\* The types of what the scan has besides its groups.
VariablesOK ==
  /\ clauseset \in ClauseSets
  /\ filtered \in [1 .. NumRecords + 1 -> Records \cup {Null}]
  /\ AreRecords
  /\ member_files \in Seq(Seq(Records))
  /\ Len(member_files) = Len(groupset)
  /\ l \in 1 .. Rounds
  /\ current_item \in 1 .. NumRecords + 1

\* The variables have their types at the start.
LEMMA VariablesInit == Init => VariablesOK
<1> SUFFICES ASSUME Init PROVE VariablesOK
  OBVIOUS
<1>1. ScanInv
  BY InvInit DEF GrouperInv
<1>2. NumRecords \in Nat /\ Records = 1 .. NumRecords
  BY <1>1, Sizes DEF Records
<1>3. filtered \in [1 .. NumRecords + 1 -> Records \cup {Null}]
  <2>1. filtered = [p \in 1 .. NumRecords + 1 |-> IF p <= NumRecords THEN p ELSE Null]
    BY DEF Init
  <2>2. ASSUME NEW p \in 1 .. NumRecords + 1
        PROVE  (IF p <= NumRecords THEN p ELSE Null) \in Records \cup {Null}
    BY <1>2
  <2>3. QED
    BY <2>1, <2>2
<1>4. l \in 1 .. Rounds /\ current_item \in 1 .. NumRecords + 1
  <2>1. l = 1 /\ current_item = 1
    BY DEF Init
  <2>2. Rounds = (IF Len(clauseset) = 0 THEN 1 ELSE Len(clauseset)) /\ Len(clauseset) \in Nat
    BY <1>1, RoundsIs, Sizes
  <2>3. QED
    BY <1>2, <2>1, <2>2
<1>5. /\ groupset = <<>> /\ member_files = <<>> /\ clauseset \in ClauseSets
      /\ DOMAIN groupset = {}
  BY DEF Init
<1>6. member_files \in Seq(Seq(Records)) /\ Len(member_files) = Len(groupset)
  BY <1>5
<1>7. QED
  BY <1>3, <1>4, <1>5, <1>6 DEF VariablesOK, AreRecords

\* What a step may change of them.
LEMMA VariablesStep ==
  ASSUME VariablesOK, UNCHANGED inputs,
         filtered' \in [1 .. NumRecords + 1 -> Records \cup {Null}],
         AreRecords',
         member_files' \in Seq(Seq(Records)),
         Len(member_files') = Len(groupset'),
         l' \in 1 .. Rounds,
         current_item' \in 1 .. NumRecords + 1
  PROVE  VariablesOK'
<1>1. flow' = flow /\ clauseset' = clauseset
  BY DEF inputs
<1>2. NumRecords' = NumRecords /\ Records' = Records /\ Rounds' = Rounds
  BY <1>1 DEF NumRecords, Records, Rounds
<1>3. QED
  BY <1>1, <1>2 DEF VariablesOK

\* EXCEPT makes a record of the same fields.
LEMMA CompletedRecord ==
  ASSUME NEW group, DOMAIN group = GroupFields, NEW order
  PROVE  LET x == Completed(group, order) IN x = [h \in GroupFields |-> x[h]]
BY DEF Completed

\* A group that grows keeps its fields.
LEMMA ExtendRecord ==
  ASSUME NEW group, DOMAIN group = GroupFields, NEW q
  PROVE  LET x == Extend(group, q) IN x = [h \in GroupFields |-> x[h]]
BY DEF Extend

\* The types are kept by steps that touch none of these variables,
LEMMA VariablesNothing ==
  ASSUME VariablesOK, UNCHANGED <<inputs, filtered, groupset, member_files, l,
                                  current_item>>
  PROVE  VariablesOK'
<1>1. AreRecords'
  BY DEF VariablesOK, AreRecords
<1>2. QED
  BY <1>1, VariablesStep DEF VariablesOK

\* by the group of all records,
LEMMA VariablesClubAll ==
  ASSUME VariablesOK, GrouperInv, ClubAll
  PROVE  VariablesOK'
<1> DEFINE members == [p \in Records |-> filtered[p]]
           group == [clause   |-> 1,
                     members  |-> members,
                     start_ts |-> Min({flow[q].start : q \in Records}),
                     end_ts   |-> Max({flow[q].end : q \in Records}),
                     aggrset  |-> <<>>,
                     record   |-> NoFields]
<1>1. PICK order \in ValueOrders(members) : groupset' = <<Completed(group, order)>>
  BY DEF ClubAll
<1> DEFINE x == Completed(group, order)
<1>2. x = [h \in GroupFields |-> x[h]]
  <2>1. DOMAIN group = GroupFields
    BY DEF GroupFields
  <2> HIDE DEF group
  <2>2. QED
    BY <2>1, CompletedRecord
<1>3. groupset' = <<x>>
  BY <1>1
<1> HIDE DEF x
<1>4. DOMAIN groupset' = {1} /\ groupset'[1] = x /\ Len(groupset') = 1
  BY <1>3
<1>5. AreRecords'
  BY <1>2, <1>4 DEF AreRecords
<1>6. member_files' \in Seq(Seq(Records)) /\ Len(member_files') = 1
  <2> DEFINE S == Seq(Records)
  <2>1. <<>> \in S /\ member_files' = << <<>> >>
    BY DEF ClubAll
  <2> HIDE DEF S
  <2>2. member_files' \in Seq(S) /\ Len(member_files') = 1
    BY <2>1
  <2>3. QED
    BY <2>2 DEF S
<1>7. UNCHANGED <<inputs, filtered, l, current_item>>
  BY DEF ClubAll
<1>8. QED
  BY <1>4, <1>5, <1>6, <1>7, VariablesStep DEF VariablesOK

\* by sorting the records for a clause,
LEMMA VariablesSort ==
  ASSUME VariablesOK, GrouperInv, SortClause
  PROVE  VariablesOK'
<1>1. PICK order \in SortedOrders(l) : filtered' = Append(order, Null)
  BY DEF SortClause
<1>2. NumRecords \in Nat /\ Records = 1 .. NumRecords
  BY Sizes DEF GrouperInv, Records
<1>3. order \in [1 .. NumRecords -> Records]
  BY <1>2 DEF SortedOrders, Bijection, Injection
<1> DEFINE S == Records \cup {Null}
<1>4. order \in Seq(S) /\ Len(order) = NumRecords /\ Null \in S
  <2>1. order \in [1 .. NumRecords -> S]
    BY <1>3
  <2>2. Null \in S
    OBVIOUS
  <2> HIDE DEF S
  <2>3. order \in Seq(S)
    BY <1>2, <2>1, SeqDef
  <2>4. DOMAIN order = 1 .. NumRecords /\ DOMAIN order = 1 .. Len(order) /\ Len(order) \in Nat
    BY <2>1, <2>3, LenProperties
  <2>5. Len(order) = NumRecords
    BY <1>2, <2>4
  <2>6. QED
    BY <2>2, <2>3, <2>5
<1>5. filtered' \in [1 .. NumRecords + 1 -> S]
  <2> HIDE DEF S
  <2>1. filtered' \in Seq(S) /\ Len(filtered') = NumRecords + 1
    BY <1>1, <1>4, AppendFacts
  <2>2. QED
    BY <2>1, LenProperties
<1>6. UNCHANGED <<inputs, groupset, member_files, l>> /\ current_item' = 1
  BY DEF SortClause
<1>7. AreRecords'
  BY <1>6 DEF VariablesOK, AreRecords
<1>8. 1 \in 1 .. NumRecords + 1
  BY <1>2
<1>9. QED
  BY <1>5, <1>6, <1>7, <1>8, VariablesStep DEF VariablesOK

\* by opening a group,
LEMMA VariablesOpen ==
  ASSUME VariablesOK, GrouperInv, OpenGroup
  PROVE  VariablesOK'
<1> DEFINE q == filtered[current_item]
           x == [clause   |-> l,
                 members  |-> <<q>>,
                 start_ts |-> flow[q].start,
                 end_ts   |-> flow[q].end,
                 aggrset  |-> <<>>,
                 record   |-> NoFields]
           k == Len(groupset) + 1
<1>1. /\ groupset' = Append(groupset, x)
      /\ member_files' = Append(member_files, <<>>)
      /\ UNCHANGED <<inputs, filtered, l, current_item>>
  BY DEF OpenGroup
<1>2. x = [h \in GroupFields |-> x[h]]
  BY DEF GroupFields
<1> HIDE DEF x
<1>3. /\ Len(groupset) \in Nat /\ DOMAIN groupset = 1 .. Len(groupset)
      /\ Len(groupset') = k /\ DOMAIN groupset' = 1 .. k
      /\ \A n \in 1 .. Len(groupset) : groupset'[n] = groupset[n]
      /\ groupset'[k] = x
  BY <1>1, AppendOwn DEF GrouperInv, GroupsInv
<1>4. AreRecords'
  <2>1. SUFFICES ASSUME NEW g \in DOMAIN groupset'
                 PROVE  groupset'[g] = [h \in GroupFields |-> groupset'[g][h]]
    BY DEF AreRecords
  <2>2. CASE g = k
    BY <1>2, <1>3, <2>2
  <2>3. CASE g # k
    <3>1. g \in DOMAIN groupset /\ groupset'[g] = groupset[g]
      BY <1>3, <2>3
    <3>2. QED
      BY <3>1 DEF VariablesOK, AreRecords
  <2>4. QED
    BY <2>2, <2>3
<1>5. member_files' \in Seq(Seq(Records)) /\ Len(member_files') = Len(groupset')
  <2> DEFINE S == Seq(Records)
             z == <<>>
  <2>1. z \in S /\ member_files \in Seq(S) /\ member_files' = Append(member_files, z)
    BY <1>1 DEF VariablesOK
  <2> HIDE DEF S, z
  <2>2. member_files' \in Seq(S) /\ Len(member_files') = Len(member_files) + 1
    BY <2>1, AppendFacts
  <2>3. QED
    BY <1>3, <2>2 DEF S, VariablesOK
<1>6. QED
  BY <1>1, <1>4, <1>5, VariablesStep DEF VariablesOK

\* One of the groups is replaced.
LEMMA RecordsKept ==
  ASSUME VariablesOK, GroupsInv, NEW k \in DOMAIN groupset, NEW x,
         x = [h \in GroupFields |-> x[h]],
         groupset' = [groupset EXCEPT ![k] = x]
  PROVE  AreRecords' /\ Len(groupset') = Len(groupset)
<1>1. /\ Len(groupset') = Len(groupset) /\ DOMAIN groupset' = DOMAIN groupset
      /\ groupset'[k] = x
      /\ \A n \in DOMAIN groupset : n # k => groupset'[n] = groupset[n]
  BY ExceptOwn DEF GroupsInv
<1>2. SUFFICES ASSUME NEW g \in DOMAIN groupset'
               PROVE  groupset'[g] = [h \in GroupFields |-> groupset'[g][h]]
  BY <1>1 DEF AreRecords
<1>3. CASE g = k
  BY <1>1, <1>3
<1>4. CASE g # k
  BY <1>1, <1>4 DEF VariablesOK, AreRecords
<1>5. QED
  BY <1>3, <1>4

\* by the next member,
LEMMA VariablesAdd ==
  ASSUME VariablesOK, GrouperInv, AddMember
  PROVE  VariablesOK'
<1> DEFINE k == Len(groupset)
           q == filtered[current_item + 1]
           x == Extend(groupset[k], q)
<1>1. /\ groupset' = [groupset EXCEPT ![k] = x] /\ pc = "grow"
      /\ member_files' = [member_files EXCEPT ![k] = Append(@, q)]
      /\ current_item # NumRecords /\ current_item' = current_item + 1
      /\ UNCHANGED <<inputs, filtered, l>>
  BY DEF AddMember, LastItem
<1>2. GroupsInv /\ ScanInv /\ groupset # <<>>
  BY <1>1 DEF GrouperInv, ScanInv
<1>3. /\ k \in Nat /\ k # 0 /\ DOMAIN groupset = 1 .. k /\ k \in 1 .. k
  BY <1>2, ClosedIs, EmptySeq DEF GroupsInv
<1>4. NumRecords \in Nat /\ Records = 1 .. NumRecords
  BY <1>2, Sizes DEF Records
<1>5. current_item \in Nat /\ current_item + 1 \in Records
  <2>1. /\ current_item \in 1 .. NumRecords + 1 /\ current_item # NumRecords + 1
        /\ current_item # NumRecords
    BY <1>1, <1>2 DEF ScanInv
  <2>2. QED
    BY <1>4, <2>1
<1>6. q \in Records
  BY <1>1, <1>2, <1>5, NextIsNew
<1>7. x = [h \in GroupFields |-> x[h]]
  <2>1. DOMAIN groupset[k] = GroupFields
    BY <1>2, <1>3 DEF GroupsInv
  <2> HIDE DEF k, q
  <2>2. QED
    BY <2>1, ExtendRecord
<1> HIDE DEF x
<1>8. AreRecords' /\ Len(groupset') = Len(groupset)
  BY <1>1, <1>2, <1>3, <1>7, RecordsKept
<1> HIDE DEF k, q
<1>9. member_files' \in Seq(Seq(Records)) /\ Len(member_files') = Len(member_files)
  <2> DEFINE S == Seq(Records)
             z == Append(member_files[k], q)
  <2>1. member_files \in Seq(S) /\ Len(member_files) = k
    BY DEF VariablesOK, k
  <2>2. member_files[k] \in Seq(Records)
    <3> HIDE DEF S
    <3>1. member_files[k] \in S
      BY <1>3, <2>1, ElementOfSeq
    <3>2. QED
      BY <3>1 DEF S
  <2>3. z \in S /\ member_files' = [member_files EXCEPT ![k] = z]
    BY <1>1, <1>6, <2>2, AppendFacts
  <2> HIDE DEF S, z
  <2>4. member_files' \in Seq(S) /\ Len(member_files') = Len(member_files)
    BY <1>3, <2>1, <2>3, ExceptSeq
  <2>5. QED
    BY <2>4 DEF S
<1>10. current_item + 1 \in 1 .. NumRecords + 1
  BY <1>4, <1>5
<1>11. QED
  BY <1>1, <1>8, <1>9, <1>10, VariablesStep DEF VariablesOK

\* by closing the group,
LEMMA VariablesSave ==
  ASSUME VariablesOK, GrouperInv, pc = "grow", SaveGroup
  PROVE  VariablesOK'
<1> DEFINE k == Len(groupset)
<1>1. PICK order \in ValueOrders(Last(groupset).members) :
        groupset' = [groupset EXCEPT ![k] = Completed(groupset[k], order)]
  BY DEF SaveGroup
<1> DEFINE x == Completed(groupset[k], order)
<1>2. /\ groupset' = [groupset EXCEPT ![k] = x]
      /\ current_item' = current_item + 1
      /\ UNCHANGED <<inputs, filtered, member_files, l>>
  BY <1>1 DEF SaveGroup
<1>3. GroupsInv /\ ScanInv /\ groupset # <<>>
  BY DEF GrouperInv, ScanInv
<1>4. /\ k \in Nat /\ k # 0 /\ DOMAIN groupset = 1 .. k /\ k \in 1 .. k
  BY <1>3, ClosedIs, EmptySeq DEF GroupsInv
<1>5. x = [h \in GroupFields |-> x[h]]
  <2>1. DOMAIN groupset[k] = GroupFields
    BY <1>3, <1>4 DEF GroupsInv
  <2> HIDE DEF k
  <2>2. QED
    BY <2>1, CompletedRecord
<1> HIDE DEF x
<1>6. AreRecords' /\ Len(groupset') = Len(groupset)
  BY <1>2, <1>3, <1>4, <1>5, RecordsKept
<1>7. current_item + 1 \in 1 .. NumRecords + 1
  <2>1. NumRecords \in Nat /\ current_item \in 1 .. NumRecords + 1
        /\ current_item # NumRecords + 1
    BY <1>3, Sizes DEF ScanInv
  <2>2. QED
    BY <2>1
<1>8. QED
  BY <1>2, <1>6, <1>7, VariablesStep DEF VariablesOK

\* by going on to the next clause,
LEMMA VariablesEnd ==
  ASSUME VariablesOK, GrouperInv, EndClause
  PROVE  VariablesOK'
<1>1. pc = "scan" /\ UNCHANGED <<inputs, filtered, groupset, member_files, current_item>>
  BY DEF EndClause
<1>2. /\ Len(clauseset) \in Nat /\ l \in Nat /\ 1 <= l /\ l <= Len(clauseset)
      /\ Rounds = IF Len(clauseset) = 0 THEN 1 ELSE Len(clauseset)
  BY <1>1, Sizes, RoundsIs DEF GrouperInv, ScanInv
<1>3. l' \in 1 .. Rounds
  <2>1. l' = l \/ (l # Len(clauseset) /\ l' = l + 1)
    BY DEF EndClause
  <2>2. QED
    BY <1>2, <2>1
<1>4. AreRecords'
  BY <1>1 DEF VariablesOK, AreRecords
<1>5. QED
  BY <1>1, <1>3, <1>4, VariablesStep DEF VariablesOK

\* and so by every step.
LEMMA VariablesNext == VariablesOK /\ GrouperInv /\ [Next]_vars => VariablesOK'
<1> SUFFICES ASSUME VariablesOK, GrouperInv, [Next]_vars PROVE VariablesOK'
  OBVIOUS
<1>1. CASE NothingToGroup
  BY <1>1, VariablesNothing DEF NothingToGroup
<1>2. CASE ClubAll
  BY <1>2, VariablesClubAll
<1>3. CASE SortClause
  BY <1>3, VariablesSort
<1>4. CASE OpenGroup
  BY <1>4, VariablesOpen
<1>5. CASE AddMember
  BY <1>5, VariablesAdd
<1>6. CASE MismatchEndsGroup
  BY <1>6, VariablesSave DEF MismatchEndsGroup
<1>7. CASE LastItemEndsGroup
  BY <1>7, VariablesSave DEF LastItemEndsGroup
<1>8. CASE EndClause
  BY <1>8, VariablesEnd
<1>9. CASE UNCHANGED vars
  BY <1>9, VariablesNothing DEF vars
<1>10. QED
  BY <1>1, <1>2, <1>3, <1>4, <1>5, <1>6, <1>7, <1>8, <1>9 DEF Next

\* Both invariants together give the types of all variables.
LEMMA TypeFromInv ==
  ASSUME EvaluatedInv, VariablesOK PROVE TypeOK
<1>1. GrouperInv /\ GroupsInv /\ ScanInv
  BY DEF EvaluatedInv, GrouperInv
<1>2. flow \in Seq(Flows) /\ pc \in {"start", "scan", "grow", "done"}
  BY <1>1 DEF ScanInv
<1>3. /\ groupset \in Seq([clause : Nat, members : Seq(Records), start_ts : Nat,
                           end_ts : Nat, aggrset : Seq(Seq(Words)),
                           record : [Fields -> Words]])
      /\ \A g \in DOMAIN groupset : IsRow(groupset[g].record)
  BY GroupsType DEF VariablesOK
<1>4. /\ clauseset \in ClauseSets
      /\ filtered \in [1 .. NumRecords + 1 -> Records \cup {Null}]
      /\ member_files \in Seq(Seq(Records))
      /\ Len(member_files) = Len(groupset)
      /\ l \in 1 .. Max({1, Len(clauseset)})
      /\ current_item \in 1 .. NumRecords + 1
  BY DEF VariablesOK, Rounds
<1>5. QED
  BY <1>2, <1>3, <1>4, Zenon DEF TypeOK

\* Every variable keeps its type: the aggregates are words however the sums and
\* the squares wrap around, and a group's record has values of the width of its
\* fields, whatever has been written to it.
THEOREM TypeCorrect == Spec => []TypeOK
<1>1. Init => EvaluatedInv /\ VariablesOK
  BY EvaluatedInit, VariablesInit
<1>2. EvaluatedInv /\ VariablesOK /\ [Next]_vars => (EvaluatedInv /\ VariablesOK)'
  BY EvaluatedNext, VariablesNext DEF EvaluatedInv
<1>3. EvaluatedInv /\ VariablesOK => TypeOK
  BY TypeFromInv
<1>4. QED
  BY <1>1, <1>2, <1>3, PTL DEF Spec

=============================================================================
