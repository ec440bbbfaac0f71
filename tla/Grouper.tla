------------------------------ MODULE Grouper -------------------------------
(***************************************************************************)
(* grouper(...) of src/src/grouper.c, run by the thread of one branch: for *)
(* every grouper clause the filtered recordset is sorted in place and      *)
(* scanned once; a scan opens a group with the record it has come to and   *)
(* extends it as long as the next record matches all terms.                *)
(*                                                                         *)
(* A record is its pointer, a number from 1 on; NULL, the sentinel at the  *)
(* end of the filtered recordset, is 0. A group that is finished gets a    *)
(* record too: the fields common to its members, and the aggregates that   *)
(* the query asks for.                                                     *)
(***************************************************************************)
EXTENDS Aggregates

CONSTANTS
  MaxRecords,    \* bound on the number of filtered records, a uint32_t
  Fields,        \* the fields of a record
  TypeRange,     \* the number of values a field may have
  Flows,         \* the records tried
  ClauseSets,    \* the grouper clauses tried: sequences of sequences of terms
  FilterFields,  \* the fields compared by the filter terms of the branch
  AggrTermset    \* aggr_clause_termset

Term == [offset1 : Fields, offset2 : Fields, op : Ops,
         dtype : {"no", "abs", "rel"}, delta : Words]

\* The fields of a record, each with values of its width.
IsRow(row) ==
  row \in [Fields -> Words] /\ \A f \in Fields : row[f] < TypeRange[f]

ASSUME GrouperAssumption ==
  /\ MaxRecords \in 0 .. WordRange - 1
  /\ TypeRange \in [Fields -> 1 .. WordRange]
  /\ Flows \subseteq [fields : [Fields -> Words], start : Nat, end : Nat]
  /\ \A record \in Flows : IsRow(record.fields)
  /\ ClauseSets \subseteq Seq(Seq(Term))
  /\ FilterFields \subseteq Fields
  /\ AggrTermset \in Seq([op : AggrOps, field : Fields])

VARIABLES
  flow,         \* flow[q]: the record behind the pointer q
  clauseset,    \* grouper_clauseset
  filtered,     \* fresult->filtered_recordset with its sentinel
  groupset,     \* gresult->groupset
  member_files, \* the streams "grouper-branch-b-group-g-records"
  l,            \* the clause being processed
  current_item, \* the subscript of *current_item in the sorted recordset
  pc

inputs == <<flow, clauseset>>
vars   == <<pc, l, current_item, inputs, filtered, groupset, member_files>>

Null       == 0
NumRecords == Len(flow)
Records    == 1 .. NumRecords

\* last_item, the last place before the sentinel.
LastItem == NumRecords

Init ==
  /\ flow \in UNION {[1 .. n -> Flows] : n \in 0 .. MaxRecords}
  /\ clauseset \in ClauseSets
  /\ filtered = [p \in 1 .. NumRecords + 1 |->
                   IF p <= NumRecords THEN p ELSE Null]
  /\ groupset = <<>>
  /\ member_files = <<>>
  /\ l = 1
  /\ current_item = 1
  /\ pc = "start"

-----------------------------------------------------------------------------
(* The order of qsort_comp: lexicographic, by the right-hand fields of the *)
(* terms of the clause.                                                    *)

SortKey(c, q) == [j \in DOMAIN clauseset[c] |->
                    flow[q].fields[clauseset[c][j].offset2]]

\* A mutant of Before: only the first term counts.
BeforeByFirstTerm(c, q, r) ==
  clauseset[c] # <<>> /\ SortKey(c, q)[1] < SortKey(c, r)[1]

Before(c, q, r) ==
  \E j \in DOMAIN clauseset[c] :
    /\ SortKey(c, q)[j] < SortKey(c, r)[j]
    /\ \A h \in 1 .. j - 1 : SortKey(c, q)[h] = SortKey(c, r)[h]

\* qsort_r leaves a permutation in this order; that of ties is up to it.
SortedOrders(c) ==
  {order \in Bijection(Records, Records) :
     \A m, n \in Records : m < n => ~ Before(c, order[n], order[m])}

-----------------------------------------------------------------------------
(* The fields saved in the aggregation record of a group.                  *)

TermFields(clause) ==
  UNION {{clause[j].offset1, clause[j].offset2} : j \in DOMAIN clause}

\* Those of the filter terms and those of the terms of all grouper clauses.
CommonFields ==
  FilterFields \cup UNION {TermFields(clauseset[c]) : c \in DOMAIN clauseset}

FieldValues(f, members) ==
  [n \in DOMAIN members |-> flow[members[n]].fields[f]]

\* aggr_static_... takes them from the first member, the rest stays 0.
NoFields == [f \in Fields |-> 0]
Common(members) == [f \in Fields |-> IF f \in CommonFields
                                     THEN flow[members[1]].fields[f] ELSE 0]

\* The fields aggregated, and the orders qsort may bring their values into.
AggrFields == {AggrTermset[j].field : j \in DOMAIN AggrTermset}
ValueOrders(members) ==
  {order \in [AggrFields -> [DOMAIN members -> DOMAIN members]] :
     \A f \in AggrFields : order[f] \in SortOrders(FieldValues(f, members))}

\* grouper_aggregations: a term that a filter or grouper term names as well is
\* told so, but is evaluated all the same.
Aggregations(members, order) ==
  [j \in DOMAIN AggrTermset |->
     LET term == AggrTermset[j]
     IN Aggregate(term.op, term.field \in CommonFields,
                  FieldValues(term.field, members), order[term.field])]

\* The record of a group: for every field the last term that writes it counts.
Record(members, aggrset) ==
  [f \in Fields |->
     LET writers == {j \in DOMAIN AggrTermset :
                       AggrTermset[j].field = f /\ WritesField(AggrTermset[j].op)}
         last    == Max(writers)
     IN IF writers = {} THEN Common(members)[f]
        ELSE FieldValue(AggrTermset[last].op, f \in CommonFields, aggrset[last])
               % TypeRange[f]]

\* A group at its end, with the fields and aggregates of its members.
Completed(group, order) ==
  LET aggrset == Aggregations(group.members, order)
  IN [group EXCEPT !.aggrset = aggrset,
                   !.record = Record(group.members, aggrset)]

-----------------------------------------------------------------------------
NothingToGroup ==
  /\ pc = "start"
  /\ NumRecords = 0
  /\ pc' = "done"
  /\ UNCHANGED <<inputs, filtered, groupset, member_files, l, current_item>>

\* No clause: one group of all the records, and an empty file of members.
ClubAll ==
  /\ pc = "start"
  /\ NumRecords > 0
  /\ clauseset = <<>>
  /\ LET members == [p \in Records |-> filtered[p]]
         group == [clause   |-> 1,
                   members  |-> members,
                   start_ts |-> Min({flow[q].start : q \in Records}),
                   end_ts   |-> Max({flow[q].end : q \in Records}),
                   aggrset  |-> <<>>,
                   record   |-> NoFields]
     IN \E order \in ValueOrders(members) :
          groupset' = <<Completed(group, order)>>
  /\ member_files' = << <<>> >>
  /\ pc' = "done"
  /\ UNCHANGED <<inputs, filtered, l, current_item>>

\* get_grouper_intermediates: the recordset is sorted in place, and the scan
\* starts at its first record.
SortClause ==
  /\ pc = "start"
  /\ NumRecords > 0
  /\ l <= Len(clauseset)
  /\ \E order \in SortedOrders(l) : filtered' = Append(order, Null)
  /\ current_item' = 1
  /\ pc' = "scan"
  /\ UNCHANGED <<inputs, groupset, member_files, l>>

\* The next group starts with *current_item, which its file does not get.
OpenGroup ==
  /\ pc = "scan"
  /\ filtered[current_item] # Null
  /\ LET q == filtered[current_item]
     IN groupset' = Append(groupset, [clause   |-> l,
                                      members  |-> <<q>>,
                                      start_ts |-> flow[q].start,
                                      end_ts   |-> flow[q].end,
                                      aggrset  |-> <<>>,
                                      record   |-> NoFields])
  /\ member_files' = Append(member_files, <<>>)
  /\ pc' = "grow"
  /\ UNCHANGED <<inputs, filtered, l, current_item>>

\* A mutant of Compared: a relative delta looks at the first member as well.
ComparedFirst(term, members) == members[1]

\* The member of the group a term looks at.
Compared(term, members) ==
  IF term.dtype = "rel" THEN Last(members) ELSE members[1]

\* A comparator without a delta is one with a delta of 0.
TermMatches(term, members, q) ==
  Compare(term.op,
          flow[Compared(term, members)].fields[term.offset1],
          flow[q].fields[term.offset2],
          IF term.dtype = "no" THEN 0 ELSE term.delta)

\* Whether all terms of the clause hold between the group and the record q.
Matches(members, q) ==
  \A j \in DOMAIN clauseset[l] : TermMatches(clauseset[l][j], members, q)

\* A mutant of Extend: a timestamp is compared with that of the member before.
ExtendLast(group, q) ==
  [group EXCEPT !.members = Append(@, q),
                !.start_ts = IF flow[q].start < flow[Last(group.members)].start
                             THEN flow[q].start ELSE @,
                !.end_ts = IF flow[q].end > flow[Last(group.members)].end
                           THEN flow[q].end ELSE @]

Extend(group, q) ==
  [group EXCEPT !.members = Append(@, q),
                !.start_ts = Min({@, flow[q].start}),
                !.end_ts = Max({@, flow[q].end})]

AddMember ==
  /\ pc = "grow"
  /\ current_item # LastItem
  /\ LET q == filtered[current_item + 1]
     IN /\ Matches(Last(groupset).members, q)
        /\ groupset' = [groupset EXCEPT ![Len(groupset)] = Extend(@, q)]
        /\ member_files' = [member_files EXCEPT ![Len(groupset)] =
                                                  Append(@, q)]
  /\ current_item' = current_item + 1
  /\ UNCHANGED <<inputs, filtered, l, pc>>

\* The effect of leaving the inner loop: the record of the group is completed
\* and the scan moves on.
SaveGroup ==
  /\ \E order \in ValueOrders(Last(groupset).members) :
       groupset' = [groupset EXCEPT ![Len(groupset)] = Completed(@, order)]
  /\ current_item' = current_item + 1
  /\ pc' = "scan"
  /\ UNCHANGED <<inputs, filtered, member_files, l>>

\* A mutant of MismatchEndsGroup: current_item is not taken back to the last
\* record that matched.
MismatchSkipsRecord ==
  /\ pc = "grow"
  /\ current_item # LastItem
  /\ ~ Matches(Last(groupset).members, filtered[current_item + 1])
  /\ \E order \in ValueOrders(Last(groupset).members) :
       groupset' = [groupset EXCEPT ![Len(groupset)] = Completed(@, order)]
  /\ current_item' = current_item + 2
  /\ pc' = "scan"
  /\ UNCHANGED <<inputs, filtered, member_files, l>>

\* The next record does not match.
MismatchEndsGroup ==
  /\ pc = "grow"
  /\ current_item # LastItem
  /\ ~ Matches(Last(groupset).members, filtered[current_item + 1])
  /\ SaveGroup

\* There is no next record.
LastItemEndsGroup ==
  /\ pc = "grow"
  /\ current_item = LastItem
  /\ SaveGroup

\* A mutant of EndClause: the test for the last clause is off by one.
EndClauseOneMore ==
  /\ pc = "scan"
  /\ filtered[current_item] = Null
  /\ IF l > Len(clauseset) THEN pc' = "done" /\ UNCHANGED l
                           ELSE pc' = "start" /\ l' = l + 1
  /\ UNCHANGED <<inputs, filtered, groupset, member_files, current_item>>

\* The sentinel ends the scan, and the last clause the grouper.
EndClause ==
  /\ pc = "scan"
  /\ filtered[current_item] = Null
  /\ IF l = Len(clauseset) THEN pc' = "done" /\ UNCHANGED l
                           ELSE pc' = "start" /\ l' = l + 1
  /\ UNCHANGED <<inputs, filtered, groupset, member_files, current_item>>

Next ==
  \/ NothingToGroup
  \/ ClubAll
  \/ SortClause
  \/ OpenGroup
  \/ AddMember
  \/ MismatchEndsGroup
  \/ LastItemEndsGroup
  \/ EndClause

Spec == Init /\ [][Next]_vars /\ WF_vars(Next)

-----------------------------------------------------------------------------
(* Properties                                                              *)

TypeOK ==
  /\ flow \in Seq(Flows)
  /\ clauseset \in ClauseSets
  /\ filtered \in [1 .. NumRecords + 1 -> Records \cup {Null}]
  /\ groupset \in Seq([clause : Nat, members : Seq(Records), start_ts : Nat,
                       end_ts : Nat, aggrset : Seq(Seq(Words)),
                       record : [Fields -> Words]])
  /\ \A g \in DOMAIN groupset : IsRow(groupset[g].record)
  /\ member_files \in Seq(Seq(Records))
  /\ Len(member_files) = Len(groupset)
  /\ l \in 1 .. Max({1, Len(clauseset)})
  /\ current_item \in 1 .. NumRecords + 1
  /\ pc \in {"start", "scan", "grow", "done"}

Members(g) == Range(groupset[g].members)

GroupsOf(c) == {g \in DOMAIN groupset : groupset[g].clause = c}

\* The clauses whose scan has ended.
Finished(c) == c < l \/ (pc = "done" /\ c = l)

\* The records the scan of the clause c has taken so far.
Taken(c) ==
  CASE Finished(c) -> Records
    [] pc = "scan" /\ c = l -> {filtered[p] : p \in 1 .. current_item - 1}
    [] pc = "grow" /\ c = l -> {filtered[p] : p \in 1 .. current_item}
    [] OTHER -> {}

\* The walk over the recordset, which a group continues and which goes back
\* one step when a record does not match, takes every record exactly once for
\* each clause, the first and the last one included.
TakenOnce(c) ==
  /\ UNION {Members(g) : g \in GroupsOf(c)} = Taken(c)
  /\ \A g, h \in GroupsOf(c) :
       \A m \in DOMAIN groupset[g].members, n \in DOMAIN groupset[h].members :
         groupset[g].members[m] = groupset[h].members[n] => g = h /\ m = n
GroupedOnce == \A c \in 1 .. l : TakenOnce(c)

\* The terms of a clause that compare a field with itself for equality.
IsKey(term) ==
  /\ term.offset1 = term.offset2
  /\ term.op = "eq"
  /\ term.dtype = "no" \/ term.delta = 0

\* When all terms of a clause ask for equality its groups are the classes of
\* the records with equal keys: a scan that only looks at the next record
\* would miss some, had the sort not brought them together.
GroupsAreClasses ==
  \A c \in DOMAIN clauseset :
    (Finished(c) /\ \A j \in DOMAIN clauseset[c] : IsKey(clauseset[c][j])) =>
      \A g, h \in GroupsOf(c) : \A q \in Members(g), r \in Members(h) :
        g = h <=> SortKey(c, q) = SortKey(c, r)

\* The single term of a clause that compares a field with itself up to a delta,
\* relative to the record before.
IsRelative(clause) ==
  /\ Len(clause) = 1
  /\ clause[1].op = "eq"
  /\ clause[1].dtype = "rel"
  /\ clause[1].offset1 = clause[1].offset2

\* With a relative delta every group is a chain of records each within the delta
\* of the one before, and two records within the delta are never torn apart, but
\* for the ends of the range, where the comparator's bound wraps around: a
\* record whose field is less than the delta away from 0 or from the largest
\* number matches no record at all, not even one with the same field. Only a
\* delta of half the range or more leaves some that the wrapped bound reaches.
NearStayTogether ==
  \A c \in DOMAIN clauseset :
    (Finished(c) /\ IsRelative(clauseset[c])) =>
      LET key(q) == SortKey(c, q)[1]
          d      == clauseset[c][1].delta
      IN /\ \A g, h \in GroupsOf(c) : \A q \in Members(g), r \in Members(h) :
              (g # h /\ key(q) <= key(r)) =>
                \/ key(r) > key(q) + d
                \/ key(q) < d
                \/ key(r) + d >= WordRange
         /\ \A g \in GroupsOf(c) :
              LET m == groupset[g].members
              IN \A n \in 2 .. Len(m) :
                   /\ key(m[n]) <= key(m[n - 1]) + d
                   /\ key(m[n]) >= d
                   /\ \/ key(m[n]) + d < WordRange
                      \/ key(m[n - 1]) <= key(m[n]) + d - WordRange

\* A group lasts from the earliest start to the latest end of its members, at
\* every moment of its growth.
BoundsExact ==
  \A g \in DOMAIN groupset :
    /\ groupset[g].start_ts = Min({flow[q].start : q \in Members(g)})
    /\ groupset[g].end_ts = Max({flow[q].end : q \in Members(g)})

\* The groups that are not being extended any more.
Closed == IF pc = "grow" THEN 1 .. Len(groupset) - 1 ELSE DOMAIN groupset

\* What grouper.c:711 takes for granted of the fields saved in the aggregation
\* record when the grouper terms are equalities: "each record member has the
\* same value for that field in the group".
CommonFieldsShared ==
  \A g \in Closed :
    (\A c \in DOMAIN clauseset :
       \A j \in DOMAIN clauseset[c] : IsKey(clauseset[c][j])) =>
      \A c \in DOMAIN clauseset : \A f \in TermFields(clauseset[c]) :
        \A q \in Members(g) : flow[q].fields[f] = groupset[g].record[f]

Total(members, f) == MapThenSumSet(LAMBDA q : flow[q].fields[f], members)

\* What a statistic of the members should be, told without their order: "or" and
\* "xor" bit by bit, the median by its rank, the union as a set. Of "min", "max",
\* "prod" and "and" only what the code gives can be said.
IsAggregate(op, result, members, f) ==
  LET value(q) == flow[q].fields[f]
      n     == Cardinality(members)
      sum   == Total(members, f)
      small == \A q \in members : value(q) < HalfRange
      v     == result[1]
      with(k) == Cardinality({q \in members : k \in Bits[value(q)]})
  IN CASE op = "count"  -> v = n
       [] op = "sum"    -> (v - sum) % WordRange = 0
       [] op = "mean"   -> sum < WordRange => v * n <= sum /\ sum < (v + 1) * n
       [] op = "or"     -> Bits[v] = {k \in 0 .. WordBits - 1 : with(k) > 0}
       [] op = "xor"    -> Bits[v] = {k \in 0 .. WordBits - 1 : with(k) % 2 = 1}
       [] op = "median" ->
            small => /\ \E q \in members : value(q) = v
                     /\ 2 * Cardinality({q \in members : value(q) < v}) <= n
                     /\ 2 * Cardinality({q \in members : value(q) > v}) < n
       [] op = "union"  ->
            /\ Range(result) = {value(q) : q \in members}
            /\ small => Len(result) = Cardinality(Range(result))
       [] op \in {"min", "max"}  -> \E q \in members : v = value(q)
       [] op \in {"prod", "and"} -> v = 0
       [] OTHER -> TRUE

\* The aggregates of a closed group are those of all its members, and of no
\* other record, whatever path the scan has taken to collect them.
AggregatesExact ==
  \A g \in Closed : \A j \in DOMAIN AggrTermset :
    IsAggregate(AggrTermset[j].op, groupset[g].aggrset[j], Members(g),
                AggrTermset[j].field)

\* What grouper.c:59-61 announces: "aggregate the fields, but ignore fields used
\* in grouper and filter module". Such a field keeps the value of the members.
CommonFieldsKept ==
  \A g \in Closed : \A f \in CommonFields :
    groupset[g].record[f] = flow[groupset[g].members[1]].fields[f]

\* What grouper.c:441 opens the stream of a group for: "group members".
FilesHoldMembers ==
  \A g \in Closed : member_files[g] = groupset[g].members

-----------------------------------------------------------------------------
(* Grouper implements Partition: a group counts once it is closed.         *)

Rounds == Max({1, Len(clauseset)})
TakenBy(groups) == UNION {Members(g) : g \in groups}
NotCutYet == Records \ TakenBy(Closed \cap GroupsOf(l))
Blocks == {<<groupset[g].clause, Members(g)>> : g \in Closed}

P == INSTANCE Partition WITH
  all      <- Records,
  rounds   <- Rounds,
  round    <- l,
  rest     <- NotCutYet,
  blocks   <- Blocks,
  finished <- pc = "done"

\* Clause by clause, each record not yet in a closed group gets into exactly
\* one, and the grouper ends when the last clause has used up all of them.
ImplementsPartition == P!PartitionSpec

-----------------------------------------------------------------------------
(* The invariant from which GroupedOnce and BoundsExact follow. What the    *)
(* comparators and the aggregates compute makes no difference to it.        *)

GroupFields == {"clause", "members", "start_ts", "end_ts", "aggrset", "record"}

\* Groups have members, and belong to a clause whose scan has begun.
GroupsInv ==
  /\ groupset \in Seq(Range(groupset))
  /\ \A g \in DOMAIN groupset :
       /\ DOMAIN groupset[g] = GroupFields
       /\ groupset[g].members \in Seq(Records)
       /\ groupset[g].members # <<>>
       /\ groupset[g].clause \in 1 .. l
       /\ pc = "start" => groupset[g].clause < l

\* A scan goes over all records, each in one place, to the sentinel; the group
\* it extends is the last one.
ScanInv ==
  /\ flow \in Seq(Flows)
  /\ clauseset \in Seq(Seq(Term))
  /\ l \in Nat \ {0}
  /\ pc \in {"start", "scan", "grow", "done"}
  /\ pc \in {"scan", "grow"} =>
       /\ l <= Len(clauseset)
       /\ filtered[NumRecords + 1] = Null
       /\ [p \in Records |-> filtered[p]] \in Bijection(Records, Records)
       /\ current_item \in 1 .. NumRecords + 1
  /\ pc = "grow" =>
       /\ current_item # NumRecords + 1
       /\ groupset # <<>>
       /\ Last(groupset).clause = l
  /\ clauseset = <<>> =>
       /\ l = 1
       /\ pc = "start" => \A p \in Records : filtered[p] = p
  /\ pc = "start" /\ clauseset # <<>> => l <= Len(clauseset)

IsMin(x, S) == x \in S /\ \A y \in S : x <= y
IsMax(x, S) == x \in S /\ \A y \in S : x >= y

\* The bounds of a group that a scan makes, without those of ClubAll.
BoundsInv ==
  IF clauseset = <<>> THEN BoundsExact
  ELSE \A g \in DOMAIN groupset :
         /\ IsMin(groupset[g].start_ts, {flow[q].start : q \in Members(g)})
         /\ IsMax(groupset[g].end_ts, {flow[q].end : q \in Members(g)})

GrouperInv == GroupsInv /\ ScanInv /\ GroupedOnce /\ BoundsInv

-----------------------------------------------------------------------------
(* The invariant from which AggregatesExact and the types of the groups    *)
(* follow.                                                                 *)

\* Some order of its values leads to the aggregates and the record of a group.
Evaluated(g) ==
  \E order \in ValueOrders(groupset[g].members) :
    /\ groupset[g].aggrset = Aggregations(groupset[g].members, order)
    /\ groupset[g].record = Record(groupset[g].members, groupset[g].aggrset)

\* Every closed group is evaluated, an open one is not yet.
EvaluatedInv ==
  /\ GrouperInv
  /\ NumRecords <= MaxRecords
  /\ \A g \in DOMAIN groupset :
       IF g \in Closed THEN Evaluated(g)
       ELSE groupset[g].aggrset = <<>> /\ groupset[g].record = NoFields

-----------------------------------------------------------------------------
(* The invariant from which GroupsAreClasses and NearStayTogether follow:  *)
(* what is behind the scan is separate from all that is before it.         *)

\* The recordset is in order while it is scanned, and the open group has come
\* as far as the scan.
OrderInv ==
  /\ pc \in {"scan", "grow"} =>
       \A m, n \in Records : m < n => ~ Before(l, filtered[n], filtered[m])
  /\ pc = "grow" => Last(Last(groupset).members) = filtered[current_item]

AllKeys(clause) == \A j \in DOMAIN clause : IsKey(clause[j])

\* How far two records in order are apart that are not grouped together.
Apart(c, q, r) ==
  LET d == clauseset[c][1].delta
  IN SortKey(c, q)[1] <= SortKey(c, r)[1] =>
       \/ SortKey(c, r)[1] > SortKey(c, q)[1] + d
       \/ SortKey(c, q)[1] < d
       \/ SortKey(c, r)[1] + d >= WordRange

Separate(c, q, r) ==
  /\ AllKeys(clauseset[c]) => SortKey(c, q) # SortKey(c, r)
  /\ IsRelative(clauseset[c]) => Apart(c, q, r) /\ Apart(c, r, q)

\* A link of a chain: r can follow q in a group.
Linked(c, q, r) ==
  LET d == clauseset[c][1].delta
      x == SortKey(c, q)[1]
      y == SortKey(c, r)[1]
  IN y <= x + d /\ y >= d /\ (y + d < WordRange \/ x <= y + d - WordRange)

Together(c, m) ==
  /\ AllKeys(clauseset[c]) =>
       \A n \in DOMAIN m : SortKey(c, m[n]) = SortKey(c, m[1])
  /\ IsRelative(clauseset[c]) =>
       \A n \in 2 .. Len(m) : Linked(c, m[n - 1], m[n])

\* The groups of the clause c hold together, and one that is closed is separate
\* from the records it does not have.
ClassesInv(c) ==
  \A g \in GroupsOf(c) :
    /\ Together(c, groupset[g].members)
    /\ g \in Closed =>
         \A q \in Members(g), r \in Records \ Members(g) : Separate(c, q, r)

NeighboursInv ==
  /\ GrouperInv
  /\ OrderInv
  /\ \A c \in DOMAIN clauseset : ClassesInv(c)

=============================================================================
