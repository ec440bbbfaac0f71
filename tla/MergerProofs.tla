---------------------------- MODULE MergerProofs ----------------------------
(***************************************************************************)
(* The merger passes through all tuples of groups, once each and in order, *)
(* and implements the join of TupleJoin, for any number of branches, groups *)
(* and clauses.                                                            *)
(***************************************************************************)
EXTENDS Merger, Integers, TLAPS, WellFoundedInduction, SequenceTheorems,
        FiniteSetTheorems

-----------------------------------------------------------------------------
(* The lexicographic order.                                                *)

Below == {p \in Nat \X Nat : p[1] < p[2]}

\* A non-empty set of naturals has a least element.
LEMMA LeastElement ==
  ASSUME NEW S \in SUBSET Nat, S # {}
  PROVE  \E m \in S : \A n \in S : m <= n
<1>1. IsWellFoundedOn(Below, Nat)
  BY NatLessThanWellFounded DEF Below, OpToRel
<1>2. PICK m \in S : \A n \in S : ~ (<<n, m>> \in Below)
  BY <1>1, WFMin
<1>3. ASSUME NEW n \in S PROVE m <= n
  <2>1. <<n, m>> \in Nat \X Nat /\ <<n, m>> \notin Below
    BY <1>2
  <2>2. ~ (n < m)
    BY <2>1 DEF Below
  <2>3. QED
    BY <2>2
<1>4. QED
  BY <1>3

\* Two different tuples have a first branch in which they differ.
LEMMA FirstDifference ==
  ASSUME NEW s \in [Branches -> Nat], NEW t \in [Branches -> Nat], s # t
  PROVE  \E b \in Branches : s[b] # t[b] /\ \A c \in 1 .. b - 1 : s[c] = t[c]
<1> DEFINE D == {b \in Branches : s[b] # t[b]}
<1>1. \E b \in Branches : s[b] # t[b]
  <2>1. SUFFICES ASSUME \A b \in Branches : s[b] = t[b] PROVE s = t
    OBVIOUS
  <2>2. s = [b \in Branches |-> s[b]] /\ t = [b \in Branches |-> t[b]]
    OBVIOUS
  <2>3. QED
    BY <2>1, <2>2, Zenon
<1>2. D \in SUBSET Nat /\ D # {}
  BY <1>1 DEF Branches
<1>3. PICK b \in D : \A c \in D : b <= c
  <2> HIDE DEF D
  <2> QED BY <1>2, LeastElement
<1>4. ASSUME NEW c \in 1 .. b - 1 PROVE s[c] = t[c]
  BY <1>3, MergerAssumption DEF Branches
<1>5. QED
  BY <1>3, <1>4

\* The order read off the first difference.
LEMMA LexLessIff ==
  ASSUME NEW s \in [Branches -> Nat], NEW t \in [Branches -> Nat]
  PROVE  LexLess(s, t) <=>
           \E b \in Branches : s[b] < t[b] /\ \A c \in 1 .. b - 1 : s[c] = t[c]
<1>1. ASSUME LexLess(s, t)
      PROVE  \E b \in Branches :
               s[b] < t[b] /\ \A c \in 1 .. b - 1 : s[c] = t[c]
  <2>1. PICK b \in Branches : s[b] # t[b] /\ \A c \in 1 .. b - 1 : s[c] = t[c]
    BY <1>1, FirstDifference DEF LexLess
  <2>2. s[b] <= t[b]
    BY <1>1, <2>1 DEF LexLess, LexLeq
  <2>3. QED
    BY <2>1, <2>2
<1>2. ASSUME NEW b \in Branches, s[b] < t[b],
             \A c \in 1 .. b - 1 : s[c] = t[c]
      PROVE  LexLess(s, t)
  <2>1. ASSUME NEW d \in Branches, \A c \in 1 .. d - 1 : s[c] = t[c]
        PROVE  s[d] <= t[d]
    <3>1. CASE d < b
      BY <3>1, <1>2, MergerAssumption DEF Branches
    <3>2. CASE d = b
      BY <3>2, <1>2
    <3>3. CASE d > b
      BY <3>3, <1>2, <2>1, MergerAssumption DEF Branches
    <3>4. QED
      BY <3>1, <3>2, <3>3, MergerAssumption DEF Branches
  <2>2. QED
    BY <1>2, <2>1 DEF LexLess, LexLeq
<1>3. QED
  BY <1>1, <1>2

\* The order of the tuples is transitive.
LEMMA LexLessTransitive ==
  ASSUME NEW s \in [Branches -> Nat], NEW t \in [Branches -> Nat],
         NEW u \in [Branches -> Nat], LexLess(s, t), LexLess(t, u)
  PROVE  LexLess(s, u)
<1>1. PICK b \in Branches : s[b] < t[b] /\ \A c \in 1 .. b - 1 : s[c] = t[c]
  BY LexLessIff
<1>2. PICK d \in Branches : t[d] < u[d] /\ \A c \in 1 .. d - 1 : t[c] = u[c]
  BY LexLessIff
<1>3. CASE b <= d
  <2>1. \A c \in 1 .. b - 1 : s[c] = u[c]
    BY <1>1, <1>2, <1>3, MergerAssumption DEF Branches
  <2>2. t[b] <= u[b]
    BY <1>2, <1>3, MergerAssumption DEF Branches
  <2>3. s[b] < u[b]
    BY <1>1, <2>2
  <2>4. QED
    BY <2>1, <2>3, LexLessIff
<1>4. CASE d < b
  <2>1. s[d] < u[d] /\ \A c \in 1 .. d - 1 : s[c] = u[c]
    BY <1>1, <1>2, <1>4, MergerAssumption DEF Branches
  <2>2. QED
    BY <2>1, LexLessIff
<1>5. QED
  BY <1>3, <1>4, MergerAssumption DEF Branches

\* No two tuples are each before the other.
LEMMA LexLessAsymmetric ==
  ASSUME NEW s \in [Branches -> Nat], NEW t \in [Branches -> Nat],
         LexLess(s, t), LexLess(t, s)
  PROVE  FALSE
<1>1. LexLess(s, s)
  BY LexLessTransitive
<1>2. QED
  BY <1>1 DEF LexLess

\* Any two tuples are comparable.
LEMMA LexTotal ==
  ASSUME NEW s \in [Branches -> Nat], NEW t \in [Branches -> Nat]
  PROVE  LexLeq(s, t) <=> ~ LexLess(t, s)
<1>1. LexLeq(s, s)
  BY DEF LexLeq, Branches
<1>2. CASE s = t
  BY <1>1, <1>2 DEF LexLess
<1>3. CASE s # t
  <2>1. PICK b \in Branches : s[b] # t[b] /\ \A c \in 1 .. b - 1 : s[c] = t[c]
    BY <1>3, FirstDifference
  <2>2. LexLess(s, t) \/ LexLess(t, s)
    <3>1. CASE s[b] < t[b]
      BY <3>1, <2>1, LexLessIff
    <3>2. CASE t[b] < s[b]
      BY <3>2, <2>1, LexLessIff
    <3>3. QED
      BY <2>1, <3>1, <3>2
  <2>3. QED
    BY <1>3, <2>2, LexLessAsymmetric DEF LexLess
<1>4. QED
  BY <1>2, <1>3

\* iter_next moves to the immediate successor: the tuples of groups up to the
\* old position are those before the new one.
LEMMA Successor ==
  ASSUME NEW s \in [Branches -> Nat], NEW t \in [Branches -> Nat],
         NEW b \in Branches,
         \A c \in Branches : s[c] >= 1,
         \A c \in Branches : c > b => s[c] <= t[c]
  PROVE  LexLeq(s, t) <=> LexLess(s, Advanced(t, b))
<1> DEFINE u == Advanced(t, b)
<1>1. /\ u \in [Branches -> Nat]
      /\ \A c \in Branches : /\ c < b => u[c] = t[c]
                             /\ c = b => u[c] = t[c] + 1
                             /\ c > b => u[c] = 1
  BY MergerAssumption DEF Advanced, Branches
<1> HIDE DEF u
<1>2. LexLess(t, u)
  <2>1. t[b] < u[b] /\ \A c \in 1 .. b - 1 : t[c] = u[c]
    BY <1>1, MergerAssumption DEF Branches
  <2>2. QED
    BY <1>1, <2>1, LexLessIff
<1>3. ASSUME LexLeq(s, t) PROVE LexLess(s, u)
  <2>1. CASE s = t
    BY <1>2, <2>1
  <2>2. CASE s # t
    BY <1>1, <1>2, <1>3, <2>2, LexLessTransitive DEF LexLess
  <2>3. QED
    BY <2>1, <2>2
<1>4. ASSUME LexLess(s, u) PROVE LexLeq(s, t)
  <2>1. PICK d \in Branches : s[d] < u[d] /\ \A c \in 1 .. d - 1 : s[c] = u[c]
    BY <1>1, <1>4, LexLessIff
  <2>2. d <= b
    BY <1>1, <2>1, MergerAssumption DEF Branches
  <2>3. \A c \in 1 .. d - 1 : s[c] = t[c]
    BY <1>1, <2>1, <2>2, MergerAssumption DEF Branches
  <2>4. CASE s[d] < t[d]
    BY <2>3, <2>4, LexLessIff DEF LexLess
  <2>5. CASE ~ (s[d] < t[d])
    <3>1. d = b /\ s[b] = t[b]
      BY <1>1, <2>1, <2>2, <2>5, MergerAssumption DEF Branches
    <3>2. \A c \in Branches : s[c] <= t[c]
      BY <2>3, <3>1, MergerAssumption DEF Branches
    <3>3. QED
      BY <3>2 DEF LexLeq
  <2>6. QED
    BY <2>4, <2>5
<1>5. QED
  BY <1>3, <1>4 DEF u

\* What Append does to the set of the elements and to an ordered sequence.
LEMMA AppendRange ==
  ASSUME NEW S, NEW q \in Seq(S), NEW x \in S
  PROVE  {Append(q, x)[i] : i \in DOMAIN Append(q, x)}
           = {q[i] : i \in DOMAIN q} \cup {x}
<1>1. /\ Append(q, x) \in Seq(S)
      /\ DOMAIN Append(q, x) = 1 .. Len(q) + 1
      /\ DOMAIN q = 1 .. Len(q)
      /\ \A i \in 1 .. Len(q) : Append(q, x)[i] = q[i]
      /\ Append(q, x)[Len(q) + 1] = x
  BY AppendProperties, LenProperties
<1>2. \A i \in 1 .. Len(q) + 1 : i \in 1 .. Len(q) \/ i = Len(q) + 1
  BY LenProperties
<1>3. \A i \in 1 .. Len(q) : i \in 1 .. Len(q) + 1
  BY LenProperties
<1>4. Len(q) + 1 \in 1 .. Len(q) + 1
  BY LenProperties
<1>5. QED
  BY <1>1, <1>2, <1>3, <1>4

\* A sequence in order stays so when a greater element is appended.
LEMMA AppendOrdered ==
  ASSUME NEW q \in Seq([Branches -> Groups]), NEW x \in [Branches -> Groups],
         \A i, j \in DOMAIN q : i < j => LexLess(q[i], q[j]),
         \A i \in DOMAIN q : LexLess(q[i], x)
  PROVE  \A i, j \in DOMAIN Append(q, x) :
           i < j => LexLess(Append(q, x)[i], Append(q, x)[j])
<1>1. /\ DOMAIN Append(q, x) = 1 .. Len(q) + 1
      /\ DOMAIN q = 1 .. Len(q)
      /\ \A i \in 1 .. Len(q) : Append(q, x)[i] = q[i]
      /\ Append(q, x)[Len(q) + 1] = x
  BY AppendProperties, LenProperties
<1>2. TAKE i, j \in DOMAIN Append(q, x)
<1>3. HAVE i < j
<1>4. i \in 1 .. Len(q) /\ (j \in 1 .. Len(q) \/ j = Len(q) + 1)
  BY <1>1, <1>2, <1>3, LenProperties
<1>5. QED
  BY <1>1, <1>3, <1>4

-----------------------------------------------------------------------------
(* Type correctness.                                                       *)

\* The merger starts with its variables in their types.
LEMMA TypeInit == Init => TypeOK
<1> SUFFICES ASSUME Init PROVE TypeOK
  OBVIOUS
<1>1. tuple \in [Branches -> 0 .. MaxGroups]
  BY MergerAssumption DEF Init
<1>2. <<>> \in Seq([Branches -> Groups])
  BY EmptySeq
<1>3. 0 \in 0 .. IndexRange - 1 /\ 1 \in Nat \ {0}
  BY MergerAssumption
<1>4. group_tuples \in Seq([Branches -> Groups])
      /\ to_be_merged \in Seq([Branches -> Groups])
  BY <1>2 DEF Init
<1>5. QED
  BY <1>1, <1>3, <1>4 DEF Init, TypeOK

\* The iterator never leaves the tuples of groups.
LEMMA AdvancedType ==
  ASSUME TypeOK, IteratorInv, pc = "iter_next", NEW b \in Branches, IsPivot(b)
  PROVE  /\ Advanced(tuple, b) \in [Branches -> Groups]
         /\ Advanced(tuple, b) \in AllTuples
<1> DEFINE u == Advanced(tuple, b)
<1>1. ASSUME NEW c \in Branches
      PROVE  u[c] \in 1 .. num_filtered_groups[c]
  <2>1. CASE c < b
    BY <2>1, MergerAssumption DEF TypeOK, IteratorInv, Branches, Advanced
  <2>2. CASE c = b
    BY <2>2, MergerAssumption DEF TypeOK, IsPivot, Branches, Advanced
  <2>3. CASE c > b
    BY <2>3, MergerAssumption DEF TypeOK, IteratorInv, Branches, Advanced
  <2>4. QED
    BY <2>1, <2>2, <2>3, MergerAssumption DEF Branches
<1>2. \A c \in Branches : u[c] \in Groups /\ u[c] <= num_filtered_groups[c]
  BY <1>1, MergerAssumption DEF TypeOK, Groups
<1>3. u \in [Branches -> Nat]
  BY MergerAssumption DEF Advanced, TypeOK, Branches
<1>4. QED
  <2> HIDE DEF u
  <2>1. u \in [Branches -> Groups]
    BY <1>2, <1>3
  <2>2. QED
    BY <1>2, <2>1 DEF AllTuples, u

\* No step takes a variable out of its type, while the iterator stands at a
\* place where the branches have groups.
LEMMA TypeNext ==
  ASSUME TypeOK, IteratorInv, [Next]_vars
  PROVE  TypeOK'
<1> USE MergerAssumption DEF TypeOK, inputs, iter
<1>1. CASE IterInitFails
  BY <1>1 DEF IterInitFails
<1>2. CASE IterInit
  <2>1. \A b \in Branches : (IF b = NumBranches THEN 0 ELSE 1) \in 0 .. MaxGroups
    BY <1>2 DEF IterInit, Branches
  <2>2. tuple' \in [Branches -> 0 .. MaxGroups]
    BY <1>2, <2>1 DEF IterInit
  <2>3. QED
    BY <1>2, <2>2 DEF IterInit
<1>3. ASSUME NEW b \in Branches, IterNext(b) PROVE TypeOK'
  <2>1. tuple' \in [Branches -> Groups]
    BY <1>3, AdvancedType DEF IterNext
  <2>2. tuple' \in [Branches -> 0 .. MaxGroups]
    BY <2>1 DEF Groups
  <2>3. to_be_merged' \in Seq([Branches -> Groups])
    BY <1>3, <2>1, AppendProperties DEF IterNext
  <2>4. index' \in 0 .. IndexRange - 1
    BY <1>3 DEF IterNext
  <2>5. QED
    BY <1>3, <2>2, <2>3, <2>4 DEF IterNext
<1>4. CASE IterStops
  <2>1. \A b \in Branches : 1 \in 0 .. MaxGroups
    BY <1>4 DEF IterStops, IteratorInv
  <2>2. tuple' \in [Branches -> 0 .. MaxGroups]
    BY <1>4, <2>1 DEF IterStops
  <2>3. QED
    BY <1>4, <2>2 DEF IterStops
<1>5. CASE TestClause
  BY <1>5 DEF TestClause, ClauseHolds
<1>6. CASE ClausesExhausted
  BY <1>6 DEF ClausesExhausted
<1>7. CASE AddTuple
  <2>1. tuple \in [Branches -> Groups]
    BY <1>7 DEF AddTuple, IteratorInv, Groups
  <2>2. group_tuples' \in Seq([Branches -> Groups])
    BY <1>7, <2>1, AppendProperties DEF AddTuple
  <2>3. QED
    BY <1>7, <2>2 DEF AddTuple
<1>8. CASE UNCHANGED vars
  BY <1>8 DEF vars
<1>9. QED
  BY <1>1, <1>2, <1>3, <1>4, <1>5, <1>6, <1>7, <1>8 DEF Next

-----------------------------------------------------------------------------
(* The invariant.                                                          *)

\* Nothing the invariant says of a tuple depends on where the loop stands.
LEMMA SameQuery ==
  ASSUME UNCHANGED inputs
  PROVE  /\ AllTuples' = AllTuples
         /\ \A t : FirstClauseHolds(t)' <=> FirstClauseHolds(t)
BY DEF inputs, AllTuples, FirstClauseHolds, ClauseHolds, TermHolds

\* The invariant holds before iter_init has run.
LEMMA InvInit == Init => MergerInv
<1> SUFFICES ASSUME Init PROVE MergerInv
  OBVIOUS
<1>1. Examined = {} /\ Matched = {}
  BY DEF Init, Examined, Matched
<1>2. QED
  BY <1>1, TypeInit
     DEF Init, MergerInv, IteratorInv, FlagInv, MatchedInv, BoundaryInv,
         ExaminedInOrder, MatchedInOrder

\* The position set by iter_init is before all the tuples of groups.
LEMMA StartsBefore ==
  ASSUME TypeOK', IterInit, NEW t \in AllTuples PROVE ~ LexLeq(t, tuple')
<1> SUFFICES ASSUME LexLeq(t, tuple') PROVE FALSE
  OBVIOUS
<1>1. /\ t \in [Branches -> Nat] /\ \A b \in Branches : t[b] >= 1
      /\ tuple' \in [Branches -> Nat]
  BY MergerAssumption DEF AllTuples, Groups, TypeOK
<1>2. NumBranches \in Branches
  BY MergerAssumption DEF Branches
<1>3. tuple'[NumBranches] = 0
      /\ \A b \in Branches : b # NumBranches => tuple'[b] = 1
  BY <1>2 DEF IterInit
<1>4. t # tuple'
  BY <1>1, <1>2, <1>3
<1>5. PICK b \in Branches : t[b] < tuple'[b]
  BY <1>1, <1>4, LexLessIff DEF LexLess
<1>6. QED
  BY <1>1, <1>3, <1>5

\* The tuples up to the iterator's position are those before its next one.
LEMMA NextPosition ==
  ASSUME TypeOK, IteratorInv, NEW b \in Branches, IterNext(b),
         NEW t \in AllTuples
  PROVE  LexLeq(t, tuple) <=> LexLess(t, tuple')
<1>1. \A c \in Branches : t[c] >= 1
  BY MergerAssumption DEF AllTuples, Groups
<1>2. \A c \in Branches : c > b => t[c] <= tuple[c]
  <2>1. TAKE c \in Branches
  <2>2. HAVE c > b
  <2>3. tuple[c] >= num_filtered_groups[c]
    BY <2>2 DEF IterNext, IsPivot
  <2>4. t[c] <= num_filtered_groups[c]
    BY DEF AllTuples
  <2>5. t[c] \in Nat /\ tuple[c] \in Nat /\ num_filtered_groups[c] \in Nat
    BY MergerAssumption DEF TypeOK, AllTuples, Groups
  <2>6. QED
    BY <2>3, <2>4, <2>5
<1>3. t \in [Branches -> Nat] /\ tuple \in [Branches -> Nat]
  BY MergerAssumption DEF AllTuples, Groups, TypeOK
<1>4. QED
  BY <1>1, <1>2, <1>3, Successor DEF IterNext

\* When the iterator stops, no tuple of groups is after it.
LEMMA StopsLast ==
  ASSUME TypeOK, IterStops, NEW t \in AllTuples PROVE LexLeq(t, tuple)
BY MergerAssumption DEF IterStops, AllTuples, LexLeq, TypeOK, Groups, Branches

\* iter_init places the iterator before all the tuples.
LEMMA InvIterInit ==
  ASSUME MergerInv, IterInit PROVE MergerInv'
<1> USE DEF MergerInv
<1>1. TypeOK'
  BY TypeNext DEF Next
<1>2. AllTuples' = AllTuples
  BY SameQuery DEF IterInit
<1>3. Examined' = {} /\ Matched' = {}
  BY DEF IterInit, BoundaryInv, Examined, Matched
<1>4. \A t \in AllTuples : ~ LexLeq(t, tuple')
  BY <1>1, StartsBefore
<1>5. IteratorInv'
  <2>1. ASSUME NEW b \in Branches
        PROVE  /\ num_filtered_groups'[b] # 0
               /\ tuple'[b] <= num_filtered_groups'[b]
               /\ tuple'[b] = 0 => b = NumBranches /\ pc' = "iter_next"
    BY MergerAssumption DEF IterInit, inputs, TypeOK
  <2>2. Examined' = {t \in AllTuples' : LexLeq(t, tuple')}
    BY <1>2, <1>3, <1>4
  <2>3. QED
    BY <2>1, <2>2 DEF IteratorInv, LexLeq
<1>6. QED
  BY <1>1, <1>3, <1>5
     DEF IterInit, FlagInv, MatchedInv, BoundaryInv, ExaminedInOrder,
         MatchedInOrder

\* A branch without groups: there is no tuple to be examined.
LEMMA InvIterInitFails ==
  ASSUME MergerInv, IterInitFails PROVE MergerInv'
<1> USE DEF MergerInv
<1>1. TypeOK'
  BY TypeNext DEF Next
<1>2. Examined' = {} /\ Matched' = {}
  BY DEF IterInitFails, BoundaryInv, Examined, Matched
<1>3. AllTuples' = {}
  <2>1. PICK b \in Branches : num_filtered_groups[b] = 0
    BY DEF IterInitFails
  <2>2. ASSUME NEW t \in AllTuples PROVE FALSE
    BY <2>1, <2>2, MergerAssumption DEF AllTuples, Groups
  <2>3. QED
    BY <2>2, SameQuery DEF IterInitFails
<1>4. QED
  BY <1>1, <1>2, <1>3
     DEF IterInitFails, IteratorInv, FlagInv, MatchedInv, BoundaryInv,
         ExaminedInOrder, MatchedInOrder

\* One step of the iterator adds its new position to the tuples examined.
LEMMA InvIterNext ==
  ASSUME MergerInv, NEW b \in Branches, IterNext(b) PROVE MergerInv'
<1> USE DEF MergerInv
<1> DEFINE u == Advanced(tuple, b)
<1>1. TypeOK'
  BY TypeNext DEF Next
<1>2. AllTuples' = AllTuples /\ \A t : FirstClauseHolds(t)' <=> FirstClauseHolds(t)
  BY SameQuery DEF IterNext
<1>3. tuple' = u /\ u \in [Branches -> Groups] /\ u \in AllTuples
  BY AdvancedType DEF IterNext
<1>4. /\ tuple \in [Branches -> Nat]
      /\ u \in [Branches -> Nat]
      /\ \A t \in AllTuples : t \in [Branches -> Nat]
  BY <1>3, MergerAssumption DEF AllTuples, Groups, TypeOK
<1>5. \A t \in AllTuples : LexLeq(t, tuple) <=> LexLess(t, u)
  BY <1>3, NextPosition
<1>6. Examined = {t \in AllTuples : LexLeq(t, tuple)}
  BY DEF IteratorInv, IterNext
<1> HIDE DEF u
<1>7. LexLeq(u, u)
  BY <1>4 DEF LexLeq, Branches
<1>8. Examined' = Examined \cup {u}
  <2>1. to_be_merged' = Append(to_be_merged, u)
    BY <1>3 DEF IterNext
  <2>2. to_be_merged \in Seq([Branches -> Groups])
    BY DEF TypeOK
  <2>3. QED
    BY <1>3, <2>1, <2>2, AppendRange DEF Examined
<1>9. IteratorInv'
  <2>1. ASSUME NEW c \in Branches
        PROVE  /\ num_filtered_groups'[c] # 0
               /\ tuple'[c] <= num_filtered_groups'[c]
               /\ tuple'[c] # 0
    BY <1>3, MergerAssumption
       DEF IterNext, IteratorInv, inputs, AllTuples, Groups
  <2>2. Examined' = {t \in AllTuples' : LexLeq(t, u)}
    BY <1>2, <1>3, <1>5, <1>6, <1>7, <1>8 DEF LexLess
  <2>3. QED
    BY <1>3, <2>1, <2>2 DEF IteratorInv, LexLeq
<1>10. MatchedInv'
  <2>1. u \notin Examined
    BY <1>3, <1>5, <1>6 DEF LexLess
  <2>2. Matched' = Matched /\ Matched = {t \in Examined : FirstClauseHolds(t)}
    BY DEF IterNext, MatchedInv, Matched
  <2>3. pc' = "clauses"
    BY DEF IterNext
  <2>4. QED
    BY <1>2, <1>3, <1>8, <2>1, <2>2, <2>3 DEF MatchedInv
<1>11. ExaminedInOrder'
  <2>1. \A i \in DOMAIN to_be_merged : LexLess(to_be_merged[i], u)
    BY <1>5, <1>6 DEF Examined
  <2>2. to_be_merged' = Append(to_be_merged, u)
    BY <1>3 DEF IterNext
  <2>3. to_be_merged \in Seq([Branches -> Groups])
    BY DEF TypeOK
  <2>4. \A i, j \in DOMAIN to_be_merged :
          i < j => LexLess(to_be_merged[i], to_be_merged[j])
    BY DEF ExaminedInOrder
  <2>5. \A i, j \in DOMAIN to_be_merged' :
          i < j => LexLess(to_be_merged'[i], to_be_merged'[j])
    BY <1>3, <2>1, <2>2, <2>3, <2>4, AppendOrdered
  <2>6. QED
    BY <2>5 DEF ExaminedInOrder, LexLess, LexLeq
<1>12. QED
  BY <1>1, <1>9, <1>10, <1>11
     DEF IterNext, FlagInv, BoundaryInv, MatchedInOrder, LexLess, LexLeq

\* When the iterator wraps around, all the tuples have been examined.
LEMMA InvIterStops ==
  ASSUME MergerInv, IterStops PROVE MergerInv'
<1> USE DEF MergerInv
<1>1. TypeOK'
  BY TypeNext DEF Next
<1>2. AllTuples' = AllTuples /\ \A t : FirstClauseHolds(t)' <=> FirstClauseHolds(t)
  BY SameQuery DEF IterStops
<1>3. Examined' = Examined /\ Matched' = Matched
  BY DEF IterStops, Examined, Matched
<1>4. \A t \in AllTuples : LexLeq(t, tuple)
  BY StopsLast
<1>5. Examined = AllTuples
  BY <1>4 DEF IterStops, IteratorInv
<1>6. MatchedInv'
  BY <1>2, <1>3 DEF IterStops, MatchedInv
<1>7. QED
  BY <1>1, <1>2, <1>3, <1>5, <1>6
     DEF IterStops, IteratorInv, FlagInv, BoundaryInv, ExaminedInOrder,
         MatchedInOrder, LexLess, LexLeq

\* A round of the loop over the clauses: the flag is that of the first clause.
LEMMA InvTestClause ==
  ASSUME MergerInv, TestClause PROVE MergerInv'
<1> USE DEF MergerInv
<1>1. TypeOK'
  BY TypeNext DEF Next
<1>2. AllTuples' = AllTuples /\ \A t : FirstClauseHolds(t)' <=> FirstClauseHolds(t)
  BY SameQuery DEF TestClause
<1>3. Examined' = Examined /\ Matched' = Matched
  BY DEF TestClause, Examined, Matched
<1>4. tuple' = tuple /\ pc = "clauses" /\ pc' \in {"clauses", "add"}
      /\ UNCHANGED <<num_filtered_groups, to_be_merged, group_tuples>>
  BY DEF TestClause, iter, inputs
<1>5. IteratorInv'
  BY <1>2, <1>3, <1>4 DEF IteratorInv, LexLeq
<1>6. FlagInv'
  <2>1. merger_clauseset # <<>>
    BY DEF TestClause, TypeOK
  <2>2. FirstClauseHolds(tuple)' <=> ClauseHolds(1, tuple)
    BY <1>2, <1>4, <2>1 DEF FirstClauseHolds
  <2>3. CASE k = 1 /\ clause
    <3>1. clause' <=> ClauseHolds(1, tuple)
      BY <2>3 DEF TestClause
    <3>2. IF clause' THEN pc' = "add" ELSE k' = 2 /\ pc' = "clauses"
      BY <1>4, <2>3 DEF TestClause
    <3>3. QED
      BY <2>2, <3>1, <3>2 DEF FlagInv
  <2>4. CASE k > 1 /\ ~clause /\ ~FirstClauseHolds(tuple)
    BY <1>2, <1>4, <2>4 DEF TestClause, FlagInv, TypeOK
  <2>5. QED
    BY <1>4, <2>3, <2>4 DEF FlagInv
<1>7. MatchedInv'
  BY <1>2, <1>3, <1>4 DEF MatchedInv
<1>8. QED
  BY <1>1, <1>4, <1>5, <1>6, <1>7
     DEF BoundaryInv, ExaminedInOrder, MatchedInOrder, LexLess, LexLeq

\* The loop over the clauses ends without a clause that holds.
LEMMA InvClausesExhausted ==
  ASSUME MergerInv, ClausesExhausted PROVE MergerInv'
<1> USE DEF MergerInv
<1>1. TypeOK'
  BY TypeNext DEF Next
<1>2. AllTuples' = AllTuples /\ \A t : FirstClauseHolds(t)' <=> FirstClauseHolds(t)
  BY SameQuery DEF ClausesExhausted
<1>3. Examined' = Examined /\ Matched' = Matched
  BY DEF ClausesExhausted, Examined, Matched
<1>4. tuple' = tuple /\ pc = "clauses" /\ pc' = "add"
      /\ UNCHANGED <<num_filtered_groups, to_be_merged, group_tuples, clause>>
  BY DEF ClausesExhausted, iter, inputs
<1>5. FlagInv'
  <2>1. merger_clauseset \in Seq(Seq(Term))
    BY MergerAssumption DEF TypeOK
  <2>2. CASE k = 1 /\ clause
    <3>1. merger_clauseset = <<>>
      BY <2>1, <2>2, EmptySeq, LenProperties DEF ClausesExhausted
    <3>2. FirstClauseHolds(tuple)
      BY <3>1 DEF FirstClauseHolds
    <3>3. QED
      BY <1>2, <1>4, <2>2, <3>2 DEF FlagInv
  <2>3. CASE k > 1 /\ ~clause /\ ~FirstClauseHolds(tuple)
    BY <1>2, <1>4, <2>3 DEF FlagInv
  <2>4. QED
    BY <1>4, <2>2, <2>3 DEF FlagInv
<1>6. IteratorInv'
  BY <1>2, <1>3, <1>4 DEF IteratorInv, LexLeq
<1>7. MatchedInv'
  BY <1>2, <1>3, <1>4 DEF MatchedInv
<1>8. QED
  BY <1>1, <1>4, <1>5, <1>6, <1>7
     DEF BoundaryInv, ExaminedInOrder, MatchedInOrder, LexLess, LexLeq

\* A tuple is stored after the smaller ones that were stored before it.
LEMMA InvAddTuple ==
  ASSUME MergerInv, AddTuple PROVE MergerInv'
<1> USE DEF MergerInv
<1>1. TypeOK'
  BY TypeNext DEF Next
<1>2. AllTuples' = AllTuples /\ \A t : FirstClauseHolds(t)' <=> FirstClauseHolds(t)
  BY SameQuery DEF AddTuple
<1>3. /\ Examined' = Examined
      /\ tuple' = tuple /\ pc = "add" /\ pc' = "iter_next"
      /\ UNCHANGED <<num_filtered_groups, to_be_merged>>
  BY DEF AddTuple, iter, inputs, Examined
<1>4. tuple \in [Branches -> Groups] /\ tuple \in AllTuples
  BY <1>3 DEF IteratorInv, TypeOK, Groups, AllTuples
<1>5. LexLeq(tuple, tuple)
  BY <1>4, MergerAssumption DEF LexLeq, Branches, Groups
<1>6. Examined = {t \in AllTuples : LexLeq(t, tuple)} /\ tuple \in Examined
  BY <1>3, <1>4, <1>5 DEF IteratorInv
<1>7. clause <=> FirstClauseHolds(tuple)
  BY <1>3 DEF FlagInv
<1>8. Matched = {t \in Examined : FirstClauseHolds(t) /\ t # tuple}
  BY <1>3 DEF MatchedInv
<1>9. group_tuples \in Seq([Branches -> Groups])
  BY DEF TypeOK
<1>10. ASSUME clause PROVE MatchedInv' /\ MatchedInOrder'
  <2>1. group_tuples' = Append(group_tuples, tuple)
    BY <1>10 DEF AddTuple
  <2>2. Matched' = Matched \cup {tuple}
    BY <1>4, <1>9, <2>1, AppendRange DEF Matched
  <2>3. MatchedInv'
    BY <1>2, <1>3, <1>6, <1>7, <1>8, <1>10, <2>2 DEF MatchedInv
  <2>4. \A i \in DOMAIN group_tuples : LexLess(group_tuples[i], tuple)
    BY <1>6, <1>8 DEF Matched, LexLess
  <2>5. \A i, j \in DOMAIN group_tuples :
          i < j => LexLess(group_tuples[i], group_tuples[j])
    BY DEF MatchedInOrder
  <2>6. \A i, j \in DOMAIN group_tuples' :
          i < j => LexLess(group_tuples'[i], group_tuples'[j])
    BY <1>4, <1>9, <2>1, <2>4, <2>5, AppendOrdered
  <2>7. QED
    BY <2>3, <2>6 DEF MatchedInOrder, LexLess, LexLeq
<1>11. ASSUME ~clause PROVE MatchedInv' /\ MatchedInOrder'
  <2>1. group_tuples' = group_tuples /\ Matched' = Matched
    BY <1>11 DEF AddTuple, Matched
  <2>2. MatchedInv'
    BY <1>2, <1>3, <1>7, <1>8, <1>11, <2>1 DEF MatchedInv
  <2>3. QED
    BY <2>1, <2>2 DEF MatchedInOrder, LexLess, LexLeq
<1>12. IteratorInv'
  BY <1>2, <1>3 DEF IteratorInv, LexLeq
<1>13. QED
  BY <1>1, <1>3, <1>10, <1>11, <1>12
     DEF FlagInv, BoundaryInv, ExaminedInOrder, LexLess, LexLeq

\* Every step preserves the invariant.
LEMMA InvNext ==
  ASSUME MergerInv, [Next]_vars PROVE MergerInv'
<1>1. CASE UNCHANGED vars
  <2>1. UNCHANGED <<inputs, num_filtered_groups, tuple, pc, k, clause,
                    group_tuples, to_be_merged>>
    BY <1>1 DEF vars, inputs, iter
  <2>2. AllTuples' = AllTuples
        /\ \A t : FirstClauseHolds(t)' <=> FirstClauseHolds(t)
    BY <2>1, SameQuery
  <2>3. Examined' = Examined /\ Matched' = Matched
    BY <2>1 DEF Examined, Matched
  <2>4. TypeOK'
    BY TypeNext DEF MergerInv
  <2>5. IteratorInv'
    BY <2>1, <2>2, <2>3 DEF MergerInv, IteratorInv, LexLeq
  <2>6. FlagInv' /\ MatchedInv' /\ BoundaryInv'
    BY <2>1, <2>2, <2>3 DEF MergerInv, FlagInv, MatchedInv, BoundaryInv
  <2>7. ExaminedInOrder' /\ MatchedInOrder'
    BY <2>1 DEF MergerInv, ExaminedInOrder, MatchedInOrder, LexLess, LexLeq
  <2>8. QED
    BY <2>4, <2>5, <2>6, <2>7 DEF MergerInv
<1>2. QED
  BY <1>1, InvIterInitFails, InvIterInit, InvIterNext, InvIterStops,
     InvTestClause, InvClausesExhausted, InvAddTuple DEF Next

\* The invariant holds in every reachable state, for any number of branches
\* and groups and for any clauses.
THEOREM Invariance == Spec => []MergerInv
<1>1. Init => MergerInv
  BY InvInit
<1>2. MergerInv /\ [Next]_vars => MergerInv'
  BY InvNext
<1>3. QED
  BY <1>1, <1>2, PTL DEF Spec

\* Type correctness of the merger.
THEOREM TypeCorrect == Spec => []TypeOK
<1>1. MergerInv => TypeOK
  BY DEF MergerInv
<1>2. QED
  BY <1>1, Invariance, PTL

\* The group ids that merger.c uses as subscripts are those of groups.
THEOREM SubscriptsCorrect == Spec => []SubscriptsInRange
<1>1. MergerInv => SubscriptsInRange
  BY MergerAssumption
     DEF MergerInv, SubscriptsInRange, IteratorInv, TypeOK, AllTuples, Groups
<1>2. QED
  BY <1>1, Invariance, PTL

\* The iterator passes through the tuples in lexicographic order, so that it
\* returns to none.
THEOREM OrderCorrect == Spec => []ExaminedInOrder
<1>1. MergerInv => ExaminedInOrder
  BY DEF MergerInv
<1>2. QED
  BY <1>1, Invariance, PTL

\* The iterator skips no tuple of groups.
THEOREM EnumerationCorrect == Spec => []EveryTupleExamined
<1>1. MergerInv => EveryTupleExamined
  BY DEF MergerInv, EveryTupleExamined, IteratorInv, BoundaryInv
<1>2. QED
  BY <1>1, Invariance, PTL

\* The merger returns the tuples that satisfy the first clause, each once.
THEOREM ResultCorrect == Spec => []MatchedExactly
<1>1. MergerInv => MatchedExactly
  BY DEF MergerInv, MatchedExactly, MatchedInv, BoundaryInv
<1>2. QED
  BY <1>1, Invariance, PTL

-----------------------------------------------------------------------------
(* The total.                                                              *)

\* The quotient and the remainder.
LEMMA DivMod ==
  ASSUME NEW a \in Nat, NEW n \in Nat \ {0}
  PROVE  /\ a % n \in 0 .. n - 1
         /\ a \div n \in Int
         /\ a = n * (a \div n) + (a % n)
OBVIOUS

\* They are determined by their sum.
LEMMA ModIs ==
  ASSUME NEW n \in Nat \ {0}, NEW q \in Int, NEW r \in 0 .. n - 1,
         n * q + r \in Nat
  PROVE  (n * q + r) % n = r
<1> DEFINE a == n * q + r
<1> DEFINE p == a \div n
<1> DEFINE s == a % n
<1>1. s \in 0 .. n - 1 /\ p \in Int /\ a = n * p + s
  BY DivMod
<1> HIDE DEF p, s
<1>2. n * (p - q) = r - s
  BY <1>1
<1>3. CASE p > q
  <2>1. n * (p - q) >= n
    BY <1>1, <1>3
  <2>2. QED
    BY <1>1, <1>2, <2>1
<1>4. CASE p < q
  <2>1. n * (p - q) <= 0 - n
    BY <1>1, <1>4
  <2>2. QED
    BY <1>1, <1>2, <2>1
<1>5. CASE p = q
  BY <1>1, <1>2, <1>5 DEF s
<1>6. QED
  BY <1>1, <1>3, <1>4, <1>5

\* A counter that wraps around counts modulo its range.
LEMMA ModSuccessor ==
  ASSUME NEW a \in Nat, NEW n \in Nat \ {0}
  PROVE  ((a % n) + 1) % n = (a + 1) % n
<1> DEFINE q == a \div n
<1> DEFINE r == a % n
<1>1. r \in 0 .. n - 1 /\ q \in Int /\ a = n * q + r
  BY DivMod
<1> HIDE DEF q, r
<1>2. CASE r + 1 < n
  <2>1. r + 1 \in 0 .. n - 1 /\ a + 1 = n * q + (r + 1)
        /\ r + 1 = n * 0 + (r + 1)
    BY <1>1, <1>2
  <2>2. (a + 1) % n = r + 1 /\ (r + 1) % n = r + 1
    BY <1>1, <2>1, ModIs
  <2>3. QED
    BY <2>2 DEF r
<1>3. CASE r + 1 = n
  <2>1. a + 1 = n * (q + 1) + 0 /\ r + 1 = n * 1 + 0 /\ 0 \in 0 .. n - 1
    BY <1>1, <1>3
  <2>2. q + 1 \in Int /\ n * (q + 1) + 0 \in Nat /\ n * 1 + 0 \in Nat
    BY <1>1, <2>1
  <2>3. (n * (q + 1) + 0) % n = 0
    BY <2>1, <2>2, ModIs
  <2>4. (n * 1 + 0) % n = 0
    BY <2>1, <2>2, ModIs
  <2>5. QED
    BY <2>1, <2>3, <2>4 DEF r
<1>4. QED
  BY <1>1, <1>2, <1>3

\* Tuples in order are as many as the sequence of them is long.
LEMMA OrderedCount ==
  ASSUME NEW q \in Seq([Branches -> Groups]),
         \A i, j \in DOMAIN q : i < j => LexLess(q[i], q[j])
  PROVE  Cardinality({q[i] : i \in DOMAIN q}) = Len(q)
<1> DEFINE S == {q[i] : i \in DOMAIN q}
<1>1. /\ Len(q) \in Nat /\ DOMAIN q = 1 .. Len(q)
      /\ q \in [1 .. Len(q) -> [Branches -> Groups]]
  BY LenProperties
<1>2. q \in [1 .. Len(q) -> S] /\ \A x \in S : \E i \in 1 .. Len(q) : q[i] = x
  BY <1>1
<1>3. ASSUME NEW i \in 1 .. Len(q), NEW j \in 1 .. Len(q), q[i] = q[j]
      PROVE  i = j
  <2>1. ~ LexLess(q[i], q[j]) /\ ~ LexLess(q[j], q[i])
    BY <1>3 DEF LexLess
  <2>2. ~ (i < j) /\ ~ (j < i)
    BY <1>1, <2>1
  <2>3. QED
    BY <1>1, <2>2
<1>4. q \in Bijection(1 .. Len(q), S)
  <2> HIDE DEF S
  <2> QED
    BY <1>2, <1>3 DEF Bijection, Injection, Surjection, IsInjective
<1>5. QED
  BY <1>1, <1>4, FS_CountingElements DEF ExistsBijection

\* The counter follows the stream of the tuples.
LEMMA CountNext ==
  ASSUME MergerInv, CountInv, [Next]_vars PROVE CountInv'
<1> USE DEF inputs, iter, CountInv
<1>1. CASE IterInitFails
  <2>1. Len(to_be_merged) = 0 /\ total = 0
    BY <1>1 DEF IterInitFails, MergerInv, BoundaryInv
  <2>2. index = 0
    BY <2>1, DivMod, MergerAssumption DEF IterInitFails
  <2>3. QED
    BY <1>1, <2>1, <2>2 DEF IterInitFails
<1>2. ASSUME NEW b \in Branches, IterNext(b) PROVE CountInv'
  <2>1. Len(to_be_merged') = Len(to_be_merged) + 1 /\ Len(to_be_merged) \in Nat
    BY <1>2, AppendProperties, AdvancedType, LenProperties
       DEF IterNext, MergerInv, TypeOK
  <2>2. index' = (Len(to_be_merged) + 1) % IndexRange
    BY <1>2, <2>1, ModSuccessor, MergerAssumption DEF IterNext
  <2>3. QED
    BY <1>2, <2>1, <2>2 DEF IterNext
<1>3. CASE IterInit \/ IterStops
  BY <1>3 DEF IterInit, IterStops
<1>4. CASE TestClause \/ ClausesExhausted \/ AddTuple
  BY <1>4 DEF TestClause, ClausesExhausted, AddTuple
<1>5. CASE UNCHANGED vars
  BY <1>5 DEF vars
<1>6. QED
  BY <1>1, <1>2, <1>3, <1>4, <1>5 DEF Next

\* On return the counter has been through all the tuples, each once.
LEMMA TotalOfAll ==
  ASSUME MergerInv, CountInv PROVE TotalCounts
<1> SUFFICES ASSUME pc = "done"
             PROVE  total = Cardinality(AllTuples) % IndexRange
  BY DEF TotalCounts
<1>1. Examined = AllTuples /\ to_be_merged \in Seq([Branches -> Groups])
  BY DEF MergerInv, BoundaryInv, TypeOK
<1>2. Cardinality(Examined) = Len(to_be_merged)
  BY <1>1, OrderedCount DEF MergerInv, ExaminedInOrder, Examined
<1>3. QED
  BY <1>1, <1>2 DEF CountInv

\* The counter and the total in every reachable state.
LEMMA CountInvariance == Spec => []CountInv
<1>1. Init => CountInv
  <2> SUFFICES ASSUME Init PROVE CountInv
    OBVIOUS
  <2>1. 0 % IndexRange = 0
    BY DivMod, MergerAssumption
  <2>2. QED
    BY <2>1 DEF Init, CountInv
<1>2. MergerInv /\ CountInv /\ [Next]_vars => CountInv'
  BY CountNext
<1>3. QED
  BY <1>1, <1>2, Invariance, PTL DEF Spec

\* The total of the merger's result is the number of the tuples, wrapped as the
\* unsigned int that counted them, for any range of that counter.
THEOREM TotalCorrect == Spec => []TotalCounts
<1>1. MergerInv /\ CountInv => TotalCounts
  BY TotalOfAll
<1>2. QED
  BY <1>1, Invariance, CountInvariance, PTL

-----------------------------------------------------------------------------
(* Merger implements TupleJoin.                                            *)

\* The merger starts where the abstract join starts.
LEMMA JoinInitially == Init => Join!JoinInit
<1> SUFFICES ASSUME Init PROVE Join!JoinInit
  OBVIOUS
<1>1. Matched = {} /\ Unexamined = AllTuples /\ pc = "iter_init"
  BY DEF Init, Matched, Unexamined
<1>2. QED
  BY <1>1 DEF Join!JoinInit

\* Each step is one of the abstract join or not visible to it.
LEMMA JoinStep ==
  ASSUME MergerInv, MergerInv', [Next]_vars
  PROVE  [Join!JoinNext]_Join!joinVars
<1> DEFINE W == {t \in AllTuples : FirstClauseHolds(t)}
<1>1. W' = W /\ AllTuples' = AllTuples
  <2>1. UNCHANGED inputs
    BY DEF Next, vars, IterInitFails, IterInit, IterNext, IterStops,
         TestClause, ClausesExhausted, AddTuple
  <2>2. QED
    BY <2>1, SameQuery
<1> HIDE DEF W
<1>2. /\ tuple \in [Branches -> Nat]
      /\ tuple' \in [Branches -> Nat]
      /\ \A t \in AllTuples : t \in [Branches -> Nat]
  BY MergerAssumption DEF MergerInv, TypeOK, AllTuples, Groups
<1>3. ASSUME Unexamined' = Unexamined, Matched' = Matched,
             pc' = "done" <=> pc = "done"
      PROVE  [Join!JoinNext]_Join!joinVars
  BY <1>1, <1>3 DEF Join!joinVars, W
<1>4. ASSUME Unexamined = {}, Unexamined' = {}, Matched' = Matched,
             pc # "done", pc' = "done"
      PROVE  [Join!JoinNext]_Join!joinVars
  BY <1>1, <1>4 DEF Join!JoinNext, Join!Finish, W
<1>5. CASE IterInitFails
  <2>1. AllTuples' = {}
    BY <1>5, MergerAssumption, EmptySeq
       DEF MergerInv, BoundaryInv, IterInitFails, Examined
  <2>2. Unexamined = {} /\ Unexamined' = {}
    BY <1>1, <1>5, <2>1 DEF IterInitFails, Unexamined
  <2>3. QED
    BY <1>4, <1>5, <2>2 DEF IterInitFails, Matched
<1>6. CASE IterInit
  <2>1. \A t \in AllTuples : LexLess(tuple', t)
    BY <1>2, <1>6, StartsBefore, LexTotal DEF MergerInv
  <2>2. Unexamined' = {t \in AllTuples' : LexLess(tuple', t)}
    BY <1>6 DEF IterInit, Unexamined, LexLess, LexLeq
  <2>3. Unexamined = AllTuples
    BY <1>6 DEF IterInit, Unexamined
  <2>4. QED
    BY <1>1, <1>3, <1>6, <2>1, <2>2, <2>3 DEF IterInit, Matched
<1>7. ASSUME NEW b \in Branches, IterNext(b)
      PROVE  [Join!JoinNext]_Join!joinVars
  <2>1. \A t \in AllTuples : LexLess(tuple, t) <=> LexLeq(tuple', t)
    BY <1>2, <1>7, NextPosition, LexTotal DEF MergerInv
  <2>2. Unexamined' = {t \in AllTuples' : LexLeq(tuple', t)}
    BY <1>7 DEF IterNext, Unexamined, LexLess, LexLeq
  <2>3. Unexamined = {t \in AllTuples : LexLess(tuple, t)}
    BY <1>7 DEF IterNext, Unexamined
  <2>4. QED
    BY <1>1, <1>3, <1>7, <2>1, <2>2, <2>3 DEF IterNext, Matched
<1>8. CASE IterStops
  <2>1. \A t \in AllTuples : ~ LexLess(tuple, t)
    BY <1>2, <1>8, StopsLast, LexTotal DEF MergerInv
  <2>2. Unexamined = {} /\ Unexamined' = {}
    BY <1>8, <2>1 DEF IterStops, Unexamined
  <2>3. QED
    BY <1>4, <1>8, <2>2 DEF IterStops, Matched
<1>9. CASE TestClause \/ ClausesExhausted
  <2>1. pc \in {"clauses", "add"} /\ pc' \in {"clauses", "add"}
        /\ UNCHANGED <<tuple, group_tuples>>
    BY <1>9 DEF TestClause, ClausesExhausted, iter
  <2>2. Unexamined' = Unexamined /\ Matched' = Matched
    BY <1>1, <2>1 DEF Unexamined, Matched, LexLeq
  <2>3. QED
    BY <1>3, <2>1, <2>2
<1>10. CASE AddTuple
  <2>1. /\ pc = "add" /\ pc' = "iter_next" /\ tuple' = tuple
        /\ Examined' = Examined
    BY <1>10 DEF AddTuple, iter, Examined
  <2>2. tuple \in AllTuples
    BY <2>1 DEF MergerInv, IteratorInv, TypeOK, AllTuples, Groups
  <2>3. Unexamined = {t \in AllTuples : LexLeq(tuple, t)}
        /\ Unexamined' = {t \in AllTuples' : LexLess(tuple, t)}
    BY <2>1 DEF Unexamined, LexLess, LexLeq
  <2>4. LexLeq(tuple, tuple)
    BY <1>2, <2>2 DEF LexLeq, Branches
  <2>5. Unexamined' = Unexamined \ {tuple} /\ tuple \in Unexamined
    BY <1>1, <2>2, <2>3, <2>4 DEF LexLess
  <2>6. tuple \in Examined
    BY <2>1, <2>2, <2>4 DEF MergerInv, IteratorInv
  <2>7. Matched = {t \in Examined : FirstClauseHolds(t) /\ t # tuple}
    BY <2>1 DEF MergerInv, MatchedInv
  <2>8. Matched' = {t \in Examined : FirstClauseHolds(t)}
    <3>1. UNCHANGED inputs
      BY <1>10 DEF AddTuple
    <3>2. QED
      BY <2>1, <3>1, SameQuery DEF MergerInv, MatchedInv
  <2>9. Matched' = Matched \cup ({tuple} \cap W)
    BY <2>2, <2>6, <2>7, <2>8 DEF W
  <2>10. QED
    BY <1>1, <2>1, <2>5, <2>9 DEF Join!JoinNext, Join!Examine, W
<1>11. CASE UNCHANGED vars
  BY <1>3, <1>11
     DEF vars, inputs, iter, Unexamined, Matched, AllTuples, LexLess, LexLeq
<1>12. QED
  BY <1>5, <1>6, <1>7, <1>8, <1>9, <1>10, <1>11 DEF Next

\* The merger implements the safety part of TupleJoin: each step of the loop
\* examines one tuple not yet examined, keeps it exactly when it satisfies the
\* first clause, or does nothing that the abstract join can see.
THEOREM MergerImplementsJoin ==
  Spec => Join!JoinInit /\ [][Join!JoinNext]_Join!joinVars
<1>1. MergerInv /\ MergerInv' /\ [Next]_vars => [Join!JoinNext]_Join!joinVars
  BY JoinStep
<1>2. QED
  BY <1>1, JoinInitially, Invariance, PTL DEF Spec
=============================================================================
