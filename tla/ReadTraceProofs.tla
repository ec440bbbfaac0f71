-------------------------- MODULE ReadTraceProofs ---------------------------
(***************************************************************************)
(* What read_trace establishes for any number of branches, any filters and *)
(* traces of any length: the branches hold pointers to faithful copies of  *)
(* exactly the records they accept. Behind their pointers they find what   *)
(* an ideal splitter would have given them, their streams show the same,   *)
(* and no copy is made in vain.                                            *)
(***************************************************************************)
EXTENDS ReadTrace, TLAPS, SequenceTheorems

-----------------------------------------------------------------------------
(* Sequences.                                                              *)

\* What Append does to the length and the elements of a sequence.
LEMMA AppendFacts ==
  ASSUME NEW S, NEW q \in Seq(S), NEW x \in S
  PROVE  /\ Append(q, x) \in Seq(S)
         /\ Len(q) \in Nat
         /\ DOMAIN q = 1 .. Len(q)
         /\ Len(Append(q, x)) = Len(q) + 1
         /\ DOMAIN Append(q, x) = 1 .. Len(q) + 1
         /\ \A n \in 1 .. Len(q) : Append(q, x)[n] = q[n]
         /\ Append(q, x)[Len(q) + 1] = x
BY AppendProperties, LenProperties

\* What Append does to the set of the elements of a sequence.
LEMMA AppendRange ==
  ASSUME NEW S, NEW q \in Seq(S), NEW x \in S
  PROVE  \A y : (\E n \in DOMAIN Append(q, x) : Append(q, x)[n] = y)
                  <=> (\E n \in DOMAIN q : q[n] = y) \/ y = x
<1>1. \A n \in 1 .. Len(q) + 1 : n \in 1 .. Len(q) \/ n = Len(q) + 1
  BY LenProperties
<1>2. (\A n \in 1 .. Len(q) : n \in 1 .. Len(q) + 1)
      /\ Len(q) + 1 \in 1 .. Len(q) + 1
  BY LenProperties
<1>3. QED
  BY <1>1, <1>2, AppendFacts

\* Dropping the sentinel again.
LEMMA FrontOfAppend ==
  ASSUME NEW S, NEW q \in Seq(S), NEW x \in S
  PROVE  SubSeq(Append(q, x), 1, Len(Append(q, x)) - 1) = q
<1> DEFINE r == Append(q, x)
<1>1. /\ r \in Seq(S) /\ Len(r) = Len(q) + 1 /\ Len(q) \in Nat
      /\ \A n \in 1 .. Len(q) : r[n] = q[n]
  BY AppendFacts
<1> HIDE DEF r
<1>2. SubSeq(r, 1, Len(q)) = [n \in 1 .. Len(q) |-> r[n]]
  BY <1>1 DEF SubSeq
<1>3. q = [n \in 1 .. Len(q) |-> q[n]]
  BY LenProperties
<1>4. Len(r) - 1 = Len(q)
  BY <1>1
<1>5. SubSeq(r, 1, Len(r) - 1) = q
  BY <1>1, <1>2, <1>3, <1>4
<1>6. QED
  BY <1>5 DEF r

-----------------------------------------------------------------------------
(* Type correctness.                                                       *)

\* read_trace starts with its variables in their types.
LEMMA TypeInit == Init => TypeOK
<1> SUFFICES ASSUME Init PROVE TypeOK
  OBVIOUS
<1>1. trace \in Seq(Records)
  BY SeqDef, ReadTraceAssumption DEF Init
<1>2. QED
  BY <1>1, EmptySeq, ReadTraceAssumption DEF Init, TypeOK, Branches, Null


\* No step of read_trace takes a variable out of its type.
LEMMA TypeNext ==
  ASSUME TypeOK, [Next]_vars
  PROVE  TypeOK'
<1> USE ReadTraceAssumption DEF TypeOK, inputs, saved, locals, Branches
<1>1. CASE ReadRecord
  <2>1. position + 1 \in 1 .. Len(trace) /\ trace[position + 1] \in Records
    BY <1>1 DEF ReadRecord
  <2>2. QED
    BY <1>1, <2>1 DEF ReadRecord, Null
<1>2. CASE Reject
  BY <1>2 DEF Reject, NextBranch
<1>3. CASE Accept
  <2>1. i \in Branches
    BY <1>3 DEF Accept
  <2>2. /\ i' \in 1 .. NumBranches + 1 /\ pc' \in {"read", "branch"}
        /\ pc' = "branch" => i' \in Branches
        /\ pc' = "read" => i' = NumBranches + 1
    BY <1>3, <2>1 DEF Accept, NextBranch
  <2>3. /\ copies' \in Seq(Records) /\ origin' \in Seq(Nat)
        /\ recordset' \in Seq(Int) /\ num_records' \in Nat
        /\ target' \in Int /\ first_time' \in BOOLEAN
    <3>1. CASE first_time
      <4>1. SaveRecord
        BY <1>3, <3>1 DEF Accept, KeepTarget
      <4>2. Len(copies) \in Nat
        BY LenProperties
      <4>3. target' \in Int /\ num_records' \in Nat /\ first_time' \in BOOLEAN
        <5>1. /\ target' = Len(copies) + 1 /\ num_records' = num_records + 1
              /\ first_time' = FALSE
          BY <4>1, Zenon DEF SaveRecord
        <5>2. num_records \in Nat
          OBVIOUS
        <5>3. target' \in Int /\ num_records' \in Nat
          BY <4>2, <5>1, <5>2
        <5>4. QED
          BY <5>1, <5>3
      <4>4. copies' \in Seq(Records) /\ origin' \in Seq(Nat)
        BY <4>1, AppendFacts DEF SaveRecord
      <4>5. Extended(target') \in Seq(Int)
        <5>1. ASSUME NEW n \in 1 .. num_records + 1
              PROVE  (IF n = num_records + 1 THEN target'
                      ELSE IF n \in DOMAIN recordset THEN recordset[n]
                                                     ELSE Garbage) \in Int
          BY <4>3 DEF Garbage
        <5>2. num_records + 1 \in Nat
          OBVIOUS
        <5>3. QED
          BY <5>1, <5>2, IsASeq DEF Extended
      <4>6. recordset' \in Seq(Int)
        BY <4>1, <4>5, EmptySeq DEF SaveRecord
      <4>7. QED
        BY <4>3, <4>4, <4>6
    <3>2. CASE ~first_time
      BY <1>3, <3>2 DEF Accept, KeepTarget
    <3>3. QED
      BY <3>1, <3>2
  <2>4. /\ filtered' \in [Branches -> Seq(Int)]
        /\ written' \in [Branches -> Seq(Records)]
    <3>1. Append(filtered[i], target') \in Seq(Int)
          /\ Append(written[i], buffer) \in Seq(Records)
      BY <2>1, <2>3, AppendFacts
    <3>2. QED
      BY <1>3, <2>1, <3>1 DEF Accept
  <2>5. QED
    BY <1>3, <2>2, <2>3, <2>4 DEF Accept
<1>4. CASE OutOfMemory
  BY <1>4 DEF OutOfMemory
<1>5. CASE EndOfTrace
  <2>1. \A b \in Branches : Append(filtered[b], Null) \in Seq(Int)
    BY AppendFacts DEF Null
  <2>2. filtered' \in [Branches -> Seq(Int)]
    BY <1>5, <2>1 DEF EndOfTrace
  <2>3. QED
    BY <1>5, <2>2 DEF EndOfTrace
<1>6. CASE UNCHANGED vars
  BY <1>6 DEF vars
<1>7. QED
  BY <1>1, <1>2, <1>3, <1>4, <1>5, <1>6 DEF Next

-----------------------------------------------------------------------------
(* The invariant.                                                          *)

\* The invariant holds before the first record is read.
LEMMA InvInit == Init => ReadTraceInv
<1> SUFFICES ASSUME Init PROVE ReadTraceInv
  OBVIOUS
<1>1. TypeOK
  BY TypeInit
<1>2. ASSUME NEW b \in Branches PROVE HoldsExactly(b)
  <2>1. Pointers(b) = <<>> /\ Shown(b) = 0
    BY ReadTraceAssumption DEF Init, Pointers, Shown, Branches
  <2>2. QED
    BY <2>1 DEF HoldsExactly
<1>3. QED
  BY <1>1, <1>2
     DEF Init, ReadTraceInv, OriginInv, LoopInv, DoneInv, CopiesFaithful,
         SavedOnce, FilterExact

\* A branch whose pointers and share of the trace have not changed is not
\* disturbed by new copies.
LEMMA HoldsKept ==
  ASSUME ReadTraceInv, NEW b \in Branches,
         trace' = trace, filter' = filter,
         Pointers(b)' = Pointers(b), Shown(b)' = Shown(b),
         \A a \in DOMAIN copies : a \in DOMAIN copies' /\ origin'[a] = origin[a]
  PROVE  HoldsExactly(b)'
<1>1. HoldsExactly(b)
  BY DEF ReadTraceInv, FilterExact
<1>2. \A r : Accepts(b, r)' <=> Accepts(b, r)
  BY DEF Accepts
<1> DEFINE p == Pointers(b)
<1>3. /\ \A n \in DOMAIN p : p[n] \in DOMAIN copies
      /\ \A m, n \in DOMAIN p : m < n => p[m] < p[n]
      /\ {origin[p[n]] : n \in DOMAIN p}
           = {q \in 1 .. Shown(b) : Accepts(b, trace[q])}
  BY <1>1 DEF HoldsExactly
<1>4. p' = p
  OBVIOUS
<1> HIDE DEF p
<1>5. \A n \in DOMAIN p : origin'[p[n]] = origin[p[n]]
  BY <1>3
<1>6. {origin'[p[n]] : n \in DOMAIN p}
        = {q \in 1 .. Shown(b)' : Accepts(b, trace[q])'}
  BY <1>2, <1>3, <1>5
<1>7. QED
  BY <1>3, <1>4, <1>6 DEF HoldsExactly, p

\* The buffer is overwritten, first_time set and target cleared.
LEMMA InvReadRecord ==
  ASSUME ReadTraceInv, ReadRecord PROVE ReadTraceInv'
<1>1. TypeOK'
  BY TypeNext DEF ReadTraceInv, Next
<1>2. UNCHANGED <<trace, filter, copies, origin, filtered>>
      /\ pc = "read" /\ pc' = "branch" /\ i' = 1 /\ position' = position + 1
      /\ buffer' = trace[position + 1] /\ first_time' = TRUE
  BY DEF ReadRecord, inputs, saved
<1>3. position \in Nat
  BY DEF ReadTraceInv, TypeOK
<1>4. OriginInv'
  BY <1>2, <1>3 DEF ReadTraceInv, OriginInv, TypeOK
<1>5. LoopInv'
  <2>1. \A a \in DOMAIN origin : origin[a] < position + 1
    BY <1>3 DEF ReadTraceInv, OriginInv
  <2>2. QED
    BY <1>2, <1>3, <2>1, ReadTraceAssumption DEF LoopInv, Branches
<1>6. ASSUME NEW b \in Branches PROVE HoldsExactly(b)'
  <2>1. Shown(b)' = Shown(b)
    BY <1>2, <1>3, ReadTraceAssumption DEF Shown, Branches, ReadTraceInv, TypeOK
  <2>2. Pointers(b)' = Pointers(b)
    BY <1>2 DEF Pointers
  <2>3. QED
    BY <1>2, <2>1, <2>2, HoldsKept
<1>7. QED
  BY <1>1, <1>2, <1>4, <1>5, <1>6
     DEF ReadTraceInv, DoneInv, CopiesFaithful, SavedOnce, FilterExact

\* The loop over the branches leaves the share of the other branches alone and
\* shows the record to the branch it has come to.
LEMMA ShownNext ==
  ASSUME ReadTraceInv, pc = "branch", NextBranch, position' = position,
         NEW b \in Branches
  PROVE  /\ b # i => Shown(b)' = Shown(b)
         /\ b = i => Shown(b) = position - 1 /\ Shown(b)' = position
<1>1. i \in Branches
  BY DEF ReadTraceInv, TypeOK
<1>2. i' = i + 1 /\ pc' = IF i = NumBranches THEN "read" ELSE "branch"
  BY DEF NextBranch
<1>3. CASE i = NumBranches
  BY <1>1, <1>2, <1>3, ReadTraceAssumption DEF Shown, Branches
<1>4. CASE i # NumBranches
  BY <1>1, <1>2, <1>4, ReadTraceAssumption DEF Shown, Branches
<1>5. QED
  BY <1>3, <1>4

\* A branch is shown a record it does not accept.
LEMMA InvReject ==
  ASSUME ReadTraceInv, Reject PROVE ReadTraceInv'
<1>1. TypeOK'
  BY TypeNext DEF ReadTraceInv, Next
<1>2. UNCHANGED <<trace, filter, copies, origin, filtered, position, buffer,
                  first_time, target>>
      /\ pc = "branch" /\ pc' \in {"read", "branch"} /\ NextBranch
      /\ ~ Accepts(i, buffer)
  BY DEF Reject, inputs, saved, NextBranch
<1>3. position \in Nat /\ position > 0 /\ buffer = trace[position]
      /\ i \in Branches
  BY <1>2 DEF ReadTraceInv, TypeOK, LoopInv
<1>4. LoopInv'
  BY <1>2, <1>3, ReadTraceAssumption
     DEF ReadTraceInv, LoopInv, NextBranch, Branches
<1>5. ASSUME NEW b \in Branches PROVE HoldsExactly(b)'
  <2>1. Pointers(b)' = Pointers(b)
    BY <1>2 DEF Pointers
  <2>2. CASE b # i
    BY <1>2, <2>1, <2>2, ShownNext, HoldsKept
  <2>3. CASE b = i
    <3>1. Shown(b) = position - 1 /\ Shown(b)' = position
      BY <1>2, <2>3, ShownNext
    <3>2. {q \in 1 .. position : Accepts(b, trace[q])}
            = {q \in 1 .. position - 1 : Accepts(b, trace[q])}
      BY <1>2, <1>3, <2>3
    <3>3. \A r : Accepts(b, r)' <=> Accepts(b, r)
      BY <1>2 DEF Accepts
    <3>4. HoldsExactly(b)
      BY DEF ReadTraceInv, FilterExact
    <3>5. QED
      BY <1>2, <2>1, <3>1, <3>2, <3>3, <3>4 DEF HoldsExactly
  <2>4. QED
    BY <2>2, <2>3
<1>6. QED
  BY <1>1, <1>2, <1>4, <1>5
     DEF ReadTraceInv, OriginInv, DoneInv, CopiesFaithful, SavedOnce,
         FilterExact

\* A record accepted for the first time gets a copy that lies after all the
\* others, and further branches find it there.
LEMMA TargetIsCurrent ==
  ASSUME ReadTraceInv, pc = "branch", KeepTarget
  PROVE  /\ target' = Len(copies') /\ target' \in DOMAIN copies'
         /\ Len(origin') = Len(copies') /\ DOMAIN origin' = DOMAIN copies'
         /\ origin'[target'] = position /\ copies'[target'] = buffer
         /\ ~ first_time'
         /\ \A a \in DOMAIN copies :
              /\ a \in DOMAIN copies' /\ a <= target'
              /\ origin'[a] = origin[a] /\ copies'[a] = copies[a]
         /\ \A a \in DOMAIN copies' : a \in DOMAIN copies \/ a = target'
<1>1. /\ copies \in Seq(Records) /\ origin \in Seq(Nat) /\ buffer \in Records
      /\ position \in Nat /\ Len(origin) = Len(copies)
  BY DEF ReadTraceInv, TypeOK, OriginInv
<1>2. CASE first_time
  <2>1. /\ copies' = Append(copies, buffer) /\ origin' = Append(origin, position)
        /\ target' = Len(copies) + 1 /\ first_time' = FALSE
    BY <1>2 DEF KeepTarget, SaveRecord
  <2>2. /\ Len(copies) \in Nat /\ DOMAIN copies = 1 .. Len(copies)
        /\ Len(copies') = Len(copies) + 1 /\ DOMAIN copies' = 1 .. Len(copies) + 1
        /\ \A n \in 1 .. Len(copies) : copies'[n] = copies[n]
        /\ copies'[Len(copies) + 1] = buffer
    BY <1>1, <2>1, AppendFacts
  <2>3. /\ Len(origin') = Len(copies) + 1 /\ DOMAIN origin' = 1 .. Len(copies) + 1
        /\ \A n \in 1 .. Len(copies) : origin'[n] = origin[n]
        /\ origin'[Len(copies) + 1] = position
    BY <1>1, <2>1, AppendFacts
  <2>4. QED
    BY <2>1, <2>2, <2>3
<1>3. CASE ~first_time
  <2>1. UNCHANGED <<copies, origin, target, first_time>>
    BY <1>3 DEF KeepTarget, saved
  <2>2. /\ target = Len(copies) /\ target \in DOMAIN origin
        /\ origin[target] = position
    BY <1>3 DEF ReadTraceInv, LoopInv
  <2>3. DOMAIN copies = 1 .. Len(copies) /\ DOMAIN origin = 1 .. Len(copies)
        /\ Len(copies) \in Nat
    BY <1>1, LenProperties
  <2>4. copies[target] = buffer
    BY <2>2, <2>3 DEF ReadTraceInv, LoopInv, CopiesFaithful
  <2>5. QED
    BY <1>1, <1>3, <2>1, <2>2, <2>3, <2>4
<1>4. first_time \in BOOLEAN
  BY DEF ReadTraceInv, TypeOK
<1>5. QED
  BY <1>2, <1>3, <1>4

\* A branch accepts a record and gets the pointer to its copy.
LEMMA InvAccept ==
  ASSUME ReadTraceInv, Accept PROVE ReadTraceInv'
<1>1. TypeOK'
  BY TypeNext DEF ReadTraceInv, Next
<1>2. UNCHANGED <<trace, filter, position, buffer>>
      /\ pc = "branch" /\ pc' \in {"read", "branch"} /\ NextBranch
      /\ Accepts(i, buffer) /\ KeepTarget
      /\ filtered' = [filtered EXCEPT ![i] = Append(@, target')]
  BY DEF Accept, inputs, NextBranch
<1>3. position \in Nat /\ position > 0 /\ buffer = trace[position]
      /\ i \in Branches
  BY <1>2 DEF ReadTraceInv, TypeOK, LoopInv
<1>4. /\ target' = Len(copies') /\ target' \in DOMAIN copies'
      /\ Len(origin') = Len(copies') /\ DOMAIN origin' = DOMAIN copies'
      /\ origin'[target'] = position /\ copies'[target'] = buffer
      /\ ~ first_time'
      /\ \A a \in DOMAIN copies :
           /\ a \in DOMAIN copies' /\ a <= target'
           /\ origin'[a] = origin[a] /\ copies'[a] = copies[a]
      /\ \A a \in DOMAIN copies' : a \in DOMAIN copies \/ a = target'
  BY <1>2, TargetIsCurrent
<1>5. DOMAIN origin = DOMAIN copies /\ DOMAIN copies = 1 .. Len(copies)
      /\ Len(copies) \in Nat
  BY LenProperties DEF ReadTraceInv, TypeOK, OriginInv
<1>6. LoopInv'
  BY <1>2, <1>3, <1>4, ReadTraceAssumption
     DEF ReadTraceInv, LoopInv, NextBranch, Branches
<1>7. OriginInv'
  <2>1. \A a \in DOMAIN origin' : origin'[a] \in 1 .. position
    BY <1>3, <1>4, <1>5 DEF ReadTraceInv, OriginInv
  <2>2. QED
    BY <1>2, <1>4, <2>1 DEF OriginInv
<1>8. CopiesFaithful'
  BY <1>2, <1>3, <1>4, <1>5 DEF ReadTraceInv, CopiesFaithful
<1>9. SavedOnce'
  <2>1. ASSUME NEW a \in DOMAIN origin', NEW c \in DOMAIN origin', a < c
        PROVE  origin'[a] < origin'[c]
    <3>1. a \in DOMAIN origin /\ a <= target'
      BY <1>4, <1>5, <2>1, LenProperties DEF TypeOK
    <3>2. CASE c \in DOMAIN origin
      BY <1>4, <1>5, <2>1, <3>1, <3>2 DEF ReadTraceInv, SavedOnce
    <3>3. CASE c \notin DOMAIN origin
      <4>1. c = target' /\ first_time
        BY <1>2, <1>4, <1>5, <3>3 DEF KeepTarget, saved
      <4>2. origin[a] < position
        BY <1>2, <3>1, <4>1 DEF ReadTraceInv, LoopInv
      <4>3. QED
        BY <1>4, <1>5, <3>1, <4>1, <4>2
    <3>4. QED
      BY <3>2, <3>3
  <2>2. QED
    BY <2>1 DEF SavedOnce
<1>10. ASSUME NEW b \in Branches PROVE HoldsExactly(b)'
  <2>1. CASE b # i
    <3>1. Pointers(b)' = Pointers(b)
      BY <1>1, <1>2, <2>1 DEF Pointers, ReadTraceInv, TypeOK
    <3>2. QED
      BY <1>2, <1>4, <2>1, <3>1, ShownNext, HoldsKept
  <2>2. CASE b = i
    <3> DEFINE p == filtered[b]
               r == Append(p, target')
    <3>1. Pointers(b) = p /\ Pointers(b)' = r
      BY <1>2, <2>2 DEF Pointers, ReadTraceInv, TypeOK
    <3>2. Shown(b) = position - 1 /\ Shown(b)' = position
      BY <1>2, <2>2, ShownNext
    <3>3. \A q : Accepts(b, q)' <=> Accepts(b, q)
      BY <1>2 DEF Accepts
    <3>4. /\ \A n \in DOMAIN p : p[n] \in DOMAIN copies
          /\ \A m, n \in DOMAIN p : m < n => p[m] < p[n]
          /\ {origin[p[n]] : n \in DOMAIN p}
               = {q \in 1 .. position - 1 : Accepts(b, trace[q])}
      <4>1. HoldsExactly(b)
        BY DEF ReadTraceInv, FilterExact
      <4>2. QED
        BY <3>1, <3>2, <4>1 DEF HoldsExactly
    <3>5. /\ Len(p) \in Nat /\ DOMAIN p = 1 .. Len(p)
          /\ DOMAIN r = 1 .. Len(p) + 1
          /\ \A n \in 1 .. Len(p) : r[n] = p[n]
          /\ r[Len(p) + 1] = target'
      <4>1. p \in Seq(Int) /\ target' \in Int
        BY <1>1 DEF ReadTraceInv, TypeOK
      <4>2. QED
        BY <4>1, AppendFacts
    <3> HIDE DEF p, r
    <3>6. \A n \in 1 .. Len(p) : p[n] \in DOMAIN copies /\ p[n] < target'
      <4>1. TAKE n \in 1 .. Len(p)
      <4>2. p[n] \in DOMAIN copies /\ p[n] <= target'
        BY <1>4, <3>4, <3>5
      <4>3. origin[p[n]] \in 1 .. position - 1
        BY <3>4, <3>5
      <4>4. origin'[p[n]] # origin'[target']
        BY <1>3, <1>4, <4>2, <4>3
      <4>5. p[n] \in Int /\ target' \in Int
        BY <1>1, <1>5, <4>2 DEF TypeOK
      <4>6. QED
        BY <4>2, <4>4, <4>5
    <3>7. \A n \in DOMAIN r : r[n] \in DOMAIN copies'
      BY <1>4, <3>5, <3>6
    <3>8. \A m, n \in DOMAIN r : m < n => r[m] < r[n]
      <4>1. TAKE m, n \in DOMAIN r
      <4>2. HAVE m < n
      <4>3. m \in 1 .. Len(p) /\ (n \in 1 .. Len(p) \/ n = Len(p) + 1)
        BY <3>5, <4>2
      <4>4. QED
        BY <3>4, <3>5, <3>6, <4>2, <4>3
    <3>9. {origin'[r[n]] : n \in DOMAIN r}
            = {origin[p[n]] : n \in DOMAIN p} \cup {position}
      <4>1. \A n \in 1 .. Len(p) : origin'[r[n]] = origin[p[n]]
        BY <1>4, <3>5, <3>6
      <4>2. origin'[r[Len(p) + 1]] = position
        BY <1>4, <3>5
      <4>3. \A n \in 1 .. Len(p) + 1 : n \in 1 .. Len(p) \/ n = Len(p) + 1
        BY <3>5
      <4>4. Len(p) + 1 \in 1 .. Len(p) + 1
            /\ \A n \in 1 .. Len(p) : n \in 1 .. Len(p) + 1
        BY <3>5
      <4>5. QED
        BY <3>5, <4>1, <4>2, <4>3, <4>4
    <3>10. {q \in 1 .. position : Accepts(b, trace[q])}
             = {q \in 1 .. position - 1 : Accepts(b, trace[q])} \cup {position}
      BY <1>2, <1>3, <2>2
    <3>11. {origin'[r[n]] : n \in DOMAIN r}
             = {q \in 1 .. Shown(b)' : Accepts(b, trace[q])'}
      <4>1. {origin'[r[n]] : n \in DOMAIN r}
              = {q \in 1 .. position : Accepts(b, trace[q])}
        BY <3>4, <3>9, <3>10
      <4>2. {q \in 1 .. Shown(b)' : Accepts(b, trace[q])'}
              = {q \in 1 .. position : Accepts(b, trace[q])}
        BY <1>2, <3>2, <3>3
      <4>3. QED
        BY <4>1, <4>2
    <3>12. QED
      BY <1>2, <3>1, <3>7, <3>8, <3>11 DEF HoldsExactly
  <2>3. QED
    BY <2>1, <2>2
<1>11. QED
  BY <1>1, <1>2, <1>6, <1>7, <1>8, <1>9, <1>10
     DEF ReadTraceInv, DoneInv, FilterExact

\* An allocation fails, and the process is aborted.
LEMMA InvOutOfMemory ==
  ASSUME ReadTraceInv, OutOfMemory PROVE ReadTraceInv'
<1>1. TypeOK'
  BY TypeNext DEF ReadTraceInv, Next
<1>2. UNCHANGED <<trace, filter, copies, origin, filtered, position, i>>
      /\ pc \in {"read", "branch"} /\ pc' = "aborted"
  BY DEF OutOfMemory, inputs, saved, locals
<1>3. ASSUME NEW b \in Branches PROVE HoldsExactly(b)'
  BY <1>2, HoldsKept DEF Pointers, Shown
<1>4. QED
  BY <1>1, <1>2, <1>3
     DEF ReadTraceInv, OriginInv, LoopInv, DoneInv, CopiesFaithful, SavedOnce,
         FilterExact

\* Every branch gets its sentinel.
LEMMA InvEndOfTrace ==
  ASSUME ReadTraceInv, EndOfTrace PROVE ReadTraceInv'
<1>1. TypeOK'
  BY TypeNext DEF ReadTraceInv, Next
<1>2. UNCHANGED <<trace, filter, copies, origin, position, i>>
      /\ pc = "read" /\ pc' = "done"
      /\ filtered' = [b \in Branches |-> Append(filtered[b], Null)]
  BY DEF EndOfTrace, inputs, saved, locals
<1>3. ASSUME NEW b \in Branches
      PROVE  HoldsExactly(b)' /\ filtered'[b] # <<>>
             /\ filtered'[b][Len(filtered'[b])] = Null
  <2>1. filtered[b] \in Seq(Int) /\ Null \in Int
    BY DEF ReadTraceInv, TypeOK, Null
  <2>2. filtered'[b] = Append(filtered[b], Null)
    BY <1>2
  <2>3. Pointers(b)' = Pointers(b)
    <3>1. Pointers(b) = filtered[b]
      BY <1>2 DEF Pointers
    <3>2. Pointers(b)' = SubSeq(filtered'[b], 1, Len(filtered'[b]) - 1)
      BY <1>2 DEF Pointers
    <3>3. QED
      BY <2>1, <2>2, <3>1, <3>2, FrontOfAppend
  <2>4. Shown(b)' = Shown(b)
    BY <1>2 DEF Shown
  <2>5. HoldsExactly(b)'
    BY <1>2, <2>3, <2>4, HoldsKept
  <2>6. filtered'[b][Len(filtered'[b])] = Null /\ Len(filtered'[b]) # 0
    BY <2>1, <2>2, AppendFacts
  <2>7. QED
    BY <2>5, <2>6
<1>4. QED
  BY <1>1, <1>2, <1>3
     DEF ReadTraceInv, OriginInv, LoopInv, DoneInv, CopiesFaithful, SavedOnce,
         FilterExact

\* Nothing changes.
LEMMA InvStutter ==
  ASSUME ReadTraceInv, UNCHANGED vars PROVE ReadTraceInv'
<1>1. TypeOK'
  BY TypeNext DEF ReadTraceInv
<1>2. UNCHANGED <<trace, filter, copies, origin, filtered, position, i, buffer,
                  target, first_time, pc>>
  BY DEF vars, inputs, saved, locals
<1>3. ASSUME NEW b \in Branches PROVE HoldsExactly(b)'
  BY <1>2, HoldsKept DEF Pointers, Shown
<1>4. QED
  BY <1>1, <1>2, <1>3
     DEF ReadTraceInv, OriginInv, LoopInv, DoneInv, CopiesFaithful, SavedOnce,
         FilterExact

\* Every step preserves the invariant.
LEMMA InvNext == ReadTraceInv /\ [Next]_vars => ReadTraceInv'
BY InvReadRecord, InvReject, InvAccept, InvOutOfMemory, InvEndOfTrace,
   InvStutter DEF Next

-----------------------------------------------------------------------------
(* Theorems.                                                               *)

\* The invariant holds in every state read_trace can reach, whatever the
\* trace, the filters, the number of branches and the failing allocations.
THEOREM Invariance == Spec => []ReadTraceInv
BY InvInit, InvNext, PTL DEF Spec

\* Every variable of read_trace keeps its type.
THEOREM TypeCorrect == Spec => []TypeOK
<1>1. ReadTraceInv => TypeOK
  BY DEF ReadTraceInv
<1>2. QED
  BY <1>1, Invariance, PTL

\* The copies are never disturbed by the reuse of the reader's buffer.
THEOREM CopiesCorrect == Spec => []CopiesFaithful
<1>1. ReadTraceInv => CopiesFaithful
  BY DEF ReadTraceInv
<1>2. QED
  BY <1>1, Invariance, PTL

\* No record of the trace is copied twice, however many branches accept it.
THEOREM SavedOnceCorrect == Spec => []SavedOnce
<1>1. ReadTraceInv => SavedOnce
  BY DEF ReadTraceInv
<1>2. QED
  BY <1>1, Invariance, PTL

\* Every branch holds exactly the records it accepts among those it has been
\* shown, in the order of the trace.
THEOREM FilterCorrect == Spec => []FilterExact
<1>1. ReadTraceInv => FilterExact
  BY DEF ReadTraceInv
<1>2. QED
  BY <1>1, Invariance, PTL

\* A grouper that walks its recordset to the first NULL finds all of it.
THEOREM SentinelCorrect == Spec => []SentinelLast
<1>1. ASSUME ReadTraceInv, pc = "done", NEW b \in Branches,
             NEW n \in DOMAIN filtered[b]
      PROVE  filtered[b] # <<>>
             /\ (filtered[b][n] = Null <=> n = Len(filtered[b]))
  <2> DEFINE f == filtered[b]
  <2>1. f \in Seq(Int) /\ DOMAIN copies = 1 .. Len(copies)
    BY <1>1, LenProperties DEF ReadTraceInv, TypeOK
  <2>2. f # <<>> /\ f[Len(f)] = Null
    BY <1>1 DEF ReadTraceInv, DoneInv
  <2>3. CASE n # Len(f)
    <3>1. Pointers(b) = SubSeq(f, 1, Len(f) - 1)
      BY <1>1 DEF Pointers
    <3> HIDE DEF f
    <3>2. n \in 1 .. Len(f) - 1 /\ Len(f) \in Nat
      BY <1>1, <2>1, <2>3, LenProperties DEF f
    <3>3. Pointers(b)[n] = f[n] /\ n \in DOMAIN Pointers(b)
      BY <2>1, <3>1, <3>2, SubSeqProperties
    <3>4. f[n] \in DOMAIN copies
      BY <1>1, <3>3 DEF ReadTraceInv, FilterExact, HoldsExactly
    <3>5. QED
      BY <2>1, <2>2, <2>3, <3>4 DEF Null, f
  <2>4. QED
    BY <2>2, <2>3
<1>2. ASSUME ReadTraceInv, pc = "done", NEW b \in Branches
      PROVE  filtered[b] # <<>>
  BY <1>2 DEF ReadTraceInv, DoneInv
<1>3. ReadTraceInv => SentinelLast
  BY <1>1, <1>2 DEF SentinelLast
<1>4. QED
  BY <1>3, Invariance, PTL

-----------------------------------------------------------------------------
(* What the branches find behind their pointers.                           *)

\* What the branch b finds behind its pointers.
Found(b) == [n \in DOMAIN Pointers(b) |-> Deref(Pointers(b)[n])]

\* Behind the pointers of a branch there are always copies.
LEMMA FoundCopies ==
  ASSUME ReadTraceInv, NEW b \in Branches
  PROVE  /\ Pointers(b) \in Seq(Int)
         /\ \A n \in DOMAIN Pointers(b) : Pointers(b)[n] \in DOMAIN copies
         /\ Found(b) = [n \in DOMAIN Pointers(b) |-> copies[Pointers(b)[n]]]
         /\ Found(b) \in Seq(Records)
         /\ Len(Found(b)) = Len(Pointers(b))
<1>1. HoldsExactly(b) /\ filtered[b] \in Seq(Int) /\ copies \in Seq(Records)
  BY DEF ReadTraceInv, FilterExact, TypeOK
<1>2. \A n \in DOMAIN Pointers(b) : Pointers(b)[n] \in DOMAIN copies
  BY <1>1 DEF HoldsExactly
<1>3. Pointers(b) \in Seq(Int)
  <2>1. CASE pc = "done"
    <3>1. filtered[b] # <<>>
      BY <2>1 DEF ReadTraceInv, DoneInv
    <3>2. Len(filtered[b]) \in Nat /\ Len(filtered[b]) # 0
      BY <1>1, <3>1, EmptySeq, LenProperties
    <3>3. Len(filtered[b]) - 1 \in 0 .. Len(filtered[b])
      BY <3>2
    <3>4. SubSeq(filtered[b], 1, Len(filtered[b]) - 1) \in Seq(Int)
      <4> DEFINE k == Len(filtered[b]) - 1
      <4>1. k \in Nat /\ \A n \in 1 .. k : n \in 1 .. Len(filtered[b])
        BY <3>2, <3>3
      <4>2. \A n \in 1 .. k : filtered[b][n] \in Int
        BY <1>1, <4>1, ElementOfSeq
      <4> HIDE DEF k
      <4>3. SubSeq(filtered[b], 1, k) = [n \in 1 .. k |-> filtered[b][n]]
        BY <4>1 DEF SubSeq
      <4>4. SubSeq(filtered[b], 1, k) \in Seq(Int)
        BY <4>1, <4>2, <4>3, IsASeq
      <4>5. QED
        BY <4>4 DEF k
    <3>5. QED
      BY <2>1, <3>4 DEF Pointers
  <2>2. CASE pc # "done"
    BY <1>1, <2>2 DEF Pointers
  <2>3. QED
    BY <2>1, <2>2
<1>4. DOMAIN copies = 1 .. Len(copies) /\ Len(copies) \in Nat
  BY <1>1, LenProperties
<1>5. Found(b) = [n \in DOMAIN Pointers(b) |-> copies[Pointers(b)[n]]]
  <2>1. \A n \in DOMAIN Pointers(b) : Deref(Pointers(b)[n]) = copies[Pointers(b)[n]]
    BY <1>2, <1>4 DEF Deref, RecBuf
  <2>2. QED
    BY <2>1 DEF Found
<1>6. /\ DOMAIN Pointers(b) = 1 .. Len(Pointers(b)) /\ Len(Pointers(b)) \in Nat
      /\ \A n \in 1 .. Len(Pointers(b)) : copies[Pointers(b)[n]] \in Records
  BY <1>1, <1>2, <1>3, LenProperties, ElementOfSeq
<1>7. Found(b) \in Seq(Records) /\ Len(Found(b)) = Len(Pointers(b))
  BY <1>5, <1>6, IsASeq, LenProperties
<1>8. QED
  BY <1>2, <1>3, <1>5, <1>7

\* The same of all branches, and in the state after a step.
LEMMA FoundCopiesAll ==
  ReadTraceInv =>
    \A b \in Branches :
      Found(b) = [n \in DOMAIN Pointers(b) |-> copies[Pointers(b)[n]]]
BY FoundCopies

LEMMA FoundCopiesNext ==
  ReadTraceInv' =>
    \A b \in Branches :
      Found(b)' = [n \in DOMAIN Pointers(b)' |-> copies'[Pointers(b)'[n]]]
<1>1. (ReadTraceInv =>
        \A b \in Branches :
          Found(b) = [n \in DOMAIN Pointers(b) |-> copies[Pointers(b)[n]]])'
  BY FoundCopiesAll, PTL
<1>2. QED
  BY <1>1 DEF Branches

\* The steps that keep the copies there are leave alone what a branch finds
\* behind pointers that do not change.
LEMMA FoundKept ==
  ASSUME ReadTraceInv, ReadTraceInv', NEW b \in Branches,
         Pointers(b)' = Pointers(b),
         \A a \in DOMAIN copies : copies'[a] = copies[a]
  PROVE  Found(b)' = Found(b)
<1>1. /\ \A n \in DOMAIN Pointers(b) : Pointers(b)[n] \in DOMAIN copies
      /\ Found(b) = [n \in DOMAIN Pointers(b) |-> copies[Pointers(b)[n]]]
  BY FoundCopies
<1>2. Found(b)' = [n \in DOMAIN Pointers(b)' |-> copies'[Pointers(b)'[n]]]
  BY FoundCopiesNext
<1>3. QED
  BY <1>1, <1>2

\* A branch that accepts a record finds it behind its new pointer.
LEMMA FoundNext ==
  ASSUME ReadTraceInv, ReadTraceInv', Accept
  PROVE  \A b \in Branches :
           Found(b)' = IF b = i THEN Append(Found(b), buffer) ELSE Found(b)
<1>1. /\ pc = "branch" /\ pc' \in {"read", "branch"} /\ KeepTarget
      /\ filtered' = [filtered EXCEPT ![i] = Append(@, target')]
  BY DEF Accept, NextBranch
<1>2. /\ i \in Branches /\ filtered \in [Branches -> Seq(Int)]
      /\ target' \in Int /\ buffer \in Records
  BY <1>1 DEF ReadTraceInv, TypeOK
<1>3. /\ target' \in DOMAIN copies' /\ copies'[target'] = buffer
      /\ \A a \in DOMAIN copies : copies'[a] = copies[a]
  BY <1>1, TargetIsCurrent
<1>4. ASSUME NEW b \in Branches, b # i PROVE Found(b)' = Found(b)
  <2>1. Pointers(b)' = Pointers(b)
    BY <1>1, <1>2, <1>4 DEF Pointers
  <2>2. QED
    BY <1>3, <2>1, FoundKept
<1>5. ASSUME NEW b \in Branches, b = i
      PROVE  Found(b)' = Append(Found(b), buffer)
  <2> DEFINE p == Pointers(b)
             r == Append(p, target')
  <2>1. p \in Seq(Int) /\ p = filtered[b]
    BY <1>1, <1>2, <1>5 DEF Pointers
  <2>2. Pointers(b)' = r
    BY <1>1, <1>2, <1>5 DEF Pointers
  <2>3. /\ Len(p) \in Nat /\ DOMAIN p = 1 .. Len(p)
        /\ DOMAIN r = 1 .. Len(p) + 1
        /\ \A n \in 1 .. Len(p) : r[n] = p[n]
        /\ r[Len(p) + 1] = target'
    BY <1>2, <2>1, AppendFacts
  <2>4. /\ Found(b) \in Seq(Records) /\ Len(Found(b)) = Len(p)
        /\ Found(b) = [n \in DOMAIN p |-> copies[p[n]]]
        /\ \A n \in DOMAIN p : p[n] \in DOMAIN copies
    BY <1>2, FoundCopies
  <2> HIDE DEF p, r
  <2>5. [n \in DOMAIN r |-> copies'[r[n]]] = Append(Found(b), buffer)
    <3> DEFINE f == Found(b)
               g == Append(f, buffer)
    <3>1. /\ Len(g) = Len(p) + 1 /\ g \in Seq(Records)
          /\ \A n \in 1 .. Len(p) : g[n] = f[n]
          /\ g[Len(p) + 1] = buffer
      BY <1>2, <2>4, AppendFacts
    <3>2. g = [n \in 1 .. Len(p) + 1 |-> g[n]]
      BY <3>1, LenProperties
    <3> HIDE DEF g
    <3>3. ASSUME NEW n \in 1 .. Len(p) + 1 PROVE copies'[r[n]] = g[n]
      <4>1. CASE n = Len(p) + 1
        BY <1>3, <2>3, <3>1, <4>1
      <4>2. CASE n # Len(p) + 1
        <5>1. n \in 1 .. Len(p)
          BY <2>3, <4>2
        <5>2. f[n] = copies[p[n]] /\ p[n] \in DOMAIN copies
          BY <2>3, <2>4, <5>1
        <5>3. QED
          BY <1>3, <2>3, <3>1, <5>1, <5>2
      <4>3. QED
        BY <4>1, <4>2
    <3>4. QED
      BY <2>3, <3>2, <3>3 DEF g
  <2>6. Found(b)' = [n \in DOMAIN r |-> copies'[r[n]]]
    BY <2>2, FoundCopiesNext
  <2>7. QED
    BY <2>5, <2>6
<1>6. QED
  BY <1>4, <1>5

-----------------------------------------------------------------------------
(* ReadTrace implements Splitter.                                          *)

\* What the loop over the branches has shown to each of them, by the kinds of
\* steps there are: only a step of the loop shows a record, to one branch.
LEMMA ShownKept ==
  ASSUME ReadTraceInv,
         ReadRecord \/ OutOfMemory \/ EndOfTrace \/ UNCHANGED vars,
         NEW b \in Branches
  PROVE  Shown(b)' = Shown(b)
<1> USE ReadTraceAssumption DEF Branches
<1>1. position \in Nat /\ i \in 1 .. NumBranches + 1
  BY DEF ReadTraceInv, TypeOK
<1>2. CASE ReadRecord
  <2>1. i = NumBranches + 1 /\ i' = 1 /\ position' = position + 1
    BY <1>2 DEF ReadRecord, ReadTraceInv, TypeOK
  <2>2. QED
    BY <1>1, <2>1 DEF Shown
<1>3. CASE OutOfMemory
  BY <1>3 DEF OutOfMemory, locals, Shown
<1>4. CASE EndOfTrace
  BY <1>4 DEF EndOfTrace, locals, Shown
<1>5. CASE UNCHANGED vars
  BY <1>5 DEF vars, locals, Shown
<1>6. QED
  BY <1>2, <1>3, <1>4, <1>5

\* The same steps leave what the branches find.
LEMMA FoundUnmoved ==
  ASSUME ReadTraceInv, ReadTraceInv',
         ReadRecord \/ Reject \/ OutOfMemory \/ EndOfTrace \/ UNCHANGED vars,
         NEW b \in Branches
  PROVE  Found(b)' = Found(b)
<1>1. UNCHANGED copies
  BY DEF ReadRecord, Reject, OutOfMemory, EndOfTrace, vars, saved
<1>2. CASE EndOfTrace
  <2>1. /\ pc = "read" /\ pc' = "done" /\ filtered[b] \in Seq(Int) /\ Null \in Int
        /\ filtered'[b] = Append(filtered[b], Null)
    BY <1>2 DEF EndOfTrace, ReadTraceInv, TypeOK, Null
  <2>2. Pointers(b) = filtered[b]
    BY <2>1 DEF Pointers
  <2>3. Pointers(b)' = SubSeq(filtered'[b], 1, Len(filtered'[b]) - 1)
    BY <2>1 DEF Pointers
  <2>4. Pointers(b)' = Pointers(b)
    BY <2>1, <2>2, <2>3, FrontOfAppend
  <2>5. QED
    BY <1>1, <2>4, FoundKept
<1>3. CASE ~ EndOfTrace
  <2>1. Pointers(b)' = Pointers(b)
    BY <1>3
       DEF ReadRecord, Reject, NextBranch, OutOfMemory, vars, saved, locals, Pointers
  <2>2. QED
    BY <1>1, <2>1, FoundKept
<1>4. QED
  BY <1>2, <1>3

\* read_trace starts as the ideal splitter does.
LEMMA SplitterInit == Init => Split!SplitInit
<1> SUFFICES ASSUME Init PROVE Split!SplitInit
  OBVIOUS
<1>1. ASSUME NEW b \in Branches PROVE Shown(b) = 0 /\ Pointers(b) = <<>>
  BY <1>1, ReadTraceAssumption DEF Init, Pointers, Shown, Branches
<1>2. QED
  BY <1>1 DEF Split!SplitInit

\* A record that is shown to the branch the loop has come to.
LEMMA SplitterShow ==
  ASSUME ReadTraceInv, ReadTraceInv', Reject \/ Accept
  PROVE  Split!Show(i)
<1> DEFINE accepts   == [b \in Branches |-> {r \in Records : Accepts(b, r)}]
           cursor    == [b \in Branches |-> Shown(b)]
           delivered == [b \in Branches |-> Found(b)]
<1>1. /\ pc = "branch" /\ NextBranch /\ UNCHANGED <<trace, filter, position, buffer>>
      /\ Accepts(i, buffer) <=> Accept
  BY DEF Reject, Accept, inputs
<1>2. /\ i \in Branches /\ position \in 1 .. Len(trace)
      /\ trace \in Seq(Records) /\ buffer = trace[position] /\ buffer \in Records
  BY <1>1 DEF ReadTraceInv, TypeOK, LoopInv
<1>3. \A b \in Branches : /\ b # i => Shown(b)' = Shown(b)
                          /\ b = i => Shown(b) = position - 1
                                      /\ Shown(b)' = position
  BY <1>1, ShownNext
<1>4. \A b \in Branches :
        Found(b)' = IF b = i /\ Accepts(i, buffer) THEN Append(Found(b), buffer)
                                                   ELSE Found(b)
  <2>1. CASE Accept
    BY <1>1, <2>1, FoundNext
  <2>2. CASE Reject
    BY <2>2, FoundUnmoved DEF Reject
  <2>3. QED
    BY <2>1, <2>2
<1>5. accepts' = accepts
  BY <1>1 DEF Accepts
<1>6. cursor' = [cursor EXCEPT ![i] = @ + 1] /\ cursor[i] = position - 1
  <2>1. cursor[i] + 1 = position
    BY <1>2, <1>3
  <2>2. QED
    BY <1>2, <1>3, <2>1
<1>7. delivered' = [delivered EXCEPT ![i] =
                      IF buffer \in accepts[i] THEN Append(@, buffer) ELSE @]
  <2>1. buffer \in accepts[i] <=> Accepts(i, buffer)
    BY <1>2
  <2>2. QED
    BY <1>2, <1>4, <2>1
<1>8. cursor[i] < Len(trace) /\ trace[cursor[i] + 1] = buffer
  <2>1. cursor[i] + 1 = position /\ cursor[i] < Len(trace)
    <3>1. Len(trace) \in Nat
      BY <1>2, LenProperties
    <3>2. QED
      BY <1>2, <1>6, <3>1
  <2>2. QED
    BY <1>2, <2>1
<1>9. QED
  BY <1>1, <1>5, <1>6, <1>7, <1>8 DEF Split!Show, Found

\* Every step shows the current record to one branch, or leaves what all the
\* branches have been shown and have kept.
LEMMA SplitterStep ==
  ReadTraceInv /\ ReadTraceInv' /\ [Next]_vars => [Split!SplitNext]_Split!splitVars
<1> SUFFICES ASSUME ReadTraceInv, ReadTraceInv', [Next]_vars
             PROVE  [Split!SplitNext]_Split!splitVars
  OBVIOUS
<1>1. CASE Reject \/ Accept
  <2>1. i \in Branches
    BY <1>1 DEF Reject, Accept, ReadTraceInv, TypeOK
  <2>2. QED
    BY <1>1, <2>1, SplitterShow DEF Split!SplitNext
<1>2. CASE ReadRecord \/ OutOfMemory \/ EndOfTrace \/ UNCHANGED vars
  <2>1. UNCHANGED <<trace, filter>>
    BY <1>2 DEF ReadRecord, OutOfMemory, EndOfTrace, vars, inputs
  <2>2. \A b \in Branches : Shown(b)' = Shown(b) /\ Found(b)' = Found(b)
    BY <1>2, ShownKept, FoundUnmoved
  <2>3. UNCHANGED [b \in Branches |-> {r \in Records : Accepts(b, r)}]
    BY <2>1 DEF Accepts
  <2>4. QED
    BY <2>1, <2>2, <2>3 DEF Split!splitVars, Found
<1>3. QED
  BY <1>1, <1>2 DEF Next

\* read_trace implements the ideal splitter: what each branch finds behind its
\* pointers is at every moment the part of the trace it accepts.
THEOREM SplitterCorrect == Spec => ImplementsSplitter
<1>1. QED
  BY Invariance, SplitterInit, SplitterStep, PTL
     DEF Spec, ImplementsSplitter, Split!SplitSpec

-----------------------------------------------------------------------------
(* The streams.                                                            *)

\* The stream of a branch holds what the branch finds behind its pointers.
StreamsInv == \A b \in Branches : written[b] = Found(b)

\* The streams are empty in the beginning.
LEMMA StreamsInit == Init => StreamsInv
<1> SUFFICES ASSUME Init, NEW b \in Branches PROVE written[b] = Found(b)
  BY DEF StreamsInv
<1>1. Pointers(b) = <<>> /\ written[b] = <<>>
  BY DEF Init, Pointers
<1>2. QED
  BY <1>1 DEF Found

\* A stream gets a record when its branch gets a pointer to the copy.
LEMMA StreamsNext ==
  ReadTraceInv /\ ReadTraceInv' /\ StreamsInv /\ [Next]_vars => StreamsInv'
<1> SUFFICES ASSUME ReadTraceInv, ReadTraceInv', StreamsInv, [Next]_vars,
                    NEW b \in Branches
             PROVE  written'[b] = Found(b)'
  BY DEF StreamsInv, Branches
<1>1. written[b] = Found(b)
  BY DEF StreamsInv
<1>2. CASE Accept
  <2>1. written'[b] = IF b = i THEN Append(written[b], buffer) ELSE written[b]
    BY <1>2 DEF Accept, ReadTraceInv, TypeOK
  <2>2. QED
    BY <1>1, <1>2, <2>1, FoundNext
<1>3. CASE ReadRecord \/ Reject \/ OutOfMemory \/ EndOfTrace \/ UNCHANGED vars
  <2>1. written' = written
    BY <1>3 DEF ReadRecord, Reject, OutOfMemory, EndOfTrace, vars
  <2>2. QED
    BY <1>1, <1>3, <2>1, FoundUnmoved
<1>4. QED
  BY <1>2, <1>3 DEF Next

\* The file of a branch has the records the branch finds behind its pointers,
\* in the same order.
THEOREM StreamsCorrect == Spec => []StreamsAgree
<1>1. ReadTraceInv /\ StreamsInv => StreamsAgree
  <2> SUFFICES ASSUME ReadTraceInv, StreamsInv, NEW b \in Branches
               PROVE  /\ Len(written[b]) = Len(Pointers(b))
                      /\ \A n \in DOMAIN written[b] :
                           written[b][n] = Deref(Pointers(b)[n])
    BY DEF StreamsAgree
  <2>1. written[b] = Found(b) /\ Len(Found(b)) = Len(Pointers(b))
    BY FoundCopies DEF StreamsInv
  <2>2. QED
    BY <2>1 DEF Found
<1>2. QED
  BY <1>1, Invariance, StreamsInit, StreamsNext, PTL DEF Spec

-----------------------------------------------------------------------------
(* The copies.                                                             *)

\* Every copy is held by some branch, also before the loop over the branches has
\* ended.
HeldInv ==
  \A a \in DOMAIN copies : \E b \in Branches :
    \E n \in DOMAIN filtered[b] : filtered[b][n] = a

\* The step that makes a copy also gives some branch a pointer to it, and no
\* step takes a pointer away.
LEMMA HeldNext == ReadTraceInv /\ HeldInv /\ [Next]_vars => HeldInv'
<1> SUFFICES ASSUME ReadTraceInv, HeldInv, [Next]_vars PROVE HeldInv'
  OBVIOUS
<1>1. filtered \in [Branches -> Seq(Int)]
  BY DEF ReadTraceInv, TypeOK
<1>2. CASE Accept
  <2>1. /\ i \in Branches /\ target' \in Int
        /\ filtered' = [filtered EXCEPT ![i] = Append(@, target')]
        /\ \A a \in DOMAIN copies' : a \in DOMAIN copies \/ a = target'
    <3>1. TypeOK' /\ pc = "branch" /\ KeepTarget
      BY <1>2, TypeNext DEF Accept, ReadTraceInv
    <3>2. QED
      BY <1>2, <3>1, TargetIsCurrent DEF Accept, ReadTraceInv, TypeOK
  <2>2. \A a : (\E n \in DOMAIN filtered'[i] : filtered'[i][n] = a)
                 <=> (\E n \in DOMAIN filtered[i] : filtered[i][n] = a) \/ a = target'
    <3>1. filtered[i] \in Seq(Int) /\ filtered'[i] = Append(filtered[i], target')
      BY <1>1, <2>1
    <3>2. \A a :
            (\E n \in DOMAIN Append(filtered[i], target') :
               Append(filtered[i], target')[n] = a)
              <=> (\E n \in DOMAIN filtered[i] : filtered[i][n] = a) \/ a = target'
      BY <2>1, <3>1, AppendRange
    <3>3. QED
      BY <3>1, <3>2, Zenon
  <2>3. \A b \in Branches : b # i => filtered'[b] = filtered[b]
    BY <1>1, <2>1
  <2>4. ASSUME NEW a \in DOMAIN copies'
        PROVE  \E b \in Branches : \E n \in DOMAIN filtered'[b] : filtered'[b][n] = a
    <3>1. CASE a = target'
      BY <2>1, <2>2, <3>1
    <3>2. CASE a \in DOMAIN copies
      <4>1. PICK b \in Branches : \E n \in DOMAIN filtered[b] : filtered[b][n] = a
        BY <3>2 DEF HeldInv
      <4>2. \E n \in DOMAIN filtered'[b] : filtered'[b][n] = a
        BY <2>2, <2>3, <4>1
      <4>3. QED
        BY <4>2
    <3>3. QED
      BY <2>1, <3>1, <3>2
  <2>5. QED
    BY <2>4 DEF HeldInv, Branches
<1>3. CASE EndOfTrace
  <2>1. \A b \in Branches : \A a :
          (\E n \in DOMAIN filtered[b] : filtered[b][n] = a)
            => \E n \in DOMAIN filtered'[b] : filtered'[b][n] = a
    <3>1. \A b \in Branches : filtered'[b] = Append(filtered[b], Null)
      BY <1>3 DEF EndOfTrace
    <3>2. Null \in Int
      BY DEF Null
    <3>3. QED
      BY <1>1, <3>1, <3>2, AppendRange
  <2>2. copies' = copies
    BY <1>3 DEF EndOfTrace, saved
  <2>3. QED
    BY <2>1, <2>2 DEF HeldInv, Branches
<1>4. CASE ReadRecord \/ Reject \/ OutOfMemory \/ UNCHANGED vars
  <2>1. UNCHANGED <<copies, filtered>>
    BY <1>4 DEF ReadRecord, Reject, OutOfMemory, vars, saved
  <2>2. QED
    BY <2>1 DEF HeldInv, Branches
<1>5. QED
  BY <1>2, <1>3, <1>4 DEF Next

\* No copy is made for nobody.
THEOREM NoOrphansCorrect == Spec => []NoOrphans
<1>1. Init => HeldInv
  BY DEF Init, HeldInv
<1>2. HeldInv => NoOrphans
  BY DEF HeldInv, NoOrphans
<1>3. QED
  BY <1>1, <1>2, Invariance, HeldNext, PTL DEF Spec

\* The trace data stays exact when a record is saved, with the array or without.
LEMMA TraceDataNext ==
  ReadTraceInv /\ TraceDataExact /\ [Next]_vars => TraceDataExact'
<1> SUFFICES ASSUME ReadTraceInv, TraceDataExact, [Next]_vars
             PROVE  TraceDataExact'
  OBVIOUS
<1>1. CASE Accept /\ first_time
  <2>1. /\ copies' = Append(copies, buffer)
        /\ target' = Len(copies) + 1
        /\ num_records' = num_records + 1
        /\ \/ recordset' = Extended(target')
           \/ AllocMayFail /\ recordset' = <<>>
    BY <1>1, Zenon DEF Accept, KeepTarget, SaveRecord
  <2>2. /\ copies \in Seq(Records) /\ buffer \in Records /\ num_records \in Nat
        /\ recordset \in Seq(Int)
    BY DEF ReadTraceInv, TypeOK
  <2>3. num_records' = Len(copies')
    <3>1. Len(copies') = Len(copies) + 1
      BY <2>1, <2>2, AppendFacts
    <3>2. num_records = Len(copies)
      BY DEF TraceDataExact
    <3>3. QED
      BY <2>1, <3>1, <3>2
  <2>4. CASE AllocMayFail /\ recordset' = <<>>
    BY <2>3, <2>4, EmptySeq DEF TraceDataExact
  <2>5. CASE recordset' = Extended(target')
    <3> DEFINE m == num_records + 1
    <3>1. /\ m \in Nat /\ m \in 1 .. m /\ num_records' = m /\ target' = m
          /\ Len(copies) = num_records
      BY <2>1, <2>2 DEF TraceDataExact
    <3>2. recordset' = [n \in 1 .. m |-> IF n = m THEN m
                          ELSE IF n \in DOMAIN recordset THEN recordset[n]
                                                         ELSE Garbage]
      BY <2>5, <3>1 DEF Extended
    <3> HIDE DEF m
    <3>3. \A n \in DOMAIN recordset : recordset[n] \in {n, Garbage}
      BY DEF TraceDataExact
    <3>4. DOMAIN recordset' = 1 .. m /\ recordset'[m] = m
          /\ \A n \in DOMAIN recordset' : recordset'[n] \in {n, Garbage}
      BY <3>1, <3>2, <3>3
    <3>5. Len(recordset') = m
      <4>1. ASSUME NEW n \in 1 .. m PROVE recordset'[n] \in Int
        <5>1. recordset'[n] \in {n, Garbage}
          BY <3>4
        <5>2. QED
          BY <3>1, <5>1 DEF Garbage
      <4>2. recordset' = [n \in 1 .. m |-> recordset'[n]]
        BY <3>2
      <4>3. recordset' \in Seq(Int)
        <5> DEFINE e(n) == recordset'[n]
        <5>1. \A n \in 1 .. m : e(n) \in Int
          BY <4>1
        <5> HIDE DEF e
        <5>2. [n \in 1 .. m |-> e(n)] \in Seq(Int)
          BY <3>1, <5>1, IsASeq
        <5>3. QED
          BY <4>2, <5>2 DEF e
      <4>4. DOMAIN recordset' = 1 .. Len(recordset') /\ Len(recordset') \in Nat
        BY <4>3, LenProperties
      <4>5. QED
        BY <3>1, <3>4, <4>4
    <3>6. ~ AllocMayFail => recordset' = [n \in 1 .. num_records' |-> n]
      <4>1. ASSUME ~ AllocMayFail PROVE recordset = [n \in 1 .. num_records |-> n]
        BY <4>1 DEF TraceDataExact
      <4>2. \A n \in 1 .. m : n = m \/ n \in 1 .. num_records
        BY <2>2 DEF m
      <4>3. ASSUME ~ AllocMayFail, NEW n \in 1 .. m PROVE recordset'[n] = n
        BY <3>1, <3>2, <4>1, <4>2, <4>3
      <4>4. ASSUME ~ AllocMayFail PROVE recordset' = [n \in 1 .. m |-> n]
        BY <3>2, <4>3, <4>4
      <4>5. QED
        BY <3>1, <4>4
    <3>7. QED
      BY <2>3, <3>1, <3>4, <3>5, <3>6 DEF TraceDataExact
  <2>6. QED
    BY <2>1, <2>4, <2>5
<1>2. CASE ReadRecord \/ Reject \/ OutOfMemory \/ EndOfTrace \/ UNCHANGED vars
           \/ (Accept /\ ~ first_time)
  <2>1. UNCHANGED <<copies, recordset, num_records>>
    BY <1>2 DEF ReadRecord, Reject, OutOfMemory, EndOfTrace, vars, saved, Accept,
                KeepTarget
  <2>2. QED
    BY <2>1 DEF TraceDataExact
<1>3. QED
  BY <1>1, <1>2 DEF Next

\* What main finds in the trace data is the n-th copy in the n-th place, but for
\* what a realloc that failed has lost.
THEOREM TraceDataCorrect == Spec => []TraceDataExact
<1>1. Init => TraceDataExact
  <2> SUFFICES ASSUME Init PROVE TraceDataExact
    OBVIOUS
  <2>1. copies = <<>> /\ recordset = <<>> /\ num_records = 0
    BY DEF Init
  <2>2. Len(copies) = 0 /\ DOMAIN recordset = {} /\ <<>> = [n \in 1 .. 0 |-> n]
    BY <2>1
  <2>3. QED
    BY <2>1, <2>2 DEF TraceDataExact
<1>2. QED
  BY <1>1, Invariance, TraceDataNext, PTL DEF Spec
=============================================================================
