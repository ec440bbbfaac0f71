-------------------------- MODULE FbTemplateProofs --------------------------
(***************************************************************************)
(* The mutex keeps the count of the shared template exact, for any number  *)
(* of threads, whatever streams they open and close and in which order;    *)
(* and with the programs of a run that writes its streams to files, the    *)
(* template is freed with the last of them and never before.               *)
(***************************************************************************)
EXTENDS FileStreams, TLAPS, FiniteSetTheorems, SequenceTheorems,
        WellFoundedInduction

\* The references of the session at which a thread is are of a session there is.
LEMMA SessionTyped ==
  ASSUME TypeOK, NEW t \in Threads, OnSession(t)
  PROVE  /\ Session(t) \in Sessions
         /\ RefsOf(Session(t)) \subseteq AllRefs
<1>1. Op(t) \in Operations
  BY DEF TypeOK, OnSession, Ready, Op
<1>2. Op(t) \in {"open", "close"} \X Sessions
  BY <1>1 DEF OnSession, Operations
<1>3. Session(t) \in Sessions
  BY <1>2 DEF Session
<1>4. QED
  BY <1>3 DEF AllRefs

LEMMA InitInv == Init => FbInv
<1> SUFFICES ASSUME Init PROVE FbInv
  OBVIOUS
<1>1. IsFiniteSet({}) /\ Cardinality({}) = 0
  BY FS_EmptySet
<1>2. TypeOK
  BY FbTemplateAssumption DEF Init, TypeOK, NoThread, Unread
<1>3. QED
  BY <1>1, <1>2 DEF Init, FbInv, ReadByHolder, CountExact

\* Writing a count back is exact because nobody has read it in the meantime.
LEMMA AddInv ==
  ASSUME FbInv, NEW t \in Threads, AddReference(t)
  PROVE  FbInv'
<1>1. holder = t /\ seen[t] = Cardinality(held)
  BY DEF FbInv, ReadByHolder, AddReference
<1>2. PICK r \in ToAdd(t) : held' = held \cup {r}
  BY DEF AddReference
<1>3. r \notin held /\ r \in AllRefs
  BY <1>2, SessionTyped DEF ToAdd, FbInv, AddReference
<1>4. IsFiniteSet(held') /\ Cardinality(held') = Cardinality(held) + 1
  BY <1>2, <1>3, FS_AddElement DEF FbInv
<1>5. Cardinality(held) \in Nat
  BY FS_CardinalityType DEF FbInv
<1>6. ref_count' = Cardinality(held')
  BY <1>1, <1>4 DEF AddReference
<1>7. TypeOK'
  BY <1>2, <1>3, <1>4, <1>5, <1>6 DEF FbInv, TypeOK, AddReference
<1>8. ReadByHolder'
  <2> SUFFICES ASSUME NEW u \in Threads, seen'[u] # Unread PROVE FALSE
    BY DEF ReadByHolder
  <2>1. u # t /\ seen[u] # Unread
    BY DEF AddReference, FbInv, TypeOK
  <2>2. QED
    BY <1>1, <2>1 DEF FbInv, ReadByHolder
<1>9. QED
  BY <1>4, <1>6, <1>7, <1>8 DEF FbInv, CountExact

LEMMA DropInv ==
  ASSUME FbInv, NEW t \in Threads, DropReference(t)
  PROVE  /\ FbInv'
         /\ freed' # freed => held' = {}
<1>1. holder = t /\ seen[t] = Cardinality(held)
  BY DEF FbInv, ReadByHolder, DropReference
<1>2. PICK r \in ToDrop(t) : held' = held \ {r}
  BY DEF DropReference
<1>3. r \in held
  BY <1>2 DEF ToDrop
<1>4. IsFiniteSet(held') /\ Cardinality(held') = Cardinality(held) - 1
  BY <1>2, <1>3, FS_RemoveElement DEF FbInv
<1>5. Cardinality(held) \in Nat /\ Cardinality(held') \in Nat
  BY <1>4, FS_CardinalityType DEF FbInv
<1>6. ref_count' = Cardinality(held')
  BY <1>1, <1>4 DEF DropReference
<1>7. TypeOK'
  BY <1>2, <1>5, <1>6 DEF FbInv, TypeOK, DropReference
<1>8. ReadByHolder'
  <2> SUFFICES ASSUME NEW u \in Threads, seen'[u] # Unread PROVE FALSE
    BY DEF ReadByHolder
  <2>1. u # t /\ seen[u] # Unread
    BY DEF DropReference, FbInv, TypeOK
  <2>2. QED
    BY <1>1, <2>1 DEF FbInv, ReadByHolder
<1>9. ASSUME freed' # freed PROVE held' = {}
  <2>1. seen[t] <= 1
    BY <1>9 DEF DropReference, FbInv, TypeOK
  <2>2. Cardinality(held') = 0
    BY <2>1, <1>1, <1>4, <1>5
  <2>3. QED
    BY <2>2, <1>4, FS_EmptySet
<1>10. QED
  BY <1>4, <1>6, <1>7, <1>8, <1>9 DEF FbInv, CountExact

\* The other steps leave the references and their count alone.
LEMMA StepInv == FbInv /\ [Next]_vars => FbInv'
<1> SUFFICES ASSUME FbInv, [Next]_vars PROVE FbInv'
  OBVIOUS
<1> USE DEF FbInv
<1>0. Main \in Threads
  BY DEF Threads
<1>1. ASSUME NEW t \in Threads, Lock(t) PROVE FbInv'
  <2>1. TypeOK' /\ CountExact' /\ IsFiniteSet(held)'
    BY <1>1 DEF Lock, TypeOK, CountExact
  <2>2. ReadByHolder'
    BY <1>1, FbTemplateAssumption
       DEF Lock, ReadByHolder, TypeOK, NoThread, Threads, Main, Branches
  <2>3. QED BY <2>1, <2>2
<1>2. ASSUME NEW t \in Threads, ReadCount(t) PROVE FbInv'
  <2>1. TypeOK' /\ CountExact' /\ IsFiniteSet(held)'
    BY <1>2 DEF ReadCount, TypeOK, CountExact
  <2>2. ReadByHolder'
    BY <1>2 DEF ReadCount, ReadByHolder, CountExact, TypeOK
  <2>3. QED BY <2>1, <2>2
<1>3. ASSUME NEW t \in Threads, AddReference(t) PROVE FbInv'
  BY <1>3, AddInv
<1>4. ASSUME NEW t \in Threads, DropReference(t) PROVE FbInv'
  BY <1>4, DropInv
<1>5. ASSUME NEW t \in Threads, Unlock(t) PROVE FbInv'
  <2>1. TypeOK' /\ CountExact' /\ IsFiniteSet(held)'
    BY <1>5 DEF Unlock, Proceed, TypeOK, CountExact
  <2>2. ReadByHolder'
    BY <1>5 DEF Unlock, ReadByHolder
  <2>3. QED BY <2>1, <2>2
<1>6. ASSUME NEW t \in Threads, AddFails(t) PROVE FbInv'
  BY <1>6 DEF AddFails, TypeOK, ReadByHolder, CountExact
<1>7. ASSUME Spawn PROVE FbInv'
  BY <1>0, <1>7 DEF Spawn, Proceed, TypeOK, ReadByHolder, CountExact
<1>8. ASSUME Join PROVE FbInv'
  BY <1>0, <1>8 DEF Join, Proceed, TypeOK, ReadByHolder, CountExact
<1>9. ASSUME Destroy PROVE FbInv'
  <2>1. TypeOK' /\ CountExact' /\ IsFiniteSet(held)'
    BY <1>0, <1>9 DEF Destroy, Proceed, TypeOK, CountExact
  <2>2. ReadByHolder'
    BY <1>9, FbTemplateAssumption
       DEF Destroy, ReadByHolder, NoThread, Threads, Main, Branches
  <2>3. QED BY <2>1, <2>2
<1>10. ASSUME UNCHANGED vars PROVE FbInv'
  BY <1>10 DEF vars, TypeOK, ReadByHolder, CountExact
<1>11. QED
  BY <1>1, <1>2, <1>3, <1>4, <1>5, <1>6, <1>7, <1>8, <1>9, <1>10
     DEF Next, Work, End

THEOREM InvCorrect == Spec => []FbInv
<1>1. QED
  BY InitInv, StepInv, PTL DEF Spec

\* The variables keep their types; above all the count never goes below zero.
THEOREM TypeCorrect == Spec => []TypeOK
<1>1. FbInv => TypeOK
  BY DEF FbInv
<1>2. QED
  BY <1>1, InvCorrect, PTL

\* The template counts exactly the references that sessions have to it.
THEOREM CountCorrect == Spec => []CountExact
<1>1. FbInv => CountExact
  BY DEF FbInv
<1>2. QED
  BY <1>1, InvCorrect, PTL

\* The template is freed in a step after which no session refers to it.
THEOREM FreedUnused == Spec => [][freed' # freed => held' = {}]_vars
<1>1. FbInv /\ [Next]_vars => [freed' # freed => held' = {}]_vars
  <2> SUFFICES ASSUME FbInv, Next, freed' # freed PROVE held' = {}
    BY DEF vars
  <2>1. PICK t \in Threads : DropReference(t)
    BY DEF Next, Work, Lock, ReadCount, AddReference, Unlock, AddFails, Spawn,
           Join, Destroy, End, vars
  <2>2. QED
    BY <2>1, DropInv
<1>2. QED
  BY <1>1, InvCorrect, PTL DEF Spec

-----------------------------------------------------------------------------
(* The life of the template, for programs in order.                        *)

\* An operation on a session, as it stands in the program.
LEMMA OpIs ==
  ASSUME TypeOK, NEW t \in Threads, OnSession(t)
  PROVE  /\ at[t] \in DOMAIN program[t]
         /\ Op(t) = program[t][at[t]]
         /\ Opens(t) => Op(t) = Open(Session(t))
         /\ ~ Opens(t) => Op(t) = Close(Session(t))
         /\ Op(t) # <<"spawn">> /\ Op(t) # <<"join">> /\ Op(t) # <<"destroy">>
<1>1. at[t] \in DOMAIN program[t] /\ Op(t) \in Operations
  BY DEF TypeOK, OnSession, Ready, Op
<1>2. Op(t) \in {"open", "close"} \X Sessions
  BY <1>1 DEF OnSession, Operations
<1>3. Op(t) = <<Op(t)[1], Op(t)[2]>> /\ Op(t)[1] \in {"open", "close"}
  BY <1>2
<1>4. /\ <<"spawn">>[1] = "spawn" /\ <<"join">>[1] = "join"
      /\ <<"destroy">>[1] = "destroy"
  OBVIOUS
<1>5. Op(t) # <<"spawn">> /\ Op(t) # <<"join">> /\ Op(t) # <<"destroy">>
  BY <1>3, <1>4
<1>6. QED
  BY <1>1, <1>3, <1>5 DEF Op, Open, Close, Opens, Session

\* The operations of main at both of its ends.
LEMMA MainEnds ==
  ASSUME TypeOK, Ordered(program), ProgressInv
  PROVE  LET ops == program[Main]
             n   == Len(ops)
         IN /\ n \in Nat /\ n > 3
            /\ DOMAIN ops = 1 .. n
            /\ at[Main] \in 1 .. n + 1
            /\ ops[1] = Open(Reader)
            /\ ops[n - 1] = Close(Reader)
            /\ ops[n] = <<"destroy">>
            /\ \A i \in 2 .. n - 2 :
                 ops[i] \notin {Open(Reader), Close(Reader), <<"destroy">>}
            /\ at[Main] >= n - 1 => \A b \in Branches : Finished(b)
<1> DEFINE ops == program[Main]
           n   == Len(ops)
<1>1. Main \in Threads /\ ops \in Seq(Operations)
  BY DEF TypeOK, Threads
<1>2. n \in Nat /\ DOMAIN ops = 1 .. n
  BY <1>1, LenProperties
<1>3. MainOrdered(ops)
  BY DEF Ordered
<1>4. at[Main] \in 1 .. n + 1
  BY <1>1 DEF ProgressInv
<1> HIDE DEF n
<1>5. /\ n > 2 /\ ops[1] = Open(Reader) /\ ops[n - 1] = Close(Reader)
      /\ ops[n] = <<"destroy">>
      /\ \A i \in 2 .. n - 2 :
           ops[i] \notin {Open(Reader), Close(Reader), <<"destroy">>}
  BY <1>3 DEF MainOrdered, n
<1>6. PICK i \in 2 .. n - 2 : ops[i] = <<"join">>
  BY <1>3 DEF MainOrdered, n
<1>7. i \in 1 .. n /\ i < n - 1 /\ n > 3
  BY <1>2, <1>6
<1>8. ASSUME at[Main] >= n - 1 PROVE \A b \in Branches : Finished(b)
  <2>1. i < at[Main]
    BY <1>2, <1>4, <1>6, <1>7, <1>8
  <2>2. QED
    BY <1>2, <1>6, <1>7, <2>1 DEF ProgressInv
<1>9. QED
  BY <1>2, <1>4, <1>5, <1>7, <1>8 DEF n

\* A thread that has finished does nothing any more.
LEMMA FinishedIdle ==
  ASSUME TypeOK, NEW t \in Threads, Finished(t)
  PROVE  ~ Ready(t)
<1>1. Len(program[t]) \in Nat /\ DOMAIN program[t] = 1 .. Len(program[t])
  BY LenProperties DEF TypeOK
<1>2. QED
  BY <1>1 DEF Finished, Ready

\* The reader is opened and closed by main alone, at its ends; and from its
\* closing on nobody else does anything.
LEMMA OnReader ==
  ASSUME TypeOK, Ordered(program), ProgressInv,
         NEW t \in Threads, OnSession(t)
  PROVE  LET n == Len(program[Main])
         IN /\ Session(t) = Reader <=> t = Main /\ at[Main] \in {1, n - 1}
            /\ t = Main /\ at[Main] = 1 => Opens(t)
            /\ t = Main /\ at[Main] = n - 1 => ~ Opens(t)
            /\ at[Main] >= n - 1 => t = Main /\ at[Main] = n - 1
            /\ at[Main] = 1 => t = Main
<1> DEFINE ops == program[Main]
           n   == Len(ops)
<1>1. /\ n \in Nat /\ n > 3 /\ DOMAIN ops = 1 .. n /\ at[Main] \in 1 .. n + 1
      /\ ops[1] = Open(Reader) /\ ops[n - 1] = Close(Reader)
      /\ ops[n] = <<"destroy">>
      /\ \A i \in 2 .. n - 2 :
           ops[i] \notin {Open(Reader), Close(Reader), <<"destroy">>}
      /\ at[Main] >= n - 1 => \A b \in Branches : Finished(b)
  BY MainEnds
<1> HIDE DEF n, ops
<1>2. /\ at[t] \in DOMAIN program[t] /\ Op(t) = program[t][at[t]]
      /\ Opens(t) => Op(t) = Open(Session(t))
      /\ ~ Opens(t) => Op(t) = Close(Session(t))
      /\ Op(t) # <<"destroy">>
  BY OpIs
<1>3. \A s, r : /\ Open(s) # Close(r)
                /\ Open(s) = Open(r) => s = r
                /\ Close(s) = Close(r) => s = r
  BY DEF Open, Close
<1>4. CASE t = Main
  <2>1. at[Main] \in 1 .. n /\ at[Main] # n
    BY <1>1, <1>2, <1>4 DEF ops
  <2>2. at[Main] = 1 => Opens(t) /\ Session(t) = Reader
    BY <1>1, <1>2, <1>3, <1>4 DEF ops
  <2>3. at[Main] = n - 1 => ~ Opens(t) /\ Session(t) = Reader
    BY <1>1, <1>2, <1>3, <1>4 DEF ops
  <2>4. at[Main] \in {1, n - 1} \/ at[Main] \in 2 .. n - 2
    BY <1>1, <2>1
  <2>5. at[Main] \in 2 .. n - 2 => Session(t) # Reader
    BY <1>1, <1>2, <1>4 DEF ops
  <2>6. at[Main] \in 2 .. n - 2 =>
          at[Main] # 1 /\ at[Main] # n - 1 /\ ~ (at[Main] >= n - 1)
    BY <1>1
  <2>7. at[Main] = 1 => at[Main] # n - 1 /\ ~ (at[Main] >= n - 1)
    BY <1>1
  <2>8. CASE at[Main] = 1
    BY <1>4, <2>2, <2>7, <2>8 DEF n, ops
  <2>9. CASE at[Main] = n - 1
    BY <1>4, <2>3, <2>7, <2>9 DEF n, ops
  <2>10. CASE at[Main] \in 2 .. n - 2
    BY <1>4, <2>5, <2>6, <2>10 DEF n, ops
  <2>11. QED
    BY <2>4, <2>8, <2>9, <2>10
<1>5. CASE t # Main
  <2>1. t \in Branches
    BY <1>5 DEF Threads
  <2>2. Session(t) # Reader
    BY <1>2, <2>1 DEF Ordered
  <2>3. Ready(t) /\ spawned
    BY <1>5 DEF OnSession, Ready
  <2>4. ~ (at[Main] >= n - 1)
    BY <1>1, <2>1, <2>3, FinishedIdle
  <2>5. at[Main] # 1
    BY <2>3 DEF ProgressInv
  <2>6. QED
    BY <1>5, <2>2, <2>4, <2>5 DEF n, ops
<1>6. QED
  BY <1>4, <1>5

\* The references of a session tell which it is; the reader has one.
LEMMA RefsTell ==
  /\ \A s, r : r \in RefsOf(s) => r[1] = s
  /\ \A r \in AllRefs : r \in RefsOf(r[1])
  /\ RefsOf(Reader) = {ReaderRef}
<1>1. \A s, r : r \in RefsOf(s) => r[1] = s
  BY DEF RefsOf
<1>2. \A r \in AllRefs : r \in RefsOf(r[1])
  BY <1>1 DEF AllRefs
<1>3. RefsOf(Reader) = {ReaderRef}
  BY DEF RefsOf, ReaderRef
<1>4. QED
  BY <1>1, <1>2, <1>3

\* Steps that leave the references and the progress of the threads alone.
LEMMA LifeStays ==
  ASSUME LifeInv, FbInv',
         UNCHANGED <<program, spawned, at, held, freed>>,
         holder' = Destroyed => holder = Destroyed
  PROVE  LifeInv'
BY DEF LifeInv, ProgressInv, OwnedInv, ReaderInv, Finished

\* A session gets a reference while it is opened; its thread has still to close
\* it, and the reader is not closed yet.
LEMMA LifeAdd ==
  ASSUME LifeInv, FbInv', NEW t \in Threads, AddReference(t)
  PROVE  LifeInv'
<1> DEFINE n == Len(program[Main])
<1>1. TypeOK /\ Ordered(program) /\ ProgressInv /\ OwnedInv /\ ReaderInv
  BY DEF LifeInv, FbInv
<1>2. /\ OnSession(t) /\ Opens(t)
      /\ UNCHANGED <<program, spawned, at, holder, freed>>
  BY DEF AddReference
<1>3. PICK r \in ToAdd(t) : held' = held \cup {r}
  BY DEF AddReference
<1>4. n \in Nat /\ n > 3 /\ at[Main] \in 1 .. n + 1
  BY <1>1, MainEnds
<1>5. ~ (at[Main] >= n - 1)
  BY <1>1, <1>2, OnReader
<1> HIDE DEF n
<1>6. ReaderInv'
  <2>1. at[Main] < n - 1 /\ at[Main] # n - 1 /\ ~ (at[Main] > n - 1)
    BY <1>4, <1>5
  <2>2. QED
    BY <1>1, <1>2, <1>3, <2>1 DEF ReaderInv, n
<1>7. OwnedInv'
  <2>1. ASSUME NEW x \in held'
        PROVE  \E u \in Threads : \E j \in DOMAIN program[u] :
                 program[u][j] = Close(x[1]) /\ at[u] <= j
    <3>1. CASE x \in held
      BY <1>1, <3>1 DEF OwnedInv
    <3>2. CASE x = r
      <4>1. x[1] = Session(t)
        BY <1>3, <3>2, RefsTell DEF ToAdd
      <4>2. /\ at[t] \in DOMAIN program[t]
            /\ program[t][at[t]] = <<"open", Session(t)>>
        BY <1>1, <1>2, OpIs DEF Open
      <4>3. PICK j \in DOMAIN program[t] :
              at[t] < j /\ program[t][j] = Close(Session(t))
        <5>1. ClosesAll(program[t])
          BY <1>1 DEF Ordered
        <5>2. <<"open", Session(t)>>[1] = "open"
              /\ <<"open", Session(t)>>[2] = Session(t)
          OBVIOUS
        <5>3. QED
          BY <4>2, <5>1, <5>2 DEF ClosesAll
      <4>4. at[t] <= j
        <5>1. at[t] \in Nat /\ j \in Nat
          BY <1>1, LenProperties DEF TypeOK
        <5>2. QED
          BY <4>3, <5>1
      <4>5. QED
        BY <4>1, <4>3, <4>4
    <3>3. QED
      BY <1>3, <2>1, <3>1, <3>2
  <2>2. QED
    BY <1>2, <2>1 DEF OwnedInv
<1>8. ProgressInv' /\ Ordered(program)'
  BY <1>1, <1>2 DEF ProgressInv, Finished
<1>9. QED
  BY <1>6, <1>7, <1>8 DEF LifeInv

\* When the reader is closed, no other session has a reference.
LEMMA ReaderLast ==
  ASSUME LifeInv, at[Main] = Len(program[Main]) - 1
  PROVE  held \subseteq {ReaderRef}
<1> DEFINE ops == program[Main]
           n   == Len(ops)
<1>1. TypeOK /\ Ordered(program) /\ ProgressInv /\ OwnedInv
  BY DEF LifeInv, FbInv
<1>2. /\ n \in Nat /\ n > 3 /\ DOMAIN ops = 1 .. n
      /\ ops[n - 1] = Close(Reader) /\ ops[n] = <<"destroy">>
      /\ \A b \in Branches : Finished(b)
  BY <1>1, MainEnds
<1> SUFFICES ASSUME NEW x \in held PROVE x = ReaderRef
  OBVIOUS
<1>3. PICK t \in Threads : \E j \in DOMAIN program[t] :
        program[t][j] = Close(x[1]) /\ at[t] <= j
  BY <1>1 DEF OwnedInv
<1>4. PICK j \in DOMAIN program[t] : program[t][j] = Close(x[1]) /\ at[t] <= j
  BY <1>3
<1>5. t = Main
  <2>1. SUFFICES ASSUME t \in Branches PROVE FALSE
    BY DEF Threads
  <2>2. at[t] = Len(program[t]) + 1
    BY <1>2, <2>1 DEF Finished
  <2>3. Len(program[t]) \in Nat /\ j \in 1 .. Len(program[t])
    BY <1>1, LenProperties DEF TypeOK
  <2>4. QED
    BY <1>4, <2>2, <2>3
<1>6. x[1] = Reader
  <2>1. j = n - 1 \/ j = n
    <3>1. j \in 1 .. n /\ n - 1 <= j
      BY <1>2, <1>4, <1>5
    <3> HIDE DEF n
    <3>2. QED
      BY <1>2, <3>1
  <2>2. j # n
    <3>1. <<"destroy">>[1] = "destroy" /\ Close(x[1])[1] = "close"
      BY DEF Close
    <3>2. QED
      BY <1>2, <1>4, <1>5, <3>1
  <2>3. Close(x[1]) = Close(Reader)
    BY <1>2, <1>4, <1>5, <2>1, <2>2
  <2>4. QED
    BY <2>3 DEF Close
<1>7. x \in AllRefs
  BY <1>1 DEF TypeOK
<1>8. QED
  BY <1>6, <1>7, RefsTell

\* A reference is dropped while its session is closed; the template is freed
\* when that is the reader's.
LEMMA LifeDrop ==
  ASSUME LifeInv, FbInv', NEW t \in Threads, DropReference(t)
  PROVE  LifeInv'
<1> DEFINE n == Len(program[Main])
<1>1. TypeOK /\ Ordered(program) /\ ProgressInv /\ OwnedInv /\ ReaderInv
      /\ IsFiniteSet(held) /\ ReadByHolder
  BY DEF LifeInv, FbInv
<1>2. /\ OnSession(t) /\ ~ Opens(t) /\ seen[t] # Unread
      /\ freed' = (freed \/ seen[t] <= 1)
      /\ UNCHANGED <<program, spawned, at, holder>>
  BY DEF DropReference
<1>3. PICK r \in ToDrop(t) : held' = held \ {r}
  BY DEF DropReference
<1>4. n \in Nat /\ n > 3 /\ at[Main] \in 1 .. n + 1
  BY <1>1, MainEnds
<1>5. r \in held /\ r[1] = Session(t)
  BY <1>3, RefsTell DEF ToDrop
<1>6. seen[t] = Cardinality(held) /\ Cardinality(held) \in Nat
  BY <1>1, <1>2, FS_CardinalityType DEF ReadByHolder
<1> HIDE DEF n
<1>7. ReaderInv'
  <2>1. CASE at[Main] < n - 1
    <3>1. at[Main] \in 2 .. n - 2 /\ at[Main] # n - 1
      <4>1. at[Main] # 1
        BY <1>1, <1>2, OnReader
      <4>2. QED
        BY <1>4, <2>1, <4>1
    <3>2. ~ freed /\ ReaderRef \in held
      <4>1. at[Main] \in 2 .. n - 1 - 1
        BY <1>4, <3>1
      <4>2. QED
        BY <1>1, <2>1, <4>1 DEF ReaderInv, n
    <3>3. Session(t) # Reader
      <4>1. at[Main] # 1
        BY <1>4, <3>1
      <4>2. QED
        BY <1>1, <1>2, <3>1, <4>1, OnReader DEF n
    <3>4. r # ReaderRef
      BY <1>5, <3>3 DEF ReaderRef
    <3>5. ~ (seen[t] <= 1)
      <4>1. IsFiniteSet({r, ReaderRef}) /\ Cardinality({r, ReaderRef}) = 2
        <5>1. IsFiniteSet({r}) /\ Cardinality({r}) = 1
          BY FS_Singleton
        <5>2. {r, ReaderRef} = {r} \cup {ReaderRef} /\ ReaderRef \notin {r}
          BY <3>4
        <5>3. /\ IsFiniteSet({r} \cup {ReaderRef})
              /\ Cardinality({r} \cup {ReaderRef}) = Cardinality({r}) + 1
          BY <5>1, <5>2, FS_AddElement
        <5>4. QED
          BY <5>1, <5>2, <5>3
      <4>2. {r, ReaderRef} \subseteq held
        BY <1>5, <3>2
      <4>3. 2 <= Cardinality(held)
        BY <1>1, <4>1, <4>2, FS_Subset
      <4>4. QED
        BY <1>6, <4>3
    <3>6. ~ freed' /\ ReaderRef \in held'
      BY <1>2, <1>3, <3>2, <3>4, <3>5
    <3>7. ~ (at[Main] > n - 1)
      BY <1>4, <3>1
    <3>8. QED
      BY <1>2, <3>1, <3>6, <3>7 DEF ReaderInv, n
  <2>2. CASE ~ (at[Main] < n - 1)
    <3>1. at[Main] = n - 1
      <4>1. at[Main] >= n - 1
        BY <1>4, <2>2
      <4>2. QED
        BY <1>1, <1>2, <4>1, OnReader DEF n
    <3>2. held = {ReaderRef} /\ r = ReaderRef
      BY <1>5, <3>1, ReaderLast DEF n
    <3>3. seen[t] <= 1 /\ held' = {}
      <4>1. Cardinality({ReaderRef}) = 1
        BY FS_Singleton
      <4>2. QED
        BY <1>3, <1>6, <3>2, <4>1
    <3>4. freed'
      BY <1>2, <3>3
    <3>5. ~ (at[Main] < n - 1) /\ at[Main] \notin 2 .. n - 1 - 1
      BY <1>4, <3>1
    <3>6. QED
      BY <1>2, <3>1, <3>3, <3>4, <3>5 DEF ReaderInv, n
  <2>3. QED
    BY <2>1, <2>2
<1>8. OwnedInv'
  BY <1>1, <1>2, <1>3 DEF OwnedInv
<1>9. ProgressInv' /\ Ordered(program)'
  BY <1>1, <1>2 DEF ProgressInv, Finished
<1>10. QED
  BY <1>7, <1>8, <1>9 DEF LifeInv

\* A thread goes on to its next operation: what the invariant needs of that.
LEMMA LifeProceed ==
  ASSUME LifeInv, FbInv', NEW t \in Threads, Ready(t), Proceed(t),
         UNCHANGED <<program, held, freed>>,
         t = Main \/ spawned' = spawned,
         Op(t) = <<"join">> => \A b \in Branches : Finished(b),
         \A r \in held : Op(t) # Close(r[1]),
         t = Main /\ at[Main] = 1 => ReaderRef \in held,
         holder' = Destroyed => Finished(Main)'
  PROVE  LifeInv'
<1> DEFINE ops == program[Main]
           n   == Len(ops)
<1>1. TypeOK /\ Ordered(program) /\ ProgressInv /\ OwnedInv /\ ReaderInv
  BY DEF LifeInv, FbInv
<1>2. /\ n \in Nat /\ n > 3 /\ DOMAIN ops = 1 .. n /\ at[Main] \in 1 .. n + 1
      /\ ops[n - 1] = Close(Reader)
  BY <1>1, MainEnds
<1>3. Main \in Threads /\ Branches \subseteq Threads /\ Main \notin Branches
  BY DEF Threads, Main, Branches
<1>4. /\ at'[t] = at[t] + 1
      /\ \A u \in Threads : u # t => at'[u] = at[u]
      /\ \A u \in Threads : at[u] \in Nat
  BY <1>1 DEF Proceed, TypeOK
<1>5. at[t] \in DOMAIN program[t] /\ Op(t) = program[t][at[t]]
  BY DEF Ready, Op
<1>6. \A u \in Threads : /\ Len(program[u]) \in Nat
                         /\ DOMAIN program[u] = 1 .. Len(program[u])
  BY <1>1, LenProperties DEF TypeOK
<1> HIDE DEF n, ops
<1>7. ProgressInv'
  <2>1. ASSUME NEW u \in Threads
        PROVE  at'[u] \in 1 .. Len(program[u]) + 1
    <3>1. CASE u = t
      BY <1>4, <1>5, <1>6, <3>1
    <3>2. CASE u # t
      BY <1>1, <1>4, <3>2 DEF ProgressInv
    <3>3. QED
      BY <3>1, <3>2
  <2>2. ASSUME NEW i \in DOMAIN ops, ops[i] = <<"join">>, i < at'[Main],
               NEW b \in Branches
        PROVE  at'[b] = Len(program[b]) + 1
    <3>1. \A c \in Branches : Finished(c)
      <4>1. CASE t = Main /\ i = at[Main]
        BY <1>5, <2>2, <4>1 DEF ops
      <4>2. CASE t # Main \/ i # at[Main]
        <5>1. i < at[Main]
          BY <1>2, <1>3, <1>4, <2>2, <4>2
        <5>2. QED
          BY <1>1, <2>2, <5>1 DEF ProgressInv, ops
      <4>3. QED
        BY <4>1, <4>2
    <3>2. t \notin Branches
      BY <1>1, <3>1, FinishedIdle
    <3>3. at'[b] = at[b]
      BY <1>3, <1>4, <3>2
    <3>4. QED
      BY <3>1, <3>3 DEF Finished
  <2>3. at'[Main] = 1 => ~ spawned'
    <3>1. CASE t = Main
      BY <1>2, <1>4, <3>1
    <3>2. CASE t # Main
      BY <1>1, <1>3, <1>4, <3>2 DEF ProgressInv
    <3>3. QED
      BY <3>1, <3>2
  <2>4. QED
    BY <2>1, <2>2, <2>3 DEF ProgressInv, Finished, ops
<1>8. OwnedInv'
  <2>1. ASSUME NEW r \in held
        PROVE  \E u \in Threads : \E j \in DOMAIN program[u] :
                 program[u][j] = Close(r[1]) /\ at'[u] <= j
    <3>1. PICK u \in Threads : \E j \in DOMAIN program[u] :
            program[u][j] = Close(r[1]) /\ at[u] <= j
      BY <1>1 DEF OwnedInv
    <3>2. PICK j \in DOMAIN program[u] :
            program[u][j] = Close(r[1]) /\ at[u] <= j
      BY <3>1
    <3>3. at'[u] <= j
      <4>1. CASE u = t
        <5>1. j # at[t]
          BY <1>5, <3>2, <4>1
        <5>2. j \in Nat /\ at[t] \in Nat
          BY <1>4, <1>6, <4>1
        <5>3. QED
          BY <1>4, <3>2, <4>1, <5>1, <5>2
      <4>2. CASE u # t
        BY <1>4, <3>2, <4>2
      <4>3. QED
        BY <4>1, <4>2
    <3>4. QED
      BY <3>2, <3>3
  <2>2. QED
    BY <2>1 DEF OwnedInv
<1>9. ReaderInv'
  <2>1. CASE t # Main
    <3>1. at'[Main] = at[Main]
      BY <1>3, <1>4, <2>1
    <3>2. QED
      BY <1>1, <3>1 DEF ReaderInv
  <2>2. CASE t = Main
    <3>1. at'[Main] = at[Main] + 1 /\ at[Main] \in 1 .. n
      BY <1>2, <1>4, <1>5, <2>2 DEF ops
    <3>2. CASE at[Main] < n - 1
      <4>1. ~ freed
        BY <1>1, <3>2 DEF ReaderInv, n, ops
      <4>2. ReaderRef \in held
        <5>1. CASE at[Main] = 1
          BY <2>2, <5>1
        <5>2. CASE at[Main] # 1
          <6>1. at[Main] \in 2 .. n - 1 - 1
            BY <1>2, <3>1, <3>2, <5>2
          <6>2. QED
            BY <1>1, <6>1 DEF ReaderInv, n, ops
        <5>3. QED
          BY <5>1, <5>2
      <4>3. ~ (at'[Main] > n - 1)
        BY <1>2, <3>1, <3>2
      <4>4. QED
        BY <4>1, <4>2, <4>3 DEF ReaderInv, n, ops
    <3>3. CASE ~ (at[Main] < n - 1)
      <4>1. freed /\ held = {}
        <5>1. CASE at[Main] = n - 1
          <6>1. Op(t) = Close(Reader)
            BY <1>2, <1>5, <2>2, <5>1 DEF ops
          <6>2. ReaderRef \notin held
            BY <6>1 DEF ReaderRef
          <6>3. QED
            BY <1>1, <5>1, <6>2 DEF ReaderInv, n, ops
        <5>2. CASE at[Main] # n - 1
          <6>1. at[Main] > n - 1
            BY <1>2, <3>1, <3>3, <5>2
          <6>2. QED
            BY <1>1, <6>1 DEF ReaderInv, n, ops
        <5>3. QED
          BY <5>1, <5>2
      <4>2. /\ ~ (at'[Main] < n - 1) /\ at'[Main] # n - 1
            /\ at'[Main] \notin 2 .. n - 1 - 1
        BY <1>2, <3>1, <3>3
      <4>3. QED
        BY <4>1, <4>2 DEF ReaderInv, n, ops
    <3>4. QED
      BY <3>2, <3>3
  <2>3. QED
    BY <2>1, <2>2
<1>10. Ordered(program)'
  BY <1>1
<1>11. QED
  BY <1>7, <1>8, <1>9, <1>10 DEF LifeInv

\* A session that is closed has dropped all references when its thread goes on.
LEMMA LifeUnlock ==
  ASSUME LifeInv, FbInv', NEW t \in Threads, Unlock(t)
  PROVE  LifeInv'
<1>1. TypeOK /\ Ordered(program) /\ ProgressInv
  BY DEF LifeInv, FbInv
<1>2. /\ OnSession(t) /\ Pending(t) = {} /\ Proceed(t) /\ holder' = NoThread
      /\ UNCHANGED <<program, spawned, held, freed>>
  BY DEF Unlock
<1>3. /\ ~ Opens(t) => Op(t) = Close(Session(t))
      /\ Opens(t) => Op(t) = Open(Session(t))
      /\ Op(t) # <<"join">>
  BY <1>1, <1>2, OpIs
<1>4. ASSUME NEW r \in held PROVE Op(t) # Close(r[1])
  <2>1. SUFFICES ASSUME Op(t) = Close(r[1]) PROVE FALSE
    OBVIOUS
  <2>2. ~ Opens(t) /\ Session(t) = r[1]
    <3>1. \A s, q : Open(s) # Close(q) /\ (Close(s) = Close(q) => s = q)
      BY DEF Open, Close
    <3>2. QED
      BY <1>3, <2>1, <3>1
  <2>3. r \in RefsOf(Session(t))
    <3>1. r \in AllRefs
      BY <1>1 DEF TypeOK
    <3>2. QED
      BY <2>2, <3>1, RefsTell
  <2>4. QED
    BY <1>2, <2>2, <2>3 DEF Pending, ToDrop
<1>5. ASSUME t = Main, at[Main] = 1 PROVE ReaderRef \in held
  <2>1. Opens(t) /\ Session(t) = Reader
    BY <1>1, <1>2, <1>5, OnReader
  <2>2. QED
    BY <1>2, <2>1, RefsTell DEF Pending, ToAdd
<1>6. holder' # Destroyed /\ Ready(t)
  BY <1>2 DEF NoThread, Destroyed, OnSession
<1>7. QED
  BY <1>2, <1>3, <1>4, <1>5, <1>6, LifeProceed

\* The steps of main that are not on a session.
LEMMA LifeMain ==
  ASSUME LifeInv, FbInv', Spawn \/ Join \/ Destroy
  PROVE  LifeInv'
<1>1. TypeOK /\ Ordered(program) /\ ProgressInv
  BY DEF LifeInv, FbInv
<1>2. /\ Ready(Main) /\ Proceed(Main) /\ UNCHANGED <<program, held, freed>>
      /\ Op(Main) \in {<<"spawn">>, <<"join">>, <<"destroy">>}
      /\ Op(Main) = <<"join">> => \A b \in Branches : Finished(b)
  <2>1. /\ <<"spawn">>[1] = "spawn" /\ <<"join">>[1] = "join"
        /\ <<"destroy">>[1] = "destroy"
    OBVIOUS
  <2>2. <<"spawn">> # <<"join">> /\ <<"join">> # <<"destroy">>
    BY <2>1
  <2>3. QED
    BY <2>2 DEF Spawn, Join, Destroy
<1>3. \A s : Op(Main) # Close(s) /\ Op(Main) # Open(s)
  <2>1. /\ <<"spawn">>[1] = "spawn" /\ <<"join">>[1] = "join"
        /\ <<"destroy">>[1] = "destroy"
        /\ \A s : Close(s)[1] = "close" /\ Open(s)[1] = "open"
    BY DEF Open, Close
  <2>2. QED
    BY <1>2, <2>1
<1>4. Main \in Threads
  BY DEF Threads
<1>5. at[Main] # 1
  BY <1>1, <1>3, MainEnds DEF Op
<1>6. ASSUME holder' = Destroyed PROVE Finished(Main)'
  <2> DEFINE n == Len(program[Main])
  <2>1. /\ n \in Nat /\ n > 3 /\ DOMAIN program[Main] = 1 .. n
        /\ at[Main] \in 1 .. n + 1
        /\ program[Main][n - 1] = Close(Reader)
        /\ \A i \in 2 .. n - 2 : program[Main][i] # <<"destroy">>
    BY <1>1, MainEnds
  <2>2. at[Main] \in DOMAIN program[Main] /\ Op(Main) = program[Main][at[Main]]
    BY <1>2 DEF Ready, Op
  <2>3. Op(Main) = <<"destroy">>
    <3>1. CASE Destroy
      BY <3>1 DEF Destroy
    <3>2. CASE Spawn \/ Join
      <4>1. holder = Destroyed
        BY <1>6, <3>2 DEF Spawn, Join
      <4>2. Finished(Main)
        BY <1>1, <4>1 DEF ProgressInv
      <4>3. QED
        BY <1>1, <1>2, <1>4, <4>2, FinishedIdle
    <3>3. QED
      BY <3>1, <3>2
  <2>4. at'[Main] = at[Main] + 1
    BY <1>1, <1>2, <1>4 DEF TypeOK, Proceed
  <2> HIDE DEF n
  <2>5. at[Main] = n
    <3>1. at[Main] # n - 1 /\ at[Main] \notin 2 .. n - 2
      BY <1>3, <2>1, <2>2, <2>3
    <3>2. QED
      BY <1>5, <2>1, <2>2, <3>1
  <2>6. QED
    BY <1>2, <2>4, <2>5 DEF Finished, n
<1>7. QED
  BY <1>2, <1>3, <1>4, <1>5, <1>6, LifeProceed

LEMMA LifeInit ==
  ASSUME Init, \A p \in Programs : Ordered(p)
  PROVE  LifeInv
<1>1. FbInv /\ Ordered(program) /\ TypeOK
  BY InitInv DEF Init, FbInv
<1>2. Main \in Threads
  BY DEF Threads
<1>3. /\ at = [t \in Threads |-> 1] /\ spawned = FALSE /\ holder = NoThread
      /\ held = {} /\ freed = FALSE
  BY DEF Init
<1>4. \A t \in Threads : at[t] = 1 /\ Len(program[t]) \in Nat
  BY <1>1, <1>3, LenProperties DEF TypeOK
<1>5. ProgressInv
  <2>1. \A t \in Threads : at[t] \in 1 .. Len(program[t]) + 1
    BY <1>4
  <2>2. \A i \in DOMAIN program[Main] : ~ (i < at[Main])
    <3>1. DOMAIN program[Main] = 1 .. Len(program[Main])
      BY <1>1, <1>2, LenProperties DEF TypeOK
    <3>2. QED
      BY <1>2, <1>4, <3>1
  <2>3. QED
    BY <1>3, <2>1, <2>2 DEF ProgressInv, NoThread, Destroyed
<1>6. OwnedInv
  BY <1>3 DEF OwnedInv
<1>7. ReaderInv
  <2>1. Len(program[Main]) > 3
    BY <1>1, <1>5, MainEnds
  <2>2. at[Main] = 1 /\ Len(program[Main]) \in Nat
    BY <1>2, <1>4
  <2>3. QED
    BY <1>3, <2>1, <2>2 DEF ReaderInv
<1>8. QED
  BY <1>1, <1>5, <1>6, <1>7 DEF LifeInv

LEMMA LifeStep ==
  ASSUME LifeInv, FbInv', [Next]_vars
  PROVE  LifeInv'
<1>1. ASSUME NEW t \in Threads, Lock(t) PROVE LifeInv'
  <2>1. holder' # Destroyed
    BY <1>1, FbTemplateAssumption
       DEF Lock, Threads, Main, Branches, Destroyed
  <2>2. QED
    BY <1>1, <2>1, LifeStays DEF Lock
<1>2. ASSUME NEW t \in Threads, ReadCount(t) PROVE LifeInv'
  BY <1>2, LifeStays DEF ReadCount
<1>3. ASSUME NEW t \in Threads, AddReference(t) PROVE LifeInv'
  BY <1>3, LifeAdd
<1>4. ASSUME NEW t \in Threads, DropReference(t) PROVE LifeInv'
  BY <1>4, LifeDrop
<1>5. ASSUME NEW t \in Threads, Unlock(t) PROVE LifeInv'
  BY <1>5, LifeUnlock
<1>6. ASSUME NEW t \in Threads, AddFails(t) PROVE LifeInv'
  BY <1>6, LifeStays DEF AddFails
<1>7. ASSUME Spawn \/ Join \/ Destroy PROVE LifeInv'
  BY <1>7, LifeMain
<1>8. ASSUME UNCHANGED vars PROVE LifeInv'
  BY <1>8, LifeStays DEF vars
<1>9. QED
  BY <1>1, <1>2, <1>3, <1>4, <1>5, <1>6, <1>7, <1>8 DEF Next, Work, End

LEMMA LifeTells ==
  ASSUME LifeInv
  PROVE  TemplateLive /\ FreedWithLast
<1> DEFINE n == Len(program[Main])
<1>1. TypeOK /\ Ordered(program) /\ ProgressInv /\ ReaderInv
  BY DEF LifeInv, FbInv
<1>2. /\ n \in Nat /\ n > 3 /\ at[Main] \in 1 .. n + 1
      /\ at[Main] >= n - 1 => \A b \in Branches : Finished(b)
  BY <1>1, MainEnds
<1> HIDE DEF n
<1>3. TemplateLive
  <2>1. at[Main] < n - 1 \/ at[Main] = n - 1 \/ at[Main] > n - 1
    BY <1>2
  <2>2. QED
    BY <1>1, <2>1 DEF ReaderInv, TemplateLive, n
<1>4. FreedWithLast
  <2> SUFFICES ASSUME holder = Destroyed
               PROVE  freed /\ held = {} /\ \A t \in Threads : Finished(t)
    BY DEF FreedWithLast
  <2>1. Finished(Main) /\ at[Main] = n + 1
    BY <1>1 DEF ProgressInv, Finished, n
  <2>2. at[Main] > n - 1 /\ at[Main] >= n - 1
    BY <1>2, <2>1
  <2>3. QED
    BY <1>1, <1>2, <2>1, <2>2 DEF ReaderInv, n, Threads
<1>5. QED
  BY <1>3, <1>4

LEMMA LifeInvariance ==
  ASSUME \A p \in Programs : Ordered(p)
  PROVE  Spec => []LifeInv
<1>1. Init => LifeInv
  BY LifeInit
<1>2. FbInv' /\ LifeInv /\ [Next]_vars => LifeInv'
  BY LifeStep
<1>3. QED
  BY <1>1, <1>2, InvCorrect, PTL DEF Spec

-----------------------------------------------------------------------------
(* The programs of a run that writes its streams to files are in order.    *)

\* Operations on the streams of writers, each of them closed once opened.
StreamOps == {"open", "close"} \X Writers
Proper(ops) == ops \in Seq(StreamOps) /\ ClosesAll(ops)

LEMMA StreamOpFacts ==
  /\ \A s \in Writers : Open(s) \in StreamOps /\ Close(s) \in StreamOps
  /\ \A s : Open(s)[1] = "open" /\ Open(s)[2] = s /\ Close(s)[1] = "close"
  /\ \A o \in StreamOps :
       o # Open(Reader) /\ o # Close(Reader) /\ o # <<"destroy">>
<1>1. \A s \in Writers : Open(s) \in StreamOps /\ Close(s) \in StreamOps
  BY DEF Open, Close, StreamOps
<1>2. \A s : /\ Open(s)[1] = "open" /\ Open(s)[2] = s
             /\ Close(s)[1] = "close" /\ Close(s)[2] = s
  BY DEF Open, Close
<1>3. Reader \notin Writers
  <2>1. \A w \in Writers : w[1] # "reader"
    <3>1. \A w \in MergerStreams : w[1] # "reader"
      <4>1. \A s : <<s>>[1] = s
        OBVIOUS
      <4>2. "merged" # "reader" /\ "to be merged" # "reader"
        OBVIOUS
      <4>3. QED
        BY <4>1, <4>2, Zenon DEF MergerStreams
    <3>2. /\ \A w \in FilterStreams : w[1] # "reader"
          /\ \A w \in GroupsStreams : w[1] # "reader"
          /\ \A w \in GroupFilterStreams : w[1] # "reader"
      BY DEF FilterStreams, GroupsStreams, GroupFilterStreams
    <3>3. \A w \in UngrouperStreams : w[1] # "reader"
      BY DEF UngrouperStreams
    <3>4. \A w \in SortedStreams : w[1] # "reader"
      BY DEF SortedStreams
    <3>5. \A w \in MembersStreams : w[1] # "reader"
      BY DEF MembersStreams
    <3>6. QED
      BY <3>1, <3>2, <3>3, <3>4, <3>5, Zenon DEF Writers
  <2>2. Reader[1] = "reader"
    BY DEF Reader
  <2>3. QED
    BY <2>1, <2>2
<1>4. \A o \in StreamOps : o[1] \in {"open", "close"} /\ o[2] \in Writers
  BY DEF StreamOps
<1>5. <<"destroy">>[1] = "destroy"
  OBVIOUS
<1>6. QED
  BY <1>1, <1>2, <1>3, <1>4, <1>5

LEMMA ProperFacts ==
  ASSUME NEW ops, Proper(ops)
  PROVE  /\ ops \in Seq(StreamOps)
         /\ Len(ops) \in Nat
         /\ DOMAIN ops = 1 .. Len(ops)
         /\ \A i \in 1 .. Len(ops) : ops[i] \in StreamOps
         /\ \A i \in 1 .. Len(ops) : ops[i][1] = "open" =>
              \E j \in 1 .. Len(ops) : i < j /\ ops[j] = Close(ops[i][2])
<1>1. ops \in Seq(StreamOps)
  BY DEF Proper
<1>2. /\ Len(ops) \in Nat /\ DOMAIN ops = 1 .. Len(ops)
      /\ \A i \in 1 .. Len(ops) : ops[i] \in StreamOps
  BY <1>1, LenProperties, ElementOfSeq
<1>3. QED
  BY <1>1, <1>2 DEF Proper, ClosesAll

LEMMA ProperEmpty == Proper(<<>>)
BY DEF Proper, ClosesAll

\* One after the other.
LEMMA ProperConcat ==
  ASSUME NEW a, NEW c, Proper(a), Proper(c)
  PROVE  Proper(a \o c)
<1> DEFINE m == Len(a)
           n == Len(c)
           q == a \o c
<1>1. /\ a \in Seq(StreamOps) /\ m \in Nat
      /\ \A i \in 1 .. m : a[i][1] = "open" =>
           \E j \in 1 .. m : i < j /\ a[j] = Close(a[i][2])
  BY ProperFacts
<1>2. /\ c \in Seq(StreamOps) /\ n \in Nat
      /\ \A i \in 1 .. n : c[i][1] = "open" =>
           \E j \in 1 .. n : i < j /\ c[j] = Close(c[i][2])
  BY ProperFacts
<1>3. /\ q \in Seq(StreamOps) /\ Len(q) = m + n
      /\ \A i \in 1 .. m + n : q[i] = IF i <= m THEN a[i] ELSE c[i - m]
  BY <1>1, <1>2, ConcatProperties
<1>4. DOMAIN q = 1 .. m + n
  BY <1>3, LenProperties
<1> HIDE DEF m, n, q
<1>5. ASSUME NEW i \in 1 .. m + n, q[i][1] = "open"
      PROVE  \E j \in 1 .. m + n : i < j /\ q[j] = Close(q[i][2])
  <2>1. CASE i <= m
    <3>1. i \in 1 .. m /\ q[i] = a[i]
      BY <1>1, <1>2, <1>3, <2>1
    <3>2. PICK j \in 1 .. m : i < j /\ a[j] = Close(a[i][2])
      BY <1>1, <1>5, <3>1
    <3>3. j \in 1 .. m + n /\ q[j] = a[j]
      BY <1>1, <1>2, <1>3
    <3>4. QED
      BY <3>1, <3>2, <3>3
  <2>2. CASE ~ (i <= m)
    <3>1. i - m \in 1 .. n /\ q[i] = c[i - m]
      BY <1>1, <1>2, <1>3, <2>2
    <3>2. PICK j \in 1 .. n : i - m < j /\ c[j] = Close(c[i - m][2])
      BY <1>2, <1>5, <3>1
    <3>3. j + m \in 1 .. m + n /\ ~ (j + m <= m) /\ (j + m) - m = j /\ i < j + m
      BY <1>1, <1>2, <3>2
    <3>4. q[j + m] = c[j]
      BY <1>3, <3>3
    <3>5. QED
      BY <3>1, <3>2, <3>3, <3>4
  <2>3. QED
    BY <2>1, <2>2
<1>6. QED
  BY <1>3, <1>4, <1>5 DEF Proper, ClosesAll, q

\* Between an opening and a closing.
LEMMA Framed ==
  ASSUME NEW S, NEW e \in S, NEW f \in S, NEW body \in Seq(S)
  PROVE  LET q == <<e>> \o body \o <<f>>
             n == Len(body)
         IN /\ q \in Seq(S) /\ n \in Nat /\ DOMAIN q = 1 .. n + 2
            /\ q[1] = e /\ q[n + 2] = f
            /\ \A i \in 1 .. n : q[i + 1] = body[i]
<1> DEFINE n == Len(body)
           x == <<e>>
           y == <<f>>
           p == x \o body
           q == p \o y
<1>1. n \in Nat
  BY LenProperties
<1>2. /\ x \in Seq(S) /\ Len(x) = 1 /\ x[1] = e
      /\ y \in Seq(S) /\ Len(y) = 1 /\ y[1] = f
  OBVIOUS
<1> HIDE DEF x, y
<1>3. /\ p \in Seq(S) /\ Len(p) = 1 + n
      /\ \A i \in 1 .. 1 + n : p[i] = IF i <= 1 THEN x[i] ELSE body[i - 1]
  <2>1. /\ p \in Seq(S) /\ Len(p) = Len(x) + Len(body)
        /\ \A i \in 1 .. Len(x) + Len(body) :
             p[i] = IF i <= Len(x) THEN x[i] ELSE body[i - Len(x)]
    BY <1>2, ConcatProperties
  <2>2. QED
    BY <1>2, <2>1
<1> HIDE DEF p
<1>4. /\ q \in Seq(S) /\ Len(q) = (1 + n) + 1
      /\ \A i \in 1 .. (1 + n) + 1 :
           q[i] = IF i <= 1 + n THEN p[i] ELSE y[i - (1 + n)]
  <2>1. /\ q \in Seq(S) /\ Len(q) = Len(p) + Len(y)
        /\ \A i \in 1 .. Len(p) + Len(y) :
             q[i] = IF i <= Len(p) THEN p[i] ELSE y[i - Len(p)]
    BY <1>2, <1>3, ConcatProperties
  <2>2. QED
    BY <1>2, <1>3, <2>1
<1>5. DOMAIN q = 1 .. n + 2
  <2>1. DOMAIN q = 1 .. Len(q) /\ Len(q) = n + 2
    BY <1>1, <1>4, LenProperties
  <2>2. QED
    BY <2>1
<1> HIDE DEF n, q
<1>6. q[1] = e
  BY <1>1, <1>2, <1>3, <1>4
<1>7. q[n + 2] = f
  <2>1. /\ n + 2 \in 1 .. (1 + n) + 1
        /\ ~ (n + 2 <= 1 + n) /\ (n + 2) - (1 + n) = 1
    BY <1>1
  <2>2. QED
    BY <1>2, <1>4, <2>1
<1>8. ASSUME NEW i \in 1 .. n PROVE q[i + 1] = body[i]
  <2>1. /\ i + 1 \in 1 .. (1 + n) + 1 /\ i + 1 \in 1 .. 1 + n /\ i + 1 <= 1 + n
        /\ ~ (i + 1 <= 1) /\ (i + 1) - 1 = i
    BY <1>1
  <2>2. QED
    BY <1>3, <1>4, <2>1
<1>9. QED
  BY <1>1, <1>4, <1>5, <1>6, <1>7, <1>8 DEF n, q, p, x, y

LEMMA ProperWithin ==
  ASSUME NEW s \in Writers, NEW body, Proper(body), NEW level, NEW from
  PROVE  Proper(Within(s, level >= from, body))
<1>1. CASE ~ (level >= from)
  BY <1>1 DEF Within
<1>2. CASE level >= from
  <2> DEFINE n == Len(body)
             q == <<Open(s)>> \o body \o <<Close(s)>>
  <2>1. /\ body \in Seq(StreamOps)
        /\ \A i \in 1 .. n : body[i][1] = "open" =>
             \E j \in 1 .. n : i < j /\ body[j] = Close(body[i][2])
    BY ProperFacts
  <2>2. /\ q \in Seq(StreamOps) /\ n \in Nat /\ DOMAIN q = 1 .. n + 2
        /\ q[1] = Open(s) /\ q[n + 2] = Close(s)
        /\ \A i \in 1 .. n : q[i + 1] = body[i]
    <3>1. Open(s) \in StreamOps /\ Close(s) \in StreamOps
      BY StreamOpFacts
    <3>2. QED
      BY <2>1, <3>1, Framed
  <2> HIDE DEF n, q
  <2>3. ASSUME NEW i \in 1 .. n + 2, q[i][1] = "open"
        PROVE  \E j \in 1 .. n + 2 : i < j /\ q[j] = Close(q[i][2])
    <3>1. CASE i = 1
      <4>1. n + 2 \in 1 .. n + 2 /\ 1 < n + 2
        BY <2>2
      <4>2. QED
        BY <2>2, <3>1, <4>1, StreamOpFacts
    <3>2. CASE i = n + 2
      <4>1. q[i][1] = "close"
        BY <2>2, <3>2, StreamOpFacts
      <4>2. QED
        BY <2>3, <4>1
    <3>3. CASE i # 1 /\ i # n + 2
      <4>1. i - 1 \in 1 .. n /\ (i - 1) + 1 = i
        BY <2>2, <3>3
      <4>2. q[i] = body[i - 1]
        BY <2>2, <4>1
      <4>3. PICK j \in 1 .. n : i - 1 < j /\ body[j] = Close(body[i - 1][2])
        BY <2>1, <2>3, <4>1, <4>2
      <4>4. j + 1 \in 1 .. n + 2 /\ i < j + 1
        BY <2>2, <4>3
      <4>5. q[j + 1] = Close(q[i][2])
        BY <2>2, <4>2, <4>3
      <4>6. QED
        BY <4>4, <4>5
    <3>4. QED
      BY <3>1, <3>2, <3>3
  <2>4. Proper(q)
    BY <2>2, <2>3 DEF Proper, ClosesAll
  <2>5. QED
    BY <1>2, <2>4 DEF Within, q
<1>3. QED
  BY <1>1, <1>2

\* One file after the other: an opening at the odd places, its closing next.
LEMMA OddEven ==
  ASSUME NEW k \in Nat, NEW n \in 1 .. 2 * k
  PROVE  /\ (n + 1) \div 2 \in 1 .. k
         /\ (n % 2) = 1 => /\ n + 1 \in 1 .. 2 * k
                           /\ ((n + 1) % 2) # 1
                           /\ ((n + 1) + 1) \div 2 = (n + 1) \div 2
OBVIOUS

LEMMA ProperPairs ==
  ASSUME NEW k \in Nat, NEW S \in [1 .. k -> Writers], NEW q,
         q = [n \in 1 .. 2 * k |-> IF (n % 2) = 1 THEN Open(S[(n + 1) \div 2])
                                   ELSE Close(S[(n + 1) \div 2])]
  PROVE  Proper(q)
<1>1. DOMAIN q = 1 .. 2 * k
  OBVIOUS
<1>2. ASSUME NEW n \in 1 .. 2 * k
      PROVE  /\ S[(n + 1) \div 2] \in Writers
             /\ q[n] \in StreamOps
             /\ (n % 2) = 1 => q[n] = Open(S[(n + 1) \div 2])
             /\ (n % 2) # 1 => q[n] = Close(S[(n + 1) \div 2])
  <2>1. (n + 1) \div 2 \in 1 .. k
    BY OddEven
  <2>2. S[(n + 1) \div 2] \in Writers
    BY <2>1
  <2>3. /\ (n % 2) = 1 => q[n] = Open(S[(n + 1) \div 2])
        /\ (n % 2) # 1 => q[n] = Close(S[(n + 1) \div 2])
    OBVIOUS
  <2>4. QED
    BY <2>2, <2>3, StreamOpFacts
<1>3. q \in Seq(StreamOps)
  <2>1. 2 * k \in Nat
    OBVIOUS
  <2>2. q \in [1 .. 2 * k -> StreamOps]
    BY <1>2
  <2> HIDE DEF StreamOps
  <2>3. QED
    BY <2>1, <2>2
<1>4. ASSUME NEW n \in 1 .. 2 * k, q[n][1] = "open"
      PROVE  \E j \in 1 .. 2 * k : n < j /\ q[j] = Close(q[n][2])
  <2>1. (n % 2) = 1
    BY <1>2, <1>4, StreamOpFacts
  <2>2. /\ n + 1 \in 1 .. 2 * k /\ ((n + 1) % 2) # 1
        /\ ((n + 1) + 1) \div 2 = (n + 1) \div 2
    BY <2>1, OddEven
  <2>3. q[n][2] = S[(n + 1) \div 2]
    BY <1>2, <2>1, StreamOpFacts
  <2>4. q[n + 1] = Close(S[(n + 1) \div 2])
    BY <1>2, <2>2
  <2>5. n < n + 1
    OBVIOUS
  <2>6. QED
    BY <2>2, <2>3, <2>4, <2>5
<1>5. QED
  BY <1>1, <1>3, <1>4 DEF Proper, ClosesAll

LEMMA MembersProper ==
  ASSUME FileStreamsAssumption, NEW b \in Branches, NEW c \in 0 .. NumClauses,
         NEW level \in Levels, NEW groups \in 0 .. NumGroups
  PROVE  Proper(MembersFiles(b, c, level, groups))
<1>1. CASE level < 2
  BY <1>1, ProperEmpty DEF MembersFiles
<1>2. CASE ~ (level < 2)
  <2> DEFINE S == [i \in 1 .. groups |-> <<"members", b, c, i>>]
             q == MembersFiles(b, c, level, groups)
  <2>1. groups \in Nat /\ 1 .. groups \subseteq 1 .. NumGroups
    BY DEF FileStreamsAssumption
  <2>2. S \in [1 .. groups -> Writers]
    <3>1. \A i \in 1 .. groups : <<"members", b, c, i>> \in MembersStreams
      BY <2>1 DEF MembersStreams
    <3>2. MembersStreams \subseteq Writers
      BY DEF Writers
    <3>3. QED
      BY <3>1, <3>2, Zenon
  <2>3. \A n \in 1 .. 2 * groups :
          S[(n + 1) \div 2] = <<"members", b, c, (n + 1) \div 2>>
    BY <2>1, OddEven
  <2>4. q = [n \in 1 .. 2 * groups |->
               IF (n % 2) = 1 THEN Open(<<"members", b, c, (n + 1) \div 2>>)
               ELSE Close(<<"members", b, c, (n + 1) \div 2>>)]
    BY <1>2, Zenon DEF MembersFiles
  <2> HIDE DEF S, q
  <2>5. q = [n \in 1 .. 2 * groups |->
               IF (n % 2) = 1 THEN Open(S[(n + 1) \div 2])
               ELSE Close(S[(n + 1) \div 2])]
    BY <2>3, <2>4, Zenon
  <2>6. Proper(q)
    BY <2>1, <2>2, <2>5, ProperPairs
  <2>7. QED
    BY <2>6 DEF q
<1>3. QED
  BY <1>1, <1>2

LEMMA UngrouperProper ==
  ASSUME FileStreamsAssumption
  PROVE  Proper(UngrouperProgram)
<1> DEFINE S == [i \in 1 .. NumTuples |-> <<"ungrouper", i>>]
           q == UngrouperProgram
<1>1. NumTuples \in Nat
  BY DEF FileStreamsAssumption
<1>2. S \in [1 .. NumTuples -> Writers]
  BY DEF Writers, UngrouperStreams
<1>3. \A n \in 1 .. 2 * NumTuples :
        S[(n + 1) \div 2] = <<"ungrouper", (n + 1) \div 2>>
  BY <1>1, OddEven
<1>4. q = [n \in 1 .. 2 * NumTuples |->
             IF (n % 2) = 1 THEN Open(<<"ungrouper", (n + 1) \div 2>>)
             ELSE Close(<<"ungrouper", (n + 1) \div 2>>)]
  BY Zenon DEF UngrouperProgram
<1> HIDE DEF S, q
<1>5. q = [n \in 1 .. 2 * NumTuples |->
             IF (n % 2) = 1 THEN Open(S[(n + 1) \div 2])
             ELSE Close(S[(n + 1) \div 2])]
  BY <1>3, <1>4, Zenon
<1>6. Proper(q)
  BY <1>1, <1>2, <1>5, ProperPairs
<1>7. QED
  BY <1>6 DEF q

\* All the filter's streams are opened, and then all of them are closed.
LEMMA FilterProper ==
  ASSUME NEW level \in Levels
  PROVE  Proper(FilterProgram(level))
<1>1. CASE level = 0
  BY <1>1, ProperEmpty DEF FilterProgram
<1>2. CASE level # 0
  <2> DEFINE S(b) == <<"filter", b>>
             a == [b \in Branches |-> Open(S(b))]
             c == [b \in Branches |-> Close(S(b))]
             q == a \o c
  <2>1. NumBranches \in Nat /\ Branches = 1 .. NumBranches
    BY FbTemplateAssumption DEF Branches
  <2>2. \A b \in Branches : S(b) \in Writers
    BY DEF Writers, FilterStreams
  <2> HIDE DEF S
  <2>3. /\ a \in [1 .. NumBranches -> StreamOps]
        /\ c \in [1 .. NumBranches -> StreamOps]
    BY <2>1, <2>2, StreamOpFacts, Zenon
  <2>4. /\ \A b \in 1 .. NumBranches : a[b] = Open(S(b))
        /\ \A b \in 1 .. NumBranches : c[b] = Close(S(b))
    BY <2>1
  <2> HIDE DEF a, c
  <2>5. /\ a \in Seq(StreamOps) /\ Len(a) = NumBranches
        /\ c \in Seq(StreamOps) /\ Len(c) = NumBranches
    BY <2>1, <2>3
  <2>6. /\ q \in Seq(StreamOps) /\ Len(q) = NumBranches + NumBranches
        /\ \A i \in 1 .. NumBranches + NumBranches :
             q[i] = IF i <= NumBranches THEN a[i] ELSE c[i - NumBranches]
    <3>1. /\ q \in Seq(StreamOps) /\ Len(q) = Len(a) + Len(c)
          /\ \A i \in 1 .. Len(a) + Len(c) :
               q[i] = IF i <= Len(a) THEN a[i] ELSE c[i - Len(a)]
      BY <2>5, ConcatProperties
    <3>2. QED
      BY <2>5, <3>1
  <2>7. DOMAIN q = 1 .. NumBranches + NumBranches
    BY <2>6, LenProperties
  <2> HIDE DEF q
  <2>8. ASSUME NEW i \in 1 .. NumBranches + NumBranches, q[i][1] = "open"
        PROVE  \E j \in 1 .. NumBranches + NumBranches :
                 i < j /\ q[j] = Close(q[i][2])
    <3>1. CASE i <= NumBranches
      <4>1. i \in 1 .. NumBranches /\ q[i] = Open(S(i))
        BY <2>1, <2>4, <2>6, <3>1
      <4>2. q[i][2] = S(i)
        BY <4>1, StreamOpFacts
      <4>3. /\ i + NumBranches \in 1 .. NumBranches + NumBranches
            /\ ~ (i + NumBranches <= NumBranches)
            /\ (i + NumBranches) - NumBranches = i
            /\ i < i + NumBranches
        BY <2>1, <4>1
      <4>4. q[i + NumBranches] = Close(S(i))
        BY <2>4, <2>6, <4>1, <4>3
      <4>5. QED
        BY <4>2, <4>3, <4>4
    <3>2. CASE ~ (i <= NumBranches)
      <4>1. i - NumBranches \in 1 .. NumBranches
        BY <2>1, <3>2
      <4>2. q[i] = Close(S(i - NumBranches))
        BY <2>4, <2>6, <3>2, <4>1
      <4>3. QED
        BY <2>8, <4>2, StreamOpFacts
    <3>3. QED
      BY <3>1, <3>2
  <2>9. Proper(q)
    BY <2>6, <2>7, <2>8 DEF Proper, ClosesAll
  <2>10. QED
    BY <1>2, <2>9, Zenon DEF FilterProgram, q, a, c, S
<1>3. QED
  BY <1>1, <1>2

\* The sets of streams a writer can be of.
LEMMA WriterFacts ==
  /\ <<"merged">> \in Writers /\ <<"to be merged">> \in Writers
  /\ \A b \in Branches : <<"groups", b>> \in Writers
                         /\ <<"groupfilter", b>> \in Writers
  /\ \A b \in Branches, c \in 1 .. NumClauses : <<"sorted", b, c>> \in Writers
<1>1. <<"merged">> \in Writers /\ <<"to be merged">> \in Writers
  BY Zenon DEF Writers, MergerStreams
<1>2. \A b \in Branches : <<"groups", b>> \in Writers
                          /\ <<"groupfilter", b>> \in Writers
  BY DEF Writers, GroupsStreams, GroupFilterStreams
<1>3. \A b \in Branches, c \in 1 .. NumClauses : <<"sorted", b, c>> \in Writers
  BY DEF Writers, SortedStreams
<1>4. QED
  BY <1>1, <1>2, <1>3

LEMMA MergerProper ==
  ASSUME NEW level \in Levels
  PROVE  Proper(MergerProgram(level))
<1>1. Proper(Within(<<"to be merged">>, level >= 2, <<>>))
  BY ProperEmpty, ProperWithin, WriterFacts, Zenon
<1>2. QED
  BY <1>1, ProperWithin, WriterFacts, Zenon DEF MergerProgram

\* The clauses up to one of them, of the recursion in ClausesProgram.
ClausesUpTo(f, b, level, n) ==
  f = [c \in 0 .. n |->
         IF c = 0 THEN <<>>
         ELSE f[c - 1] \o Within(<<"sorted", b, c>>, level >= 2, <<>>)
                \o MembersFiles(b, c, level, NumGroups)]

\* There is a least number in every set of them.
Below == {p \in Nat \X Nat : p[1] < p[2]}

LEMMA LeastElement ==
  ASSUME NEW S \in SUBSET Nat, S # {}
  PROVE  \E m \in S : \A n \in S : m <= n
<1>1. IsWellFoundedOn(Below, Nat)
  BY NatLessThanWellFounded DEF Below, OpToRel
<1>2. PICK m \in S : \A n \in S : ~ (<<n, m>> \in Below)
  BY <1>1, WFMin
<1>3. ASSUME NEW n \in S PROVE m <= n
  <2>1. <<n, m>> \in Nat \X Nat /\ <<n, m>> \notin Below
    BY <1>2
  <2>2. ~ (n < m)
    BY <2>1 DEF Below
  <2>3. QED
    BY <2>2
<1>4. QED
  BY <1>3

\* The recursion has a solution up to every clause, by the least one without.
LEMMA ClausesExist ==
  ASSUME NEW b, NEW level, NEW n \in Nat
  PROVE  \E f : ClausesUpTo(f, b, level, n)
<1> DEFINE Without == {m \in Nat : ~ \E f : ClausesUpTo(f, b, level, m)}
<1> SUFFICES ASSUME Without # {} PROVE FALSE
  OBVIOUS
<1>1. PICK m \in Without : \A k \in Without : m <= k
  <2>1. Without \in SUBSET Nat
    OBVIOUS
  <2> HIDE DEF Without
  <2>2. QED
    BY <2>1, LeastElement
<1>2. m \in Nat /\ ~ \E f : ClausesUpTo(f, b, level, m)
  BY <1>1
<1>3. m # 0
  <2> DEFINE e == [c \in 0 .. 0 |-> <<>>]
  <2>1. e = [c \in 0 .. 0 |->
               IF c = 0 THEN <<>>
               ELSE e[c - 1] \o Within(<<"sorted", b, c>>, level >= 2, <<>>)
                      \o MembersFiles(b, c, level, NumGroups)]
    <3>1. \A c \in 0 .. 0 : c = 0
      OBVIOUS
    <3>2. QED
      BY <3>1, Zenon
  <2> HIDE DEF e
  <2>2. ClausesUpTo(e, b, level, 0)
    BY <2>1 DEF ClausesUpTo
  <2>3. QED
    BY <1>2, <2>2
<1>4. m - 1 \in Nat /\ m - 1 \notin Without
  <2>1. m - 1 \in Nat /\ ~ (m <= m - 1)
    BY <1>2, <1>3
  <2>2. QED
    BY <1>1, <2>1
<1>5. PICK f : ClausesUpTo(f, b, level, m - 1)
  BY <1>4
<1> HIDE DEF Without
<1> DEFINE More(c) == Within(<<"sorted", b, c>>, level >= 2, <<>>)
           Files(c) == MembersFiles(b, c, level, NumGroups)
           g == [c \in 0 .. m |-> IF c = 0 THEN <<>>
                                  ELSE f[c - 1] \o More(c) \o Files(c)]
<1>6. f = [c \in 0 .. m - 1 |-> IF c = 0 THEN <<>>
                                ELSE f[c - 1] \o More(c) \o Files(c)]
  BY <1>5, Zenon DEF ClausesUpTo
<1> HIDE DEF More, Files
<1>7. g = [c \in 0 .. m |-> IF c = 0 THEN <<>>
                            ELSE g[c - 1] \o More(c) \o Files(c)]
  <2>1. ASSUME NEW c \in 0 .. m, c # 0 PROVE f[c - 1] = g[c - 1]
    <3>1. c - 1 \in 0 .. m - 1 /\ c - 1 \in 0 .. m
      BY <1>2, <2>1
    <3>2. f[c - 1] = IF c - 1 = 0 THEN <<>>
                     ELSE f[c - 1 - 1] \o More(c - 1) \o Files(c - 1)
      BY <1>6, <3>1
    <3>3. QED
      BY <3>1, <3>2
  <2>2. \A c \in 0 .. m :
          (IF c = 0 THEN <<>> ELSE f[c - 1] \o More(c) \o Files(c))
          = (IF c = 0 THEN <<>> ELSE g[c - 1] \o More(c) \o Files(c))
    BY <2>1
  <2>3. g = [c \in 0 .. m |-> IF c = 0 THEN <<>>
                              ELSE f[c - 1] \o More(c) \o Files(c)]
    OBVIOUS
  <2> HIDE DEF g
  <2>4. QED
    BY <2>2, <2>3
<1> HIDE DEF g
<1>8. ClausesUpTo(g, b, level, m)
  BY <1>7, Zenon DEF ClausesUpTo, More, Files
<1>9. QED
  BY <1>2, <1>8

\* Every clause sorts and then groups, so that all its files are closed.
LEMMA ClausesProper ==
  ASSUME FileStreamsAssumption, NEW b \in Branches, NEW level \in Levels
  PROVE  Proper(ClausesProgram(b, level))
<1>1. NumClauses \in Nat /\ NumGroups \in 0 .. NumGroups
  BY DEF FileStreamsAssumption
<1> DEFINE up == CHOOSE f : ClausesUpTo(f, b, level, NumClauses)
<1>2. ClausesProgram(b, level) = up[NumClauses]
  BY Zenon DEF ClausesProgram, ClausesUpTo
<1>3. ClausesUpTo(up, b, level, NumClauses)
  <2>1. \E f : ClausesUpTo(f, b, level, NumClauses)
    BY <1>1, ClausesExist
  <2>2. QED
    BY <2>1
<1> HIDE DEF up
<1> DEFINE More(c) == Within(<<"sorted", b, c>>, level >= 2, <<>>)
           Files(c) == MembersFiles(b, c, level, NumGroups)
<1>4. up = [c \in 0 .. NumClauses |-> IF c = 0 THEN <<>>
                                      ELSE up[c - 1] \o More(c) \o Files(c)]
  BY <1>3, Zenon DEF ClausesUpTo
<1>5. ASSUME NEW c \in 1 .. NumClauses PROVE Proper(More(c)) /\ Proper(Files(c))
  <2>1. c \in 0 .. NumClauses
    BY <1>1
  <2>2. Proper(Files(c))
    BY <1>1, <2>1, MembersProper
  <2>3. Proper(More(c))
    BY ProperEmpty, ProperWithin, WriterFacts, Zenon
  <2>4. QED
    BY <2>2, <2>3
<1> HIDE DEF More, Files
<1>6. /\ up[0] = <<>>
      /\ \A c \in 1 .. NumClauses : up[c] = up[c - 1] \o More(c) \o Files(c)
  <2> DEFINE Step(c) == up[c - 1] \o More(c) \o Files(c)
             Value(c) == IF c = 0 THEN <<>> ELSE Step(c)
  <2>1. up = [c \in 0 .. NumClauses |-> Value(c)]
    BY <1>4
  <2> HIDE DEF Value
  <2>2. \A c \in 0 .. NumClauses : up[c] = Value(c)
    BY <2>1
  <2>3. Value(0) = <<>> /\ \A c \in 1 .. NumClauses : Value(c) = Step(c)
    <3> HIDE DEF Step
    <3>1. QED
      BY DEF Value
  <2>4. 0 \in 0 .. NumClauses /\ 1 .. NumClauses \subseteq 0 .. NumClauses
    BY <1>1
  <2>5. QED
    BY <2>2, <2>3, <2>4
<1> DEFINE Wrong == {c \in 0 .. NumClauses : ~ Proper(up[c])}
<1>7. Wrong = {}
  <2> SUFFICES ASSUME Wrong # {} PROVE FALSE
    OBVIOUS
  <2>1. PICK m \in Wrong : \A k \in Wrong : m <= k
    <3>1. Wrong \in SUBSET Nat
      BY <1>1
    <3> HIDE DEF Wrong
    <3>2. QED
      BY <3>1, LeastElement
  <2>2. m \in 0 .. NumClauses /\ ~ Proper(up[m])
    BY <2>1
  <2>3. m \in 1 .. NumClauses
    <3>1. m # 0
      BY <1>6, <2>2, ProperEmpty
    <3>2. QED
      BY <1>1, <2>2, <3>1
  <2>4. Proper(up[m - 1])
    <3>1. m - 1 \in 0 .. NumClauses /\ ~ (m <= m - 1)
      BY <1>1, <2>3
    <3>2. QED
      BY <2>1, <3>1
  <2>5. Proper(up[m])
    BY <1>5, <1>6, <2>3, <2>4, ProperConcat, Zenon
  <2>6. QED
    BY <2>2, <2>5
<1>8. QED
  BY <1>1, <1>2, <1>7

LEMMA BranchProper ==
  ASSUME FileStreamsAssumption, NEW b \in Branches, NEW level \in Levels,
         NEW recorded
  PROVE  Proper(BranchProgram(b, level, recorded))
<1>1. Proper(IF NumClauses = 0 THEN MembersFiles(b, 0, level, 1)
             ELSE ClausesProgram(b, level))
  <2>1. 0 \in 0 .. NumClauses /\ 1 \in 0 .. NumGroups
    BY DEF FileStreamsAssumption
  <2>2. Proper(MembersFiles(b, 0, level, 1))
    BY <2>1, MembersProper
  <2>3. Proper(ClausesProgram(b, level))
    BY ClausesProper
  <2>4. QED
    BY <2>2, <2>3
<1>2. Proper(GrouperProgram(b, level))
  BY <1>1, ProperWithin, WriterFacts, Zenon DEF GrouperProgram
<1>3. Proper(Within(<<"groupfilter", b>>, level >= 1, <<>>))
  BY ProperEmpty, ProperWithin, WriterFacts, Zenon
<1>4. Proper(IF b \in recorded THEN GrouperProgram(b, level) ELSE <<>>)
  BY <1>2, ProperEmpty
<1>5. QED
  BY <1>3, <1>4, ProperConcat, Zenon DEF BranchProgram

\* Main: the streams of the filter within the reader, then the threads, and then
\* those of the merger and the ungrouper.
LEMMA MainInOrder ==
  ASSUME FileStreamsAssumption, NEW level \in Levels, NEW results \in BOOLEAN
  PROVE  LET ops == MainProgram(level, results)
         IN MainOrdered(ops) /\ ClosesAll(ops)
<1> DEFINE F   == FilterProgram(level)
           X   == IF results THEN MergerProgram(level) \o UngrouperProgram
                  ELSE <<>>
           O   == <<Open(Reader)>>
           J   == <<<<"spawn">>, <<"join">>>>
           E   == <<Close(Reader), <<"destroy">>>>
           f   == Len(F)
           x   == Len(X)
           ops == O \o F \o J \o (X \o E)
           n   == f + x + 5
           Any == StreamOps \cup {Open(Reader), Close(Reader), <<"spawn">>,
                                  <<"join">>, <<"destroy">>}
<1>1. MainProgram(level, results) = ops
  BY DEF MainProgram, EndProgram
<1>2. Proper(F)
  BY FilterProper
<1>3. Proper(X)
  <2>1. Proper(MergerProgram(level) \o UngrouperProgram)
    BY MergerProper, UngrouperProper, ProperConcat
  <2>2. QED
    BY <2>1, ProperEmpty
<1> HIDE DEF F, X
<1>4. /\ F \in Seq(StreamOps) /\ f \in Nat
      /\ \A i \in 1 .. f : F[i] \in StreamOps
      /\ \A i \in 1 .. f : F[i][1] = "open" =>
           \E j \in 1 .. f : i < j /\ F[j] = Close(F[i][2])
  BY <1>2, ProperFacts
<1>5. /\ X \in Seq(StreamOps) /\ x \in Nat
      /\ \A i \in 1 .. x : X[i] \in StreamOps
      /\ \A i \in 1 .. x : X[i][1] = "open" =>
           \E j \in 1 .. x : i < j /\ X[j] = Close(X[i][2])
  BY <1>3, ProperFacts
<1> HIDE DEF f, x
<1>6. /\ O \in Seq(Any) /\ Len(O) = 1 /\ O[1] = Open(Reader)
      /\ J \in Seq(Any) /\ Len(J) = 2
      /\ J[1] = <<"spawn">> /\ J[2] = <<"join">>
      /\ E \in Seq(Any) /\ Len(E) = 2
      /\ E[1] = Close(Reader) /\ E[2] = <<"destroy">>
  <2>1. /\ Open(Reader) \in Any /\ Close(Reader) \in Any /\ <<"spawn">> \in Any
        /\ <<"join">> \in Any /\ <<"destroy">> \in Any
    OBVIOUS
  <2> HIDE DEF Any
  <2>2. QED
    BY <2>1
<1>7. F \in Seq(Any) /\ X \in Seq(Any)
  BY <1>4, <1>5, SeqMonotonic
<1> HIDE DEF O, J, E, Any
<1> DEFINE p1 == O \o F
           p2 == p1 \o J
           e  == X \o E
           q  == p2 \o e
<1>8. /\ p1 \in Seq(Any) /\ Len(p1) = 1 + f
      /\ \A i \in 1 .. 1 + f : p1[i] = IF i <= 1 THEN O[i] ELSE F[i - 1]
  <2>1. /\ p1 \in Seq(Any) /\ Len(p1) = Len(O) + Len(F)
        /\ \A i \in 1 .. Len(O) + Len(F) :
             p1[i] = IF i <= Len(O) THEN O[i] ELSE F[i - Len(O)]
    BY <1>6, <1>7, ConcatProperties
  <2>2. QED
    BY <1>6, <2>1 DEF f
<1>9. /\ e \in Seq(Any) /\ Len(e) = x + 2
      /\ \A i \in 1 .. x + 2 : e[i] = IF i <= x THEN X[i] ELSE E[i - x]
  <2>1. /\ e \in Seq(Any) /\ Len(e) = Len(X) + Len(E)
        /\ \A i \in 1 .. Len(X) + Len(E) :
             e[i] = IF i <= Len(X) THEN X[i] ELSE E[i - Len(X)]
    BY <1>6, <1>7, ConcatProperties
  <2>2. QED
    BY <1>6, <2>1 DEF x
<1> HIDE DEF p1, e
<1>10. /\ p2 \in Seq(Any) /\ Len(p2) = (1 + f) + 2
       /\ \A i \in 1 .. (1 + f) + 2 :
            p2[i] = IF i <= 1 + f THEN p1[i] ELSE J[i - (1 + f)]
  <2>1. /\ p2 \in Seq(Any) /\ Len(p2) = Len(p1) + Len(J)
        /\ \A i \in 1 .. Len(p1) + Len(J) :
             p2[i] = IF i <= Len(p1) THEN p1[i] ELSE J[i - Len(p1)]
    BY <1>6, <1>8, ConcatProperties
  <2>2. QED
    BY <1>6, <1>8, <2>1
<1> HIDE DEF p2
<1>11. /\ q \in Seq(Any) /\ Len(q) = n /\ n \in Nat
       /\ \A i \in 1 .. n : q[i] = IF i <= f + 3 THEN p2[i] ELSE e[i - (f + 3)]
  <2>1. /\ q \in Seq(Any) /\ Len(q) = Len(p2) + Len(e)
        /\ \A i \in 1 .. Len(p2) + Len(e) :
             q[i] = IF i <= Len(p2) THEN p2[i] ELSE e[i - Len(p2)]
    BY <1>9, <1>10, ConcatProperties
  <2>2. Len(p2) = f + 3 /\ Len(p2) + Len(e) = n /\ n \in Nat
    BY <1>4, <1>5, <1>9, <1>10
  <2> HIDE DEF q, n
  <2>3. QED
    BY <2>1, <2>2
<1>12. DOMAIN q = 1 .. n
  BY <1>11, LenProperties
<1> HIDE DEF q
\* The five operations of main, and where the streams are.
<1>13. q[1] = Open(Reader)
  <2>1. 1 \in 1 .. n /\ 1 <= f + 3 /\ 1 \in 1 .. (1 + f) + 2 /\ 1 <= 1 + f
        /\ 1 \in 1 .. 1 + f
    BY <1>4, <1>5
  <2>2. QED
    BY <1>6, <1>8, <1>10, <1>11, <2>1
<1>14. q[f + 2] = <<"spawn">> /\ q[f + 3] = <<"join">>
  <2>1. /\ f + 2 \in 1 .. n /\ f + 2 <= f + 3 /\ f + 2 \in 1 .. (1 + f) + 2
        /\ ~ (f + 2 <= 1 + f) /\ (f + 2) - (1 + f) = 1
        /\ f + 3 \in 1 .. n /\ f + 3 <= f + 3 /\ f + 3 \in 1 .. (1 + f) + 2
        /\ ~ (f + 3 <= 1 + f) /\ (f + 3) - (1 + f) = 2
    BY <1>4, <1>5
  <2>2. q[f + 2] = p2[f + 2] /\ q[f + 3] = p2[f + 3]
    BY <1>11, <2>1
  <2>3. p2[f + 2] = J[1] /\ p2[f + 3] = J[2]
    BY <1>10, <2>1
  <2>4. QED
    BY <1>6, <2>2, <2>3
<1>15. q[n - 1] = Close(Reader) /\ q[n] = <<"destroy">>
  <2>1. /\ n - 1 \in 1 .. n /\ ~ (n - 1 <= f + 3) /\ (n - 1) - (f + 3) = x + 1
        /\ n \in 1 .. n /\ ~ (n <= f + 3) /\ n - (f + 3) = x + 2
        /\ x + 1 \in 1 .. x + 2 /\ ~ (x + 1 <= x) /\ (x + 1) - x = 1
        /\ x + 2 \in 1 .. x + 2 /\ ~ (x + 2 <= x) /\ (x + 2) - x = 2
    BY <1>4, <1>5
  <2> HIDE DEF n
  <2>2. q[n - 1] = e[x + 1] /\ q[n] = e[x + 2]
    BY <1>11, <2>1
  <2>3. e[x + 1] = E[1] /\ e[x + 2] = E[2]
    BY <1>9, <2>1
  <2>4. QED
    BY <1>6, <2>2, <2>3
<1>16. ASSUME NEW i \in 1 .. f
       PROVE  i + 1 \in 2 .. n - 2 /\ q[i + 1] = F[i]
  <2>1. /\ i + 1 \in 2 .. n - 2 /\ i + 1 \in 1 .. n /\ i + 1 <= f + 3
        /\ i + 1 \in 1 .. (1 + f) + 2 /\ i + 1 <= 1 + f
        /\ i + 1 \in 1 .. 1 + f /\ ~ (i + 1 <= 1) /\ (i + 1) - 1 = i
    BY <1>4, <1>5
  <2> HIDE DEF n
  <2>2. q[i + 1] = p2[i + 1] /\ p2[i + 1] = p1[i + 1] /\ p1[i + 1] = F[i]
    BY <1>8, <1>10, <1>11, <2>1
  <2>3. QED
    BY <2>1, <2>2
<1>17. ASSUME NEW i \in 1 .. x
       PROVE  i + (f + 3) \in 2 .. n - 2 /\ q[i + (f + 3)] = X[i]
  <2>1. /\ i + (f + 3) \in 2 .. n - 2 /\ i + (f + 3) \in 1 .. n
        /\ ~ (i + (f + 3) <= f + 3) /\ (i + (f + 3)) - (f + 3) = i
        /\ i \in 1 .. x + 2 /\ i <= x
    BY <1>4, <1>5
  <2> HIDE DEF n
  <2>2. q[i + (f + 3)] = e[i] /\ e[i] = X[i]
    BY <1>9, <1>11, <2>1
  <2>3. QED
    BY <2>1, <2>2
<1>18. ASSUME NEW i \in 2 .. n - 2
       PROVE  \/ i = f + 2 \/ i = f + 3
              \/ \E k \in 1 .. f : i = k + 1
              \/ \E k \in 1 .. x : i = k + (f + 3)
  <2>1. /\ i \in 2 .. f + 1 => i - 1 \in 1 .. f /\ i = (i - 1) + 1
        /\ i \in f + 4 .. n - 2 =>
             i - (f + 3) \in 1 .. x /\ i = (i - (f + 3)) + (f + 3)
        /\ i \in 2 .. f + 1 \/ i = f + 2 \/ i = f + 3 \/ i \in f + 4 .. n - 2
    BY <1>4, <1>5
  <2>2. QED
    BY <2>1
<1>19. /\ <<"spawn">>[1] = "spawn" /\ <<"join">>[1] = "join"
       /\ <<"destroy">>[1] = "destroy"
  OBVIOUS
<1>20. MainOrdered(q)
  <2>1. Len(q) > 2 /\ f + 3 \in 2 .. n - 2
    BY <1>4, <1>5, <1>11
  <2>2. ASSUME NEW i \in 2 .. n - 2
        PROVE  q[i] \notin {Open(Reader), Close(Reader), <<"destroy">>}
    <3>1. CASE i = f + 2 \/ i = f + 3
      BY <1>14, <1>19, <3>1, StreamOpFacts
    <3>2. CASE \E k \in 1 .. f : i = k + 1
      <4>1. PICK k \in 1 .. f : i = k + 1
        BY <3>2
      <4>2. q[i] = F[k] /\ F[k] \in StreamOps
        BY <1>4, <1>16, <4>1
      <4>3. QED
        BY <4>2, StreamOpFacts
    <3>3. CASE \E k \in 1 .. x : i = k + (f + 3)
      <4>1. PICK k \in 1 .. x : i = k + (f + 3)
        BY <3>3
      <4>2. q[i] = X[k] /\ X[k] \in StreamOps
        BY <1>5, <1>17, <4>1
      <4>3. QED
        BY <4>2, StreamOpFacts
    <3>4. QED
      BY <1>18, <3>1, <3>2, <3>3
  <2> HIDE DEF n
  <2>3. QED
    BY <1>11, <1>13, <1>14, <1>15, <2>1, <2>2 DEF MainOrdered
<1>21. ClosesAll(q)
  <2> SUFFICES ASSUME NEW i \in 1 .. n, q[i][1] = "open"
               PROVE  \E j \in 1 .. n : i < j /\ q[j] = Close(q[i][2])
    BY <1>12 DEF ClosesAll
  <2>1. CASE i = 1
    <3>1. n - 1 \in 1 .. n /\ 1 < n - 1
      BY <1>4, <1>5
    <3>2. QED
      BY <1>13, <1>15, <2>1, <3>1, StreamOpFacts
  <2>2. CASE i = n - 1 \/ i = n \/ i = f + 2 \/ i = f + 3
    <3>1. q[i][1] # "open"
      BY <1>14, <1>15, <1>19, <2>2, StreamOpFacts
    <3>2. QED
      BY <2>2, <3>1
  <2>3. CASE \E k \in 1 .. f : i = k + 1
    <3>1. PICK k \in 1 .. f : i = k + 1
      BY <2>3
    <3>2. q[i] = F[k]
      BY <1>16, <3>1
    <3>3. PICK j \in 1 .. f : k < j /\ F[j] = Close(F[k][2])
      BY <1>4, <3>2
    <3>4. q[j + 1] = F[j]
      BY <1>16
    <3>5. j + 1 \in 1 .. n /\ i < j + 1
      BY <1>4, <1>5, <3>1, <3>3
    <3>6. QED
      BY <3>2, <3>3, <3>4, <3>5
  <2>4. CASE \E k \in 1 .. x : i = k + (f + 3)
    <3>1. PICK k \in 1 .. x : i = k + (f + 3)
      BY <2>4
    <3>2. q[i] = X[k]
      BY <1>17, <3>1
    <3>3. PICK j \in 1 .. x : k < j /\ X[j] = Close(X[k][2])
      BY <1>5, <3>2
    <3>4. q[j + (f + 3)] = X[j]
      BY <1>17
    <3>5. j + (f + 3) \in 1 .. n /\ i < j + (f + 3)
      BY <1>4, <1>5, <3>1, <3>3
    <3>6. QED
      BY <3>2, <3>3, <3>4, <3>5
  <2>5. i \in 2 .. n - 2 \/ i = 1 \/ i = n - 1 \/ i = n
    BY <1>11
  <2>6. QED
    BY <1>18, <2>1, <2>2, <2>3, <2>4, <2>5
<1>22. ops = q
  BY DEF q, p2, p1, e
<1>23. QED
  BY <1>1, <1>20, <1>21, <1>22

\* Whatever the clauses, the groups and the tuples are: the programs that main
\* and the branch threads run are in the order on which the life of the template
\* depends.
THEOREM ProgramsOrdered == \A p \in AllPrograms : Ordered(p)
<1>1. ASSUME NEW level \in Levels, NEW recorded \in SUBSET Branches,
             NEW results \in BOOLEAN
      PROVE  Ordered(ThreadPrograms(level, recorded, results))
  <2> DEFINE p == ThreadPrograms(level, recorded, results)
  <2>1. Main \in Threads /\ Main \notin Branches /\ Branches \subseteq Threads
    BY DEF Threads, Main, Branches
  <2>2. p[Main] = MainProgram(level, results)
    BY <2>1 DEF ThreadPrograms
  <2>3. \A b \in Branches : p[b] = BranchProgram(b, level, recorded)
    BY <2>1 DEF ThreadPrograms
  <2> HIDE DEF p
  <2>4. MainOrdered(p[Main]) /\ ClosesAll(p[Main])
    BY <2>2, MainInOrder, FileStreamsAssumption
  <2>5. \A b \in Branches : Proper(p[b])
    BY <2>3, BranchProper, FileStreamsAssumption
  <2>6. ASSUME NEW b \in Branches, NEW i \in DOMAIN p[b]
        PROVE  p[b][i] \notin {Open(Reader), Close(Reader)}
    <3>1. p[b][i] \in StreamOps
      BY <2>5, ProperFacts
    <3>2. QED
      BY <3>1, StreamOpFacts
  <2>7. \A t \in Threads : ClosesAll(p[t])
    BY <2>4, <2>5 DEF Threads, Proper
  <2>8. QED
    BY <2>4, <2>6, <2>7 DEF Ordered, p
<1> DEFINE A == {ThreadPrograms(level, recorded, recorded = Branches) :
                   level \in Levels, recorded \in SUBSET Branches}
           B == {ThreadPrograms(level, Branches, FALSE) : level \in Levels}
<1>2. AllPrograms = A \cup B
  BY DEF AllPrograms
<1>3. ASSUME NEW p \in A PROVE Ordered(p)
  <2>1. PICK level \in Levels, recorded \in SUBSET Branches :
          p = ThreadPrograms(level, recorded, recorded = Branches)
    OBVIOUS
  <2> HIDE DEF A
  <2>2. CASE recorded = Branches
    <3>1. p = ThreadPrograms(level, recorded, TRUE)
      BY <2>1, <2>2
    <3>2. QED
      BY <1>1, <3>1
  <2>3. CASE recorded # Branches
    <3>1. p = ThreadPrograms(level, recorded, FALSE)
      BY <2>1, <2>3
    <3>2. QED
      BY <1>1, <3>1
  <2>4. QED
    BY <2>2, <2>3
<1>4. ASSUME NEW p \in B PROVE Ordered(p)
  BY <1>1
<1> HIDE DEF A, B
<1>5. QED
  BY <1>2, <1>3, <1>4

\* No session refers to a template that has been freed, in a run that writes its
\* streams to files: the reader, whose reference comes first, drops it last.
THEOREM LiveCorrect ==
  ASSUME Programs \subseteq AllPrograms
  PROVE  Spec => []TemplateLive
<1>1. \A p \in Programs : Ordered(p)
  BY ProgramsOrdered
<1>2. LifeInv => TemplateLive
  BY LifeTells
<1>3. QED
  BY <1>1, <1>2, LifeInvariance, PTL

\* When the context is destroyed the template has been freed with the last
\* session, and nobody is left to lock the mutex.
THEOREM LastCorrect ==
  ASSUME Programs \subseteq AllPrograms
  PROVE  Spec => []FreedWithLast
<1>1. \A p \in Programs : Ordered(p)
  BY ProgramsOrdered
<1>2. LifeInv => FreedWithLast
  BY LifeTells
<1>3. QED
  BY <1>1, <1>2, LifeInvariance, PTL
=============================================================================
