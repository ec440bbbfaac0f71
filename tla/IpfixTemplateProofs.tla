------------------------ MODULE IpfixTemplateProofs -------------------------
(***************************************************************************)
(* The invariants of IpfixTemplate, for every set of information elements, *)
(* every list of defaults and every query. They follow from TemplateInv:   *)
(* as long as only elements with a size have been met each one lies within *)
(* 15 bytes behind the one before it (PlaceInv), next_offset is the end of *)
(* the last one and far from the end of the address space (NextInv), and   *)
(* the walk has described a record that ends where it stands (WalkInv).    *)
(* The first element without a size lies at the end of the address space:  *)
(* the walk does not pass it, and an offset that is no multiple of its size *)
(* is only met behind it.                                                  *)
(***************************************************************************)
EXTENDS IpfixTemplate, TLAPS

-----------------------------------------------------------------------------
(* Sizes and offsets                                                       *)

\* Rounding up to a multiple of a size of 1 to 16 bytes (io-ipfix.c:240-242).
LEMMA RoundedUp ==
  ASSUME NEW n \in Nat, NEW size \in 1 .. 16
  PROVE  LET up == IF n % size = 0 THEN n ELSE n + (size - (n % size))
         IN /\ n % size \in 0 .. size - 1
            /\ up % size = 0
            /\ up - n \in 0 .. 15
<1>1. size \in {1, 2, 3, 4, 5, 6, 7, 8} \/ size \in {9, 10, 11, 12, 13, 14, 15, 16}
  OBVIOUS
<1>2. CASE size \in {1, 2, 3, 4, 5, 6, 7, 8}
  BY <1>2, Z3
<1>3. CASE size \in {9, 10, 11, 12, 13, 14, 15, 16}
  BY <1>3, Z3
<1>4. QED
  BY <1>1, <1>2, <1>3

LEMMA MaxSizeTyped == MaxSize \in Nat /\ MaxSize > 63
BY IpfixTemplateAssumption DEF IpfixTemplateAssumption, MaxSize

\* The places in a template are numbers.
LEMMA PlacesTyped ==
  ASSUME TypeOK
  PROVE  /\ next_offset \in Nat
         /\ \A k \in DOMAIN arr : arr[k].offset \in Nat /\ arr[k].size \in Nat
         /\ \A k \in 0 .. Len(arr) : End(k) \in Nat
<1> DEFINE Place == [name : Names, offset : 0 .. MaxSize, size : 1 .. MaxSize]
<1>1. next_offset \in Nat
  BY MaxSizeTyped DEF TypeOK
<1>2. arr \in Seq(Place)
  BY DEF TypeOK
<1>3. \A place \in Place : place.offset \in Nat /\ place.size \in Nat
  BY MaxSizeTyped
<1> HIDE DEF Place
<1>4. /\ Len(arr) \in Nat /\ DOMAIN arr = 1 .. Len(arr)
      /\ \A k \in DOMAIN arr : arr[k] \in Place
  BY <1>2
<1>5. \A k \in DOMAIN arr : arr[k].offset \in Nat /\ arr[k].size \in Nat
  BY <1>3, <1>4
<1>6. \A k \in 0 .. Len(arr) : End(k) \in Nat
  BY <1>4, <1>5 DEF End
<1>7. QED
  BY <1>1, <1>5, <1>6

\* A sum of two sizes is a size, and exact as long as it is one.
LEMMA SizeSumTyped ==
  ASSUME NEW x \in 0 .. MaxSize, NEW y \in 0 .. MaxSize
  PROVE  /\ SizeSum(x, y) \in 0 .. MaxSize
         /\ x + y < SizeRange => SizeSum(x, y) = x + y
BY IpfixTemplateAssumption DEF SizeSum, MaxSize, IpfixTemplateAssumption

\* What Size gives for the type of an element.
LEMMA SizeTyped ==
  ASSUME NEW name \in Names, SizeOf[name] # Unknown
  PROVE  /\ name \in Sized => Size(name) \in 1 .. 16
         /\ name \notin Sized => Size(name) = MaxSize
         /\ Size(name) \in 1 .. MaxSize
BY IpfixTemplateAssumption
   DEF IpfixTemplateAssumption, Size, Sized, NoSize, Unknown, MaxSize

\* Where the next element gets its place: within 15 bytes if it has a size and
\* all before it have, and else at the end of the address space.
LEMMA OffsetTyped ==
  ASSUME TypeOK, NEW name \in Names, SizeOf[name] # Unknown
  PROVE  AlignedOffset(Size(name)) \in 0 .. MaxSize
<1> DEFINE size == Size(name)
           rest == next_offset % size
<1>1. size \in 1 .. MaxSize /\ next_offset \in 0 .. MaxSize
  BY SizeTyped DEF TypeOK
<1>2. rest \in 0 .. size - 1
  BY <1>1
<1> HIDE DEF size, rest
<1>3. size - rest \in 0 .. MaxSize
  BY <1>1, <1>2, IpfixTemplateAssumption DEF IpfixTemplateAssumption, MaxSize
<1>4. SizeSum(next_offset, size - rest) \in 0 .. MaxSize
  BY <1>1, <1>3, SizeSumTyped
<1>5. QED
  BY <1>1, <1>4 DEF AlignedOffset, rest, size

LEMMA OffsetSized ==
  ASSUME TypeOK, NEW name \in Sized,
         2 * (next_offset + 64) < SizeRange
  PROVE  /\ AlignedOffset(Size(name)) % Size(name) = 0
         /\ AlignedOffset(Size(name)) - next_offset \in 0 .. 15
<1> DEFINE size == Size(name)
           rest == next_offset % size
           up   == IF rest = 0 THEN next_offset ELSE next_offset + (size - rest)
<1>1. size \in 1 .. 16 /\ next_offset \in 0 .. MaxSize /\ next_offset \in Nat
  <2>1. name \in Names /\ SizeOf[name] # Unknown
    BY IpfixTemplateAssumption DEF Sized, Unknown
  <2>2. size \in 1 .. 16
    BY <2>1, SizeTyped
  <2>3. next_offset \in 0 .. MaxSize /\ next_offset \in Nat
    BY PlacesTyped DEF TypeOK
  <2>4. QED
    BY <2>2, <2>3
<1>2. rest \in 0 .. size - 1 /\ up % size = 0 /\ up - next_offset \in 0 .. 15
  BY <1>1, RoundedUp
<1>3. AlignedOffset(size) =
        IF rest = 0 THEN next_offset ELSE SizeSum(next_offset, size - rest)
  BY DEF AlignedOffset
<1> HIDE DEF size, rest
<1>4. size - rest \in 0 .. MaxSize /\ next_offset + (size - rest) < SizeRange
  BY <1>1, <1>2, IpfixTemplateAssumption DEF IpfixTemplateAssumption, MaxSize
<1>5. AlignedOffset(size) = up
  BY <1>1, <1>3, <1>4, SizeSumTyped
<1>6. QED
  BY <1>2, <1>5 DEF size

LEMMA OffsetUnsized ==
  ASSUME TypeOK, NEW name \in Names \ Sized, SizeOf[name] # Unknown,
         next_offset > 0, next_offset < MaxSize
  PROVE  AlignedOffset(Size(name)) = MaxSize
<1>1. Size(name) = MaxSize /\ next_offset \in 0 .. MaxSize
  BY SizeTyped DEF TypeOK
<1>2. next_offset % MaxSize = next_offset
  BY <1>1, Z3, IpfixTemplateAssumption DEF IpfixTemplateAssumption, MaxSize
<1>3. SizeSum(next_offset, MaxSize - next_offset) = MaxSize
  BY <1>1, IpfixTemplateAssumption
     DEF IpfixTemplateAssumption, SizeSum, MaxSize
<1>4. QED
  BY <1>1, <1>2, <1>3 DEF AlignedOffset

-----------------------------------------------------------------------------
(* The inductive invariant                                                 *)

LEMMA InitInv == Init => TemplateInv
<1> SUFFICES ASSUME Init PROVE TemplateInv
  OBVIOUS
<1>1. PICK query \in Queries : todo = Defaults \o query
  BY DEF Init
<1>2. /\ Defaults \in Seq(Names) /\ query \in Seq(Names)
      /\ Len(Defaults) > 0 /\ Head(Defaults) \in Sized
      /\ 64 * (Len(Defaults) + Len(query) + 1) < SizeRange
  BY <1>1, IpfixTemplateAssumption DEF IpfixTemplateAssumption, Sized
<1>3. /\ todo \in Seq(Names) /\ Len(todo) = Len(Defaults) + Len(query)
      /\ todo # <<>> /\ Head(todo) = Head(Defaults)
  BY <1>1, <1>2
<1>4. 2 * (32 * (Len(todo) + 1)) < SizeRange
  BY <1>2, <1>3, IpfixTemplateAssumption DEF IpfixTemplateAssumption
<1>5. TypeOK
  BY <1>3, IpfixTemplateAssumption DEF IpfixTemplateAssumption, Init, TypeOK, MaxSize
<1>6. PlaceInv
  BY DEF Init, PlaceInv
<1>7. NextInv
  BY <1>2, <1>3, <1>4 DEF Init, NextInv, End
<1>8. WalkInv
  BY DEF Init, WalkInv, SizedBefore, SpecEnd, End, DescriptionAgrees,
         UnsizedNeverUsed
<1>9. QED
  BY <1>5, <1>6, <1>7, <1>8 DEF TemplateInv

LEMMA RegisterInv ==
  ASSUME TemplateInv, Register
  PROVE  TemplateInv'
<1> DEFINE name   == Head(todo)
           size   == Size(name)
           offset == AlignedOffset(size)
           ie     == [name |-> name, offset |-> offset, size |-> size]
<1>1. TypeOK /\ PlaceInv /\ NextInv /\ WalkInv
  BY DEF TemplateInv
<1>0. PICK n \in Nat : n = Len(arr)
  BY <1>1 DEF TypeOK
<1>2. /\ todo \in Seq(Names) /\ name \in Names /\ SizeOf[name] # Unknown
      /\ Len(todo) \in Nat \ {0}
      /\ todo' \in Seq(Names) /\ Len(todo') = Len(todo) - 1
  BY <1>1 DEF TypeOK, Register
<1>3. size \in 1 .. MaxSize /\ offset \in 0 .. MaxSize
  BY <1>1, <1>2, SizeTyped, OffsetTyped
<1>4. /\ arr' = Append(arr, ie)
      /\ next_offset' = SizeSum(offset, size)
      /\ UNCHANGED <<walk, pc>> /\ pc = "register"
      /\ \A k \in DOMAIN arr : arr[k].name # name
  BY DEF Register, Registered
<1>5. /\ n \in Nat /\ n = Len(arr) /\ DOMAIN arr = 1 .. n /\ DOMAIN arr' = 1 .. n + 1
      /\ Len(arr') = n + 1
      /\ \A k \in 1 .. n : arr'[k] = arr[k]
      /\ arr'[n + 1] = ie
  BY <1>0, <1>1, <1>4 DEF TypeOK
<1> HIDE DEF size, offset
<1>6. TypeOK'
  <2>1. ie \in [name : Names, offset : 0 .. MaxSize, size : 1 .. MaxSize]
    BY <1>2, <1>3
  <2>2. arr' \in Seq([name : Names, offset : 0 .. MaxSize, size : 1 .. MaxSize])
    BY <1>1, <1>4, <2>1 DEF TypeOK
  <2>3. next_offset' \in 0 .. MaxSize
    <3>1. size \in 0 .. MaxSize
      BY <1>3
    <3>2. QED
      BY <1>3, <1>4, <3>1, SizeSumTyped
  <2>4. i' \in 1 .. Len(arr') + 1
    BY <1>1, <1>4, <1>5 DEF TypeOK, walk
  <2>5. QED
    BY <1>1, <1>2, <1>4, <2>2, <2>3, <2>4 DEF TypeOK, walk
<1>7. \A k \in 0 .. n : End(k)' = End(k)
  BY <1>5 DEF End
<1>8. End(n + 1)' = offset + size
  BY <1>5 DEF End
<1>9. \A k \in 1 .. n + 1 : SizedBefore(k)' <=> SizedBefore(k)
  BY <1>5 DEF SizedBefore
<1>10. /\ AllSized <=> SizedBefore(n + 1)
       /\ AllSized' <=> AllSized /\ name \in Sized
  BY <1>5 DEF AllSized, SizedBefore
<1>11. AllSized /\ name \in Sized =>
         /\ size \in 1 .. 16 /\ offset % size = 0
         /\ offset - next_offset \in 0 .. 15
         /\ next_offset' = offset + size
         /\ 2 * (next_offset' + 32 * Len(todo)) < SizeRange
  <2> SUFFICES ASSUME AllSized, name \in Sized
               PROVE  /\ size \in 1 .. 16 /\ offset % size = 0
                      /\ offset - next_offset \in 0 .. 15
                      /\ next_offset' = offset + size
                      /\ 2 * (next_offset' + 32 * Len(todo)) < SizeRange
    OBVIOUS
  <2>1. next_offset \in 0 .. MaxSize
        /\ 2 * (next_offset + 32 * (Len(todo) + 1)) < SizeRange
    BY <1>1 DEF NextInv, TypeOK
  <2>2. 2 * (next_offset + 64) < SizeRange
    BY <1>2, <2>1, IpfixTemplateAssumption
       DEF IpfixTemplateAssumption, MaxSize
  <2>3. size \in 1 .. 16
    BY <1>2, SizeTyped DEF size
  <2>4. offset % size = 0 /\ offset - next_offset \in 0 .. 15
    BY <1>1, <2>2, OffsetSized DEF size, offset
  <2>5. offset + size < SizeRange /\ size \in 0 .. MaxSize
    BY <1>3, <2>1, <2>2, <2>3, <2>4, IpfixTemplateAssumption
       DEF IpfixTemplateAssumption, MaxSize
  <2>6. next_offset' = offset + size
    BY <1>3, <1>4, <2>5, SizeSumTyped
  <2>7. 2 * (next_offset' + 32 * Len(todo)) < SizeRange
    BY <1>2, <1>3, <2>1, <2>3, <2>4, <2>6, IpfixTemplateAssumption
       DEF IpfixTemplateAssumption, MaxSize
  <2>8. QED
    BY <2>3, <2>4, <2>6, <2>7
<1>12. AllSized => /\ next_offset = End(n) /\ next_offset \in Nat
                   /\ \A m \in 1 .. n : End(m) <= next_offset
                   /\ n > 0 => next_offset > 0 /\ next_offset < MaxSize
  <2> SUFFICES ASSUME AllSized
               PROVE  /\ next_offset = End(n) /\ next_offset \in Nat
                      /\ \A m \in 1 .. n : End(m) <= next_offset
                      /\ n > 0 => next_offset > 0 /\ next_offset < MaxSize
    OBVIOUS
  <2>1. next_offset = End(n) /\ next_offset \in Nat
    BY <1>0, <1>1, PlacesTyped DEF NextInv
  <2>2. CASE n = 0
    BY <2>1, <2>2
  <2>3. CASE n > 0
    <3>1. SizedBefore(n) /\ arr[n].name \in Sized
      BY <1>5, <2>3 DEF AllSized, SizedBefore
    <3>2. /\ arr[n].size \in 1 .. 16 /\ arr[n].offset \in Nat
          /\ \A m \in 1 .. n - 1 : End(m) <= arr[n].offset
          /\ 2 * (End(n) + 32) < SizeRange
      BY <1>1, <1>5, <2>3, <3>1, PlacesTyped DEF PlaceInv
    <3>3. End(n) = arr[n].offset + arr[n].size
      BY <2>3, <1>5 DEF End
    <3>4. \A m \in 1 .. n - 1 : End(m) \in Nat
      BY <1>1, <1>5, PlacesTyped
    <3>5. QED
      <4> DEFINE o == arr[n].offset
                 z == arr[n].size
      <4>0. /\ o \in Nat /\ z \in 1 .. 16 /\ next_offset = o + z
            /\ \A m \in 1 .. n - 1 : End(m) \in Nat /\ End(m) <= o
            /\ 2 * (next_offset + 32) < SizeRange
        BY <2>1, <3>2, <3>3, <3>4
      <4> HIDE DEF o, z
      <4>1. \A m \in 1 .. n : End(m) <= next_offset
        <5>1. \A m \in 1 .. n : m = n \/ m \in 1 .. n - 1
          BY <1>5
        <5>2. End(n) <= next_offset
          BY <2>1
        <5>3. \A m \in 1 .. n - 1 : End(m) <= next_offset
          BY <4>0
        <5>4. QED
          BY <5>1, <5>2, <5>3
      <4>2. next_offset > 0 /\ next_offset < MaxSize
        BY <2>1, <4>0, IpfixTemplateAssumption
           DEF IpfixTemplateAssumption, MaxSize
      <4>3. QED
        BY <2>1, <4>1, <4>2
  <2>4. QED
    BY <1>5, <2>2, <2>3
<1>13. PlaceInv'
  <2> SUFFICES ASSUME NEW k \in 1 .. n + 1, SizedBefore(k)
               PROVE  (IF arr[k].name \in Sized
                       THEN /\ arr[k].size \in 1 .. 16
                            /\ arr[k].offset % arr[k].size = 0
                            /\ arr[k].offset - End(k - 1) \in 0 .. 15
                            /\ \A m \in 1 .. k - 1 : End(m) <= arr[k].offset
                            /\ 2 * (End(k) + 32) < SizeRange
                       ELSE k > 1 /\ arr[k].offset = MaxSize)'
    BY <1>5, <1>9 DEF PlaceInv
  <2>1. CASE k \in 1 .. n
    <3>1. IF arr[k].name \in Sized
          THEN /\ arr[k].size \in 1 .. 16
               /\ arr[k].offset % arr[k].size = 0
               /\ arr[k].offset - End(k - 1) \in 0 .. 15
               /\ \A m \in 1 .. k - 1 : End(m) <= arr[k].offset
               /\ 2 * (End(k) + 32) < SizeRange
          ELSE k > 1 /\ arr[k].offset = MaxSize
      BY <1>1, <1>5, <2>1 DEF PlaceInv
    <3>2. /\ arr'[k] = arr[k] /\ End(k)' = End(k) /\ End(k - 1)' = End(k - 1)
          /\ \A m \in 1 .. k - 1 : End(m)' = End(m)
      BY <1>5, <1>7, <2>1
    <3>3. QED
      BY <3>1, <3>2
  <2>2. CASE k = n + 1
    <3>1. AllSized
      BY <1>10, <2>2
    <3>2. CASE name \in Sized
      <4>1. /\ arr'[k].name = name /\ arr'[k].size = size
            /\ arr'[k].offset = offset
        BY <1>5, <2>2
      <4>2. End(k - 1)' = next_offset /\ End(k)' = offset + size
        BY <1>5, <1>7, <1>8, <1>12, <2>2, <3>1
      <4>3. \A m \in 1 .. k - 1 : End(m)' <= offset
        <5> TAKE m \in 1 .. k - 1
        <5>0. m \in 1 .. n
          BY <1>5, <2>2
        <5>1. End(m)' = End(m) /\ End(m) <= next_offset /\ End(m) \in Int
          BY <1>1, <1>5, <1>7, <1>12, <3>1, <5>0, PlacesTyped
        <5>2. offset - next_offset \in 0 .. 15
          BY <1>11, <3>1, <3>2
        <5>3. next_offset \in Nat /\ offset \in Nat
          BY <1>3, <1>12, <3>1, MaxSizeTyped
        <5>4. QED
          BY <5>1, <5>2, <5>3
      <4>4. 2 * (offset + size + 32) < SizeRange
        BY <1>2, <1>3, <1>11, <3>1, <3>2, IpfixTemplateAssumption
           DEF IpfixTemplateAssumption, MaxSize
      <4>5. QED
        BY <1>11, <3>1, <3>2, <4>1, <4>2, <4>3, <4>4
    <3>3. CASE name \notin Sized
      <4>1. n > 0
        BY <1>1, <1>5, <3>3 DEF NextInv
      <4>2. offset = MaxSize
        BY <1>1, <1>2, <1>12, <3>1, <3>3, <4>1, OffsetUnsized DEF size, offset
      <4>3. QED
        BY <1>5, <2>2, <3>3, <4>1, <4>2
    <3>4. QED
      BY <3>2, <3>3
  <2>3. QED
    BY <1>5, <2>1, <2>2
<1>14. NextInv'
  <2>1. AllSized' => /\ next_offset' = End(n + 1)'
                     /\ 2 * (next_offset' + 32 * (Len(todo') + 1)) < SizeRange
    BY <1>2, <1>8, <1>10, <1>11
  <2>2. arr' # <<>>
    BY <1>5
  <2>3. \A k, m \in 1 .. n + 1 : k < m => arr'[k].name # arr'[m].name
    <3>1. \A k, m \in 1 .. n : k < m => arr[k].name # arr[m].name
      BY <1>1, <1>5 DEF NextInv
    <3>2. \A k \in 1 .. n : arr'[k].name # arr'[n + 1].name
      BY <1>4, <1>5
    <3>3. QED
      BY <1>5, <3>1, <3>2
  <2>4. QED
    BY <1>5, <2>1, <2>2, <2>3 DEF NextInv
<1>15. WalkInv'
  <2>1. i = 1 /\ i' = 1 /\ curr_offset' = curr_offset /\ spec' = spec
        /\ pc' = "register"
    BY <1>1, <1>4 DEF WalkInv, walk
  <2>2. curr_offset = End(0) /\ End(0)' = End(0) /\ curr_offset = SpecEnd(spec)
    BY <1>1, <1>4, <2>1 DEF WalkInv, End
  <2>3. SpecEnd(spec)' = SpecEnd(spec)
    BY <2>1 DEF SpecEnd
  <2>4. QED
    BY <2>1, <2>2, <2>3 DEF WalkInv, SizedBefore, DescriptionAgrees,
       UnsizedNeverUsed
<1>16. QED
  BY <1>6, <1>13, <1>14, <1>15 DEF TemplateInv

\* The offset of the element the walk has come to, and what the walk knows.
LEMMA WalkPlace ==
  ASSUME TemplateInv, pc = "walk", i <= Len(arr)
  PROVE  /\ i \in DOMAIN arr /\ arr[i].offset \in Nat /\ curr_offset \in Nat
         /\ IF arr[i].name \in Sized
            THEN /\ PaddingAsserted(arr[i])
                 /\ arr[i].size \in 1 .. 16
                 /\ arr[i].offset - curr_offset \in 0 .. 15
                 /\ arr[i].offset # curr_offset =>
                      PaddingSize(arr[i]) = arr[i].offset - curr_offset
            ELSE ~ PaddingAsserted(arr[i])
<1>1. TypeOK /\ PlaceInv /\ NextInv /\ WalkInv
  BY DEF TemplateInv
<1>2. i \in DOMAIN arr /\ i \in 1 .. Len(arr) /\ arr[i].offset \in Nat
  BY <1>1, PlacesTyped DEF TypeOK
<1>3. SizedBefore(i) /\ curr_offset = End(i - 1) /\ curr_offset \in Nat
  BY <1>1 DEF WalkInv, TypeOK
<1>4. CASE arr[i].name \in Sized
  <2>1. /\ arr[i].size \in 1 .. 16
        /\ arr[i].offset - curr_offset \in 0 .. 15
    BY <1>1, <1>2, <1>3, <1>4 DEF PlaceInv
  <2>2. SizeDiff(arr[i].offset, curr_offset) = arr[i].offset - curr_offset
    BY <1>2, <1>3, <2>1 DEF SizeDiff
  <2> DEFINE gap == arr[i].offset - curr_offset
  <2>3. gap \in 0 .. 15 /\ PaddingSize(arr[i]) = AsSigned(gap)
    BY <2>1, <2>2 DEF PaddingSize
  <2>4. arr[i].offset # curr_offset => gap # 0
    BY <1>2, <1>3
  <2> HIDE DEF gap
  <2>5. AsSigned(gap) = gap
    BY <2>3, IpfixTemplateAssumption DEF IpfixTemplateAssumption, AsSigned
  <2>6. PaddingAsserted(arr[i])
    BY <2>3, <2>4, <2>5 DEF PaddingAsserted
  <2>7. QED
    BY <1>2, <1>3, <1>4, <2>1, <2>3, <2>5, <2>6 DEF gap
<1>5. CASE arr[i].name \notin Sized
  <2>1. i > 1 /\ arr[i].offset = MaxSize
    BY <1>1, <1>2, <1>3, <1>5 DEF PlaceInv
  <2>2. i - 1 \in DOMAIN arr /\ arr[i - 1].name \in Sized /\ SizedBefore(i - 1)
    <3>1. DOMAIN arr = 1 .. Len(arr) /\ i \in Nat /\ Len(arr) \in Nat
      BY <1>1 DEF TypeOK
    <3>2. i - 1 \in 1 .. i - 1 /\ i - 1 \in DOMAIN arr
      BY <1>2, <2>1, <3>1
    <3>3. \A m \in 1 .. i - 2 : m \in 1 .. i - 1
      BY <3>1
    <3>4. QED
      BY <1>3, <3>1, <3>2, <3>3 DEF SizedBefore
  <2>3. 2 * (curr_offset + 32) < SizeRange
    BY <1>1, <1>3, <2>2 DEF PlaceInv
  <2>4. SizeDiff(arr[i].offset, curr_offset) = MaxSize - curr_offset
    BY <1>3, <2>1, <2>3, IpfixTemplateAssumption
       DEF IpfixTemplateAssumption, SizeDiff, MaxSize
  <2>5. PaddingSize(arr[i]) < 0 /\ arr[i].offset # curr_offset
    BY <1>3, <2>1, <2>3, <2>4, IpfixTemplateAssumption
       DEF IpfixTemplateAssumption, PaddingSize, AsSigned, MaxSize
  <2>6. PaddingSize(arr[i]) \in Int
    BY <1>3, <2>1, <2>3, <2>4, IpfixTemplateAssumption
       DEF IpfixTemplateAssumption, PaddingSize, AsSigned, MaxSize
  <2>7. ~ PaddingAsserted(arr[i])
    BY <2>5, <2>6 DEF PaddingAsserted
  <2>8. QED
    BY <1>2, <1>3, <1>5, <2>7
<1>6. QED
  BY <1>4, <1>5

\* fixbuf's view of the record grows at its end.
LEMMA DescribedKept ==
  ASSUME NEW s \in Seq(SpecElement), NEW name, NEW len, NEW e \in DOMAIN s
  PROVE  /\ e \in DOMAIN Describe(s, name, len)
         /\ Describe(s, name, len)[e] = s[e]
<1>1. PICK new : Describe(s, name, len) = Append(s, new)
  BY DEF Describe
<1>2. Len(s) \in Nat /\ DOMAIN s = 1 .. Len(s)
  OBVIOUS
<1>3. QED
  BY <1>1, <1>2

LEMMA Described ==
  ASSUME NEW s \in Seq(SpecElement), NEW name \in SpecNames, NEW len \in Nat
  PROVE  /\ Describe(s, name, len) \in Seq(SpecElement)
         /\ Len(s) + 1 \in DOMAIN Describe(s, name, len)
         /\ Describe(s, name, len)[Len(s) + 1] =
              [name |-> name, at |-> SpecEnd(s), len |-> len]
         /\ SpecEnd(s) \in Nat
         /\ SpecEnd(Describe(s, name, len)) = SpecEnd(s) + len
<1> DEFINE new == [name |-> name, at |-> SpecEnd(s), len |-> len]
<1>1. Len(s) \in Nat /\ DOMAIN s = 1 .. Len(s)
  OBVIOUS
<1>2. SpecEnd(s) \in Nat
  <2>1. CASE s = <<>>
    BY <2>1 DEF SpecEnd
  <2>2. CASE s # <<>>
    <3>1. Len(s) \in DOMAIN s
      BY <1>1, <2>2
    <3>2. s[Len(s)] \in SpecElement
      BY <3>1
    <3>3. QED
      BY <2>2, <3>2 DEF SpecEnd, SpecElement
  <2>3. QED
    BY <2>1, <2>2
<1>3. new \in SpecElement
  BY <1>2 DEF SpecElement
<1>4. new.at = SpecEnd(s) /\ new.len = len
  OBVIOUS
<1>0. PICK t : t = Append(s, new)
  OBVIOUS
<1>5. Describe(s, name, len) = t
  BY <1>0 DEF Describe
<1> HIDE DEF new
<1>6. /\ t \in Seq(SpecElement) /\ Len(t) = Len(s) + 1
      /\ DOMAIN t = 1 .. Len(s) + 1
      /\ t[Len(s) + 1] = new /\ t # <<>>
  BY <1>0, <1>1, <1>3
<1>7. SpecEnd(t) = SpecEnd(s) + len
  BY <1>4, <1>6 DEF SpecEnd
<1>8. QED
  BY <1>1, <1>2, <1>5, <1>6, <1>7 DEF new

\* What the walk leaves alone keeps what it knows.
LEMMA RegisteredKept ==
  ASSUME TemplateInv, UNCHANGED registered, pc # "register",
         pc' \in {"walk", "done", "aborted", "crashed"}
  PROVE  /\ PlaceInv'
         /\ arr # <<>> => NextInv'
         /\ \A k \in 0 .. Len(arr) + 1 :
              /\ End(k)' = End(k)
              /\ SizedBefore(k)' <=> SizedBefore(k)
         /\ AllSized' <=> AllSized
<1>1. arr' = arr /\ next_offset' = next_offset /\ todo' = todo
  BY DEF registered
<1>2. PlaceInv'
  BY <1>1 DEF TemplateInv, PlaceInv, SizedBefore, End
<1>3. AllSized' <=> AllSized
  BY <1>1 DEF AllSized
<1>4. \A k \in 0 .. Len(arr) + 1 :
        /\ End(k)' = End(k)
        /\ SizedBefore(k)' <=> SizedBefore(k)
  BY <1>1 DEF SizedBefore, End
<1>5. End(Len(arr))' = End(Len(arr))
  BY <1>1 DEF End
<1>6. arr # <<>> => NextInv'
  BY <1>1, <1>3, <1>5 DEF TemplateInv, NextInv
<1>7. QED
  BY <1>2, <1>3, <1>4, <1>6

LEMMA DescribeInv ==
  ASSUME TemplateInv, DescribeElement
  PROVE  TemplateInv'
<1>1. TypeOK /\ PlaceInv /\ NextInv /\ WalkInv
  BY DEF TemplateInv
<1>2. /\ pc = "walk" /\ pc' = "walk" /\ i' = i + 1 /\ i <= Len(arr)
      /\ UNCHANGED registered /\ arr' = arr
  BY DEF DescribeElement, registered
<1> DEFINE ie     == arr[i]
           padded == IF ie.offset = curr_offset THEN spec
                     ELSE Describe(spec, Padding, PaddingSize(ie))
<1>3. /\ spec' = Describe(padded, ie.name, ie.size)
      /\ curr_offset' = ie.offset + ie.size
      /\ PaddingAsserted(ie)
  BY DEF DescribeElement
<1>4. /\ i \in DOMAIN arr /\ ie.offset \in Nat /\ curr_offset \in Nat
      /\ ie.name \in Sized /\ ie.size \in 1 .. 16
      /\ ie.offset - curr_offset \in 0 .. 15
      /\ ie.offset # curr_offset =>
           PaddingSize(ie) = ie.offset - curr_offset
  BY <1>2, <1>3, WalkPlace
<1>5. ie.name \in Names /\ i \in Nat /\ Len(arr) \in Nat
      /\ DOMAIN arr = 1 .. Len(arr)
  BY <1>1, <1>4 DEF TypeOK, Sized
<1>6. spec \in Seq(SpecElement)
  BY <1>1 DEF TypeOK
<1>7. curr_offset = SpecEnd(spec)
  BY <1>1, <1>2 DEF WalkInv
<1> HIDE DEF ie
<1>8. /\ padded \in Seq(SpecElement)
      /\ SpecEnd(padded) = ie.offset
      /\ \A e \in DOMAIN spec : e \in DOMAIN padded /\ padded[e] = spec[e]
  <2>1. CASE ie.offset = curr_offset
    BY <1>6, <1>7, <2>1
  <2>2. CASE ie.offset # curr_offset
    <3>1. PaddingSize(ie) \in Nat
          /\ SpecEnd(spec) + PaddingSize(ie) = ie.offset
      BY <1>4, <1>7, <2>2
    <3>2. padded = Describe(spec, Padding, PaddingSize(ie))
      BY <2>2
    <3> HIDE DEF padded
    <3>3. PICK len : len \in Nat /\ len = PaddingSize(ie)
      BY <3>1
    <3>4. /\ padded \in Seq(SpecElement)
          /\ \A e \in DOMAIN spec : e \in DOMAIN padded /\ padded[e] = spec[e]
          /\ SpecEnd(padded) = SpecEnd(spec) + len
      <4>1. padded = Describe(spec, Padding, len)
        BY <3>2, <3>3
      <4>2. Padding \in SpecNames
        BY DEF SpecNames
      <4>3. padded \in Seq(SpecElement) /\ SpecEnd(padded) = SpecEnd(spec) + len
        BY <1>6, <3>3, <4>1, <4>2, Described
      <4>4. ASSUME NEW e \in DOMAIN spec
            PROVE  e \in DOMAIN padded /\ padded[e] = spec[e]
        BY <1>6, <4>1, DescribedKept
      <4>5. QED
        BY <4>3, <4>4
    <3>5. QED
      BY <3>1, <3>3, <3>4
  <2>3. QED
    BY <2>1, <2>2
<1> HIDE DEF padded
<1>9. /\ spec' \in Seq(SpecElement)
      /\ \A e \in DOMAIN padded : e \in DOMAIN spec' /\ spec'[e] = padded[e]
      /\ Len(padded) + 1 \in DOMAIN spec'
      /\ spec'[Len(padded) + 1] =
           [name |-> ie.name, at |-> SpecEnd(padded), len |-> ie.size]
      /\ SpecEnd(spec') = SpecEnd(padded) + ie.size
  <2>1. ie.size \in Nat /\ Len(padded) \in Nat
    BY <1>4, <1>8
  <2>2. /\ spec' \in Seq(SpecElement)
        /\ Len(padded) + 1 \in DOMAIN spec'
        /\ \A e \in DOMAIN padded : e \in DOMAIN spec' /\ spec'[e] = padded[e]
        /\ spec'[Len(padded) + 1] =
             [name |-> ie.name, at |-> SpecEnd(padded), len |-> ie.size]
        /\ SpecEnd(spec') = SpecEnd(padded) + ie.size
    <3>1. ie.name \in SpecNames
      BY <1>5 DEF SpecNames
    <3>2. QED
      BY <1>3, <1>8, <2>1, <3>1, Described, DescribedKept
  <2>3. QED
    BY <2>1, <2>2
<1>10. TypeOK'
  <2>1. curr_offset' \in Nat /\ i' \in 1 .. Len(arr) + 1
    <3>1. curr_offset' \in Nat
      BY <1>3, <1>4
    <3>2. i \in 1 .. Len(arr)
      BY <1>4, <1>5
    <3>3. QED
      BY <1>2, <1>5, <3>1, <3>2
  <2>2. QED
    BY <1>1, <1>2, <1>9, <2>1 DEF TypeOK, registered
<1>11. PlaceInv' /\ NextInv'
  <2>1. arr # <<>>
    BY <1>4
  <2>2. QED
    BY <1>2, <2>1, RegisteredKept
<1>12. SizedBefore(i)' /\ (i > 1 => SizedBefore(i - 1))
  <2>1. \A m \in 1 .. i' - 1 : m = i \/ m \in 1 .. i - 1
    BY <1>2, <1>5
  <2>2. SizedBefore(i)
    BY <1>1 DEF WalkInv
  <2>3. \A m \in 1 .. i' - 1 : arr[m].name \in Sized
    BY <1>4, <2>1, <2>2 DEF SizedBefore, ie
  <2>4. \A m \in 1 .. (i - 1) - 1 : m \in 1 .. i - 1
    BY <1>5
  <2>5. QED
    BY <1>2, <2>2, <2>3, <2>4 DEF SizedBefore
<1>13. curr_offset' = End(i - 1)' /\ curr_offset' = SpecEnd(spec)'
  <2>1. i' - 1 = i /\ i # 0
    BY <1>2, <1>4, <1>5
  <2>2. End(i - 1)' = ie.offset + ie.size
    BY <1>2, <2>1 DEF End, ie
  <2>3. SpecEnd(spec)' = SpecEnd(spec')
    BY DEF SpecEnd
  <2>4. QED
    BY <1>3, <1>8, <1>9, <2>2, <2>3
<1>14. DescriptionAgrees'
  <2>1. ASSUME NEW k \in 1 .. i
        PROVE  \E e \in DOMAIN spec' : /\ spec'[e].name = arr[k].name
                                       /\ spec'[e].at = arr[k].offset
                                       /\ spec'[e].len = arr[k].size
    <3>1. CASE k = i
      <4>1. arr[k] = ie
        BY <3>1 DEF ie
      <4>2. spec'[Len(padded) + 1].name = ie.name
            /\ spec'[Len(padded) + 1].at = ie.offset
            /\ spec'[Len(padded) + 1].len = ie.size
        BY <1>8, <1>9
      <4>3. QED
        BY <1>9, <4>1, <4>2
    <3>2. CASE k # i
      <4>1. k \in 1 .. i - 1
        BY <1>5, <2>1, <3>2
      <4>2. PICK e \in DOMAIN spec : /\ spec[e].name = arr[k].name
                                     /\ spec[e].at = arr[k].offset
                                     /\ spec[e].len = arr[k].size
        BY <1>1, <4>1 DEF WalkInv, DescriptionAgrees
      <4>3. QED
        BY <1>8, <1>9, <4>2
    <3>3. QED
      BY <3>1, <3>2
  <2>2. i' - 1 = i
    BY <1>2, <1>5
  <2>3. QED
    BY <1>2, <2>1, <2>2 DEF DescriptionAgrees
<1>15. WalkInv'
  BY <1>2, <1>12, <1>13, <1>14 DEF WalkInv, UnsizedNeverUsed
<1>16. QED
  BY <1>10, <1>11, <1>15 DEF TemplateInv

LEMMA EndInv ==
  ASSUME TemplateInv, DescribeEnd
  PROVE  TemplateInv'
<1>1. TypeOK /\ PlaceInv /\ NextInv /\ WalkInv
  BY DEF TemplateInv
<1>2. /\ pc = "walk" /\ pc' = "done" /\ i = Len(arr) + 1
      /\ UNCHANGED <<registered, i, curr_offset>>
      /\ arr' = arr /\ next_offset' = next_offset
      /\ i \in Nat /\ Len(arr) \in Nat /\ DOMAIN arr = 1 .. Len(arr)
      /\ arr # <<>> /\ curr_offset \in Nat
  BY <1>1 DEF DescribeEnd, registered, TypeOK, NextInv
<1>3. i - 1 = Len(arr)
  BY <1>2
<1>4. AllSized /\ curr_offset = next_offset
  BY <1>1, <1>2, <1>3 DEF WalkInv, NextInv, SizedBefore, AllSized
<1>5. spec \in Seq(SpecElement) /\ curr_offset = SpecEnd(spec)
  BY <1>1, <1>2 DEF TypeOK, WalkInv
<1>6. /\ spec' \in Seq(SpecElement)
      /\ \A e \in DOMAIN spec : e \in DOMAIN spec' /\ spec'[e] = spec[e]
      /\ SpecEnd(spec') = ((curr_offset + 7) \div 8) * 8
  <2>1. CASE curr_offset % 8 = 0
    <3>1. spec' = spec
      BY <2>1 DEF DescribeEnd
    <3>2. curr_offset = ((curr_offset + 7) \div 8) * 8
      BY <1>2, <2>1
    <3>3. QED
      BY <1>5, <3>1, <3>2
  <2>2. CASE curr_offset % 8 # 0
    <3>1. PICK len : len \in Nat /\ len = 8 - (curr_offset % 8)
      BY <1>2
    <3>2. Padding \in SpecNames
      BY DEF SpecNames
    <3>3. spec' = Describe(spec, Padding, len)
      BY <2>2, <3>1 DEF DescribeEnd
    <3>4. curr_offset + len = ((curr_offset + 7) \div 8) * 8
      BY <1>2, <2>2, <3>1
    <3>5. /\ spec' \in Seq(SpecElement)
          /\ \A e \in DOMAIN spec : e \in DOMAIN spec' /\ spec'[e] = spec[e]
          /\ SpecEnd(spec') = SpecEnd(spec) + len
      <4>1. spec' \in Seq(SpecElement) /\ SpecEnd(spec') = SpecEnd(spec) + len
        BY <1>5, <3>1, <3>2, <3>3, Described
      <4>2. ASSUME NEW e \in DOMAIN spec
            PROVE  e \in DOMAIN spec' /\ spec'[e] = spec[e]
        BY <1>5, <3>3, DescribedKept
      <4>3. QED
        BY <4>1, <4>2
    <3>6. QED
      BY <1>5, <3>4, <3>5
  <2>3. QED
    BY <2>1, <2>2
<1>7. TypeOK'
  BY <1>1, <1>2, <1>6 DEF TypeOK, registered
<1>8. /\ PlaceInv' /\ NextInv' /\ AllSized'
      /\ SizedBefore(i)' /\ curr_offset' = End(i - 1)'
  <2>1. /\ PlaceInv' /\ NextInv' /\ AllSized'
        /\ \A k \in 0 .. Len(arr) + 1 :
              /\ End(k)' = End(k)
              /\ SizedBefore(k)' <=> SizedBefore(k)
    BY <1>2, <1>4, RegisteredKept
  <2>2. /\ \A m \in 1 .. i' - 1 : arr'[m].name \in Sized
        /\ curr_offset = End(i - 1)
    BY <1>1, <1>2 DEF WalkInv, SizedBefore
  <2>3. End(i - 1)' = End(i - 1)
    BY <1>2 DEF End
  <2>4. QED
    BY <1>2, <2>1, <2>2, <2>3 DEF SizedBefore
<1>9. DescriptionAgrees'
  <2>1. ASSUME NEW k \in 1 .. i - 1
        PROVE  \E e \in DOMAIN spec' : /\ spec'[e].name = arr[k].name
                                       /\ spec'[e].at = arr[k].offset
                                       /\ spec'[e].len = arr[k].size
    <3>1. PICK e \in DOMAIN spec : /\ spec[e].name = arr[k].name
                                   /\ spec[e].at = arr[k].offset
                                   /\ spec[e].len = arr[k].size
      BY <1>1 DEF WalkInv, DescriptionAgrees
    <3>2. QED
      BY <1>6, <3>1
  <2>2. SpecEnd(spec)' = RecSize'
    <3>1. SpecEnd(spec)' = SpecEnd(spec')
      BY DEF SpecEnd
    <3>2. QED
      BY <1>2, <1>4, <1>6, <3>1 DEF RecSize
  <2>3. QED
    BY <1>2, <2>1, <2>2 DEF DescriptionAgrees
<1>10. WalkInv'
  BY <1>2, <1>8, <1>9 DEF WalkInv, UnsizedNeverUsed
<1>11. QED
  BY <1>7, <1>8, <1>10 DEF TemplateInv

\* While all elements have a size, the next one is put at a multiple of its own,
\* also when it has none (io-ipfix.c:237-249).
LEMMA OffsetFails ==
  ASSUME TemplateInv, OffsetAssertionFails
  PROVE  ~ AllSized
<1> DEFINE name == Head(todo)
<1>1. TypeOK /\ PlaceInv /\ NextInv
  BY DEF TemplateInv
<1>2. /\ todo \in Seq(Names) /\ name \in Names /\ SizeOf[name] # Unknown
      /\ Len(todo) \in Nat \ {0}
      /\ AlignedOffset(Size(name)) % Size(name) # 0
  BY <1>1 DEF TypeOK, OffsetAssertionFails, OffsetAsserted
<1>3. SUFFICES ASSUME AllSized
               PROVE  AlignedOffset(Size(name)) % Size(name) = 0
  BY <1>2
<1>4. next_offset = End(Len(arr)) /\ next_offset \in Nat /\ Len(arr) \in Nat
      /\ DOMAIN arr = 1 .. Len(arr)
      /\ 2 * (next_offset + 32 * (Len(todo) + 1)) < SizeRange
  BY <1>1, <1>3, PlacesTyped DEF NextInv, TypeOK
<1>5. 2 * (next_offset + 64) < SizeRange
  BY <1>2, <1>4, IpfixTemplateAssumption DEF IpfixTemplateAssumption
<1>6. CASE name \in Sized
  BY <1>1, <1>5, <1>6, OffsetSized
<1>7. CASE name \notin Sized
  <2>1. Len(arr) > 0
    BY <1>1, <1>4, <1>7 DEF NextInv
  <2>2. next_offset > 0
    <3>1. SizedBefore(Len(arr)) /\ arr[Len(arr)].name \in Sized
      BY <1>3, <1>4, <2>1 DEF AllSized, SizedBefore
    <3>2. arr[Len(arr)].size \in 1 .. 16 /\ arr[Len(arr)].offset \in Nat
      BY <1>1, <1>4, <2>1, <3>1, PlacesTyped DEF PlaceInv
    <3>3. End(Len(arr)) = arr[Len(arr)].offset + arr[Len(arr)].size
      BY <1>4, <2>1 DEF End
    <3>4. PICK o \in Nat, z \in 1 .. 16 : next_offset = o + z
      BY <1>4, <3>2, <3>3
    <3>5. QED
      BY <3>4
  <2>3. next_offset < MaxSize
    BY <1>4, <1>5, IpfixTemplateAssumption DEF IpfixTemplateAssumption, MaxSize
  <2>4. AlignedOffset(Size(name)) = MaxSize /\ Size(name) = MaxSize
    BY <1>1, <1>2, <1>7, <2>2, <2>3, OffsetUnsized, SizeTyped
  <2>5. MaxSize % MaxSize = 0
    <3>1. PICK z \in Nat : z = MaxSize /\ z > 0
      BY MaxSizeTyped
    <3>2. z % z = 0
      BY <3>1, Z3
    <3>3. QED
      BY <3>1, <3>2
  <2>6. QED
    BY <2>4, <2>5
<1>8. QED
  BY <1>6, <1>7

\* The steps that only move on, give up or find an element registered.
LEMMA StopInv ==
  ASSUME TemplateInv,
         RegisterAgain \/ RegisterUnknown \/ OffsetAssertionFails
           \/ RegisteredAll \/ PaddingAssertionFails
           \/ OutOfMemory \/ UNCHANGED vars
  PROVE  TemplateInv'
<1>1. TypeOK /\ PlaceInv /\ NextInv /\ WalkInv
  BY DEF TemplateInv
<1>2. /\ arr' = arr /\ next_offset' = next_offset /\ i' = i
      /\ curr_offset' = curr_offset /\ spec' = spec
  BY DEF RegisterAgain, RegisterUnknown, OffsetAssertionFails, RegisteredAll,
         PaddingAssertionFails, OutOfMemory, registered, walk, vars
<1>3. /\ todo' = todo \/ (todo # <<>> /\ todo' = Tail(todo) /\ arr # <<>>)
      /\ todo \in Seq(Names)
  BY <1>1 DEF RegisterAgain, RegisterUnknown, OffsetAssertionFails,
              RegisteredAll, PaddingAssertionFails, OutOfMemory,
              registered, walk, vars, Registered, TypeOK
<1>4. todo' \in Seq(Names) /\ Len(todo') \in Nat /\ Len(todo) \in Nat
      /\ Len(todo') <= Len(todo)
  BY <1>3
<1>0. arr = <<>> => AllSized
  BY DEF AllSized
<1>5. /\ pc' \in {"register", "walk", "done", "aborted", "crashed"}
      /\ pc' = "done" => pc = "done"
      /\ pc' = "register" => pc = "register"
      /\ arr = <<>> => pc' \in {"register", "aborted"} /\ todo' = todo
      /\ pc = "done" => pc' = "done"
  <2>1. CASE OffsetAssertionFails
    BY <1>0, <2>1, OffsetFails DEF OffsetAssertionFails
  <2>2. CASE ~ OffsetAssertionFails
    BY <1>1, <1>3, <2>2
       DEF RegisterAgain, RegisterUnknown, RegisteredAll, TypeOK,
           PaddingAssertionFails, OutOfMemory, vars, NextInv, WalkInv
  <2>3. QED
    BY <2>1, <2>2
<1>6. TypeOK'
  BY <1>1, <1>2, <1>4, <1>5 DEF TypeOK
<1>7. PlaceInv'
  BY <1>1, <1>2 DEF PlaceInv, SizedBefore, End
<1>8. AllSized' <=> AllSized
  BY <1>2 DEF AllSized
<1>9. NextInv'
  <2>1. AllSized => 2 * (next_offset + 32 * (Len(todo') + 1)) < SizeRange
    BY <1>1, <1>4, IpfixTemplateAssumption, PlacesTyped
       DEF NextInv, IpfixTemplateAssumption
  <2>2. End(Len(arr))' = End(Len(arr))
    BY <1>2 DEF End
  <2>3. arr = <<>> => /\ pc' \in {"register", "aborted"}
                      /\ todo' # <<>> /\ Head(todo') \in Sized
    BY <1>1, <1>5 DEF NextInv
  <2>4. QED
    BY <1>1, <1>2, <1>8, <2>1, <2>2, <2>3 DEF NextInv
<1>10. pc' = "crashed" => ~ AllSized
  <2>1. CASE PaddingAssertionFails
    <3>1. i \in DOMAIN arr /\ arr[i].name \notin Sized
      BY <2>1, WalkPlace DEF PaddingAssertionFails
    <3>2. QED
      BY <3>1 DEF AllSized
  <2>2. CASE OffsetAssertionFails
    BY <2>2, OffsetFails
  <2>3. CASE ~ PaddingAssertionFails /\ ~ OffsetAssertionFails
    BY <1>1, <2>3 DEF RegisterAgain, RegisterUnknown, RegisteredAll,
       OutOfMemory, vars, WalkInv, UnsizedNeverUsed
  <2>4. QED
    BY <2>1, <2>2, <2>3
<1>11. WalkInv'
  BY <1>1, <1>2, <1>5, <1>8, <1>10
     DEF WalkInv, SizedBefore, SpecEnd, End, DescriptionAgrees, RecSize,
         UnsizedNeverUsed
<1>12. QED
  BY <1>6, <1>7, <1>9, <1>11 DEF TemplateInv

\* The invariant, for every list of defaults and every query.
THEOREM InvCorrect == Spec => []TemplateInv
<1>1. TemplateInv /\ [Next]_vars => TemplateInv'
  BY RegisterInv, DescribeInv, EndInv, StopInv DEF Next
<1>2. QED
  BY <1>1, InitInv, PTL DEF Spec

\* The variables keep their types; every offset and size is a size_t.
THEOREM TypeCorrect == Spec => []TypeOK
<1>1. TemplateInv => TypeOK
  BY DEF TemplateInv
<1>2. QED
  BY <1>1, InvCorrect, PTL

\* What the walk describes to fixbuf lies where registering has put it, and is
\* as long as the reader's buffer (io-ipfix.c:268-278, 740-805).
THEOREM DescriptionCorrect == Spec => []DescriptionAgrees
<1>1. TemplateInv => DescriptionAgrees
  BY DEF TemplateInv, WalkInv
<1>2. QED
  BY <1>1, InvCorrect, PTL

\* The assertion on an offset (io-ipfix.c:249) or that of the walk (774) stops
\* every template with an element that has no size, and neither stops another.
THEOREM UnsizedCorrect == Spec => []UnsizedNeverUsed
<1>1. TemplateInv => UnsizedNeverUsed
  BY DEF TemplateInv, WalkInv
<1>2. QED
  BY <1>1, InvCorrect, PTL

\* Elements with a size never overlap (io-ipfix.c:222-256).
THEOREM LayoutCorrect == Spec => []LayoutSound
<1>1. ASSUME TemplateInv PROVE LayoutSound
  <2>1. TypeOK /\ PlaceInv /\ NextInv
    BY <1>1 DEF TemplateInv
  <2>2. DOMAIN arr = 1 .. Len(arr) /\ Len(arr) \in Nat
    BY <2>1 DEF TypeOK
  <2>3. /\ \A k \in DOMAIN arr : arr[k].offset \in Nat /\ arr[k].size \in Nat
        /\ \A k \in 1 .. Len(arr) :
             End(k) = arr[k].offset + arr[k].size /\ End(k) \in Nat
    BY <2>1, <2>2, PlacesTyped DEF End
  <2>4. SUFFICES ASSUME AllSized
                 PROVE  /\ \A k, m \in DOMAIN arr :
                             k < m => /\ End(k) <= arr[m].offset
                                      /\ arr[k].name # arr[m].name
                        /\ \A k \in DOMAIN arr : End(k) <= next_offset
    BY <2>2, <2>3 DEF LayoutSound
  <2>5. \A k \in DOMAIN arr : \A m \in 1 .. k - 1 : End(m) <= arr[k].offset
    BY <2>1, <2>2, <2>4 DEF PlaceInv, SizedBefore, AllSized
  <2>6. \A k, m \in DOMAIN arr :
          k < m => End(k) <= arr[m].offset /\ arr[k].name # arr[m].name
    BY <2>1, <2>2, <2>5 DEF NextInv
  <2>7. ASSUME NEW k \in DOMAIN arr PROVE End(k) <= next_offset
    <3>1. next_offset = End(Len(arr))
      BY <2>1, <2>4 DEF NextInv
    <3>2. CASE k = Len(arr)
      BY <2>2, <2>3, <3>1, <3>2
    <3>3. CASE k # Len(arr)
      <4>1. Len(arr) \in DOMAIN arr /\ k < Len(arr)
        BY <2>2, <3>3
      <4>2. End(k) <= arr[Len(arr)].offset
        BY <2>6, <4>1
      <4>3. /\ arr[Len(arr)].offset \in Nat /\ arr[Len(arr)].size \in Nat
            /\ next_offset = arr[Len(arr)].offset + arr[Len(arr)].size
            /\ End(k) \in Nat
        BY <2>2, <2>3, <3>1, <4>1
      <4>4. QED
        BY <4>2, <4>3
    <3>4. QED
      BY <3>2, <3>3
  <2>8. QED
    BY <2>6, <2>7
<1>2. QED
  BY <1>1, InvCorrect, PTL
=============================================================================
