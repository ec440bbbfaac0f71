--------------------------- MODULE IpfixTemplate ----------------------------
(***************************************************************************)
(* The layout of an IPFIX record, of src/src/io-ipfix.c.                   *)
(*                                                                         *)
(* ipfix_templ_ie_register gives every information element that the engine *)
(* or the query names an offset in the record, at a multiple of its size.  *)
(* When the query is parsed, ipfix_get_fb_info_elem_spec walks over the    *)
(* elements once more and describes the same record to fixbuf, which only  *)
(* knows the order of the elements and their lengths: the gaps become      *)
(* padding elements. Filter, grouper and merger read a field at its offset *)
(* from the bytes that fixbuf has put where the description says.          *)
(*                                                                         *)
(* An element whose type has no fixed size is given that of the error, -1. *)
(* Nothing looks at the error, but an assertion on the offset of the next  *)
(* element, or one of the walk, stops the process.                         *)
(***************************************************************************)
EXTENDS Integers, Sequences

CONSTANTS
  Names,       \* the names of information elements there are, and others
  SizeOf,      \* sizeof a value of the type of an element, or NoSize, or Unknown
  Defaults,    \* the elements registered for every query, in order
  Queries,     \* the elements named by a query, in order
  SizeRange    \* the number of values of size_t, far from what is registered

NoSize  == -1
Unknown == 0

Sized == {n \in Names : SizeOf[n] > 0}

ASSUME IpfixTemplateAssumption ==
  /\ SizeOf \in [Names -> {NoSize, Unknown} \cup (1 .. 16)]
  /\ Defaults \in Seq(Sized)
  /\ Defaults # <<>>
  /\ Queries \subseteq Seq(Names)
  /\ SizeRange \in Nat /\ SizeRange > 64
  /\ \A query \in Queries : 64 * (Len(Defaults) + Len(query) + 1) < SizeRange

\* The largest size_t, which the error -1 is converted to.
MaxSize == SizeRange - 1

\* The sum and the difference of two values of size_t.
SizeSum(x, y)  == IF x + y < SizeRange THEN x + y ELSE x + y - SizeRange
SizeDiff(x, y) == IF x >= y THEN x - y ELSE x - y + SizeRange

VARIABLES
  todo,         \* the elements to be registered still
  arr,          \* ipfix_templ->arr
  next_offset,  \* ipfix_templ->next_offset
  i,            \* the element the walk has come to
  curr_offset,  \* where the walk is in the record
  spec,         \* the description for fixbuf, with the place it gives an element
  pc

registered == <<todo, arr, next_offset>>
walk       == <<i, curr_offset, spec>>
vars       == <<registered, walk, pc>>

Init ==
  /\ \E query \in Queries : todo = Defaults \o query
  /\ arr = <<>>
  /\ next_offset = 0
  /\ i = 1
  /\ curr_offset = 0
  /\ spec = <<>>
  /\ pc = "register"

-----------------------------------------------------------------------------
(* Registering                                                             *)

Registered(name) == \E k \in DOMAIN arr : arr[k].name = name

\* The type's size as a size_t.
Size(name) == IF SizeOf[name] = NoSize THEN MaxSize ELSE SizeOf[name]

\* A mutant of AlignedOffset: elements follow each other without a gap.
AlignedOffsetPacked(size) == next_offset

\* A mutant of AlignedOffset: rounded down to a multiple of the size.
AlignedOffsetDown(size) == next_offset - (next_offset % size)

\* next_offset, rounded up to a multiple of the size.
AlignedOffset(size) ==
  LET rest == next_offset % size
  IN IF rest = 0 THEN next_offset ELSE SizeSum(next_offset, size - rest)

\* The assertion that fails when the rounding up has wrapped around to an offset
\* that is no multiple of the size.
OffsetAsserted(size) == AlignedOffset(size) % size = 0

\* No element is registered twice.
RegisterAgain ==
  /\ pc = "register"
  /\ todo # <<>>
  /\ Registered(Head(todo))
  /\ todo' = Tail(todo)
  /\ UNCHANGED <<arr, next_offset, walk, pc>>

\* The name is not one of an information element: an error exit.
RegisterUnknown ==
  /\ pc = "register"
  /\ todo # <<>>
  /\ ~ Registered(Head(todo))
  /\ SizeOf[Head(todo)] = Unknown
  /\ pc' = "aborted"
  /\ UNCHANGED <<registered, walk>>

Register ==
  /\ pc = "register"
  /\ todo # <<>>
  /\ ~ Registered(Head(todo))
  /\ SizeOf[Head(todo)] # Unknown
  /\ OffsetAsserted(Size(Head(todo)))
  /\ LET size   == Size(Head(todo))
         offset == AlignedOffset(size)
     IN /\ arr' = Append(arr, [name   |-> Head(todo),
                               offset |-> offset,
                               size   |-> size])
        /\ next_offset' = SizeSum(offset, size)
  /\ todo' = Tail(todo)
  /\ UNCHANGED <<walk, pc>>

OffsetAssertionFails ==
  /\ pc = "register"
  /\ todo # <<>>
  /\ ~ Registered(Head(todo))
  /\ SizeOf[Head(todo)] # Unknown
  /\ ~ OffsetAsserted(Size(Head(todo)))
  /\ pc' = "crashed"
  /\ UNCHANGED <<registered, walk>>

\* The query is parsed, and the I/O handler is made.
RegisteredAll ==
  /\ pc = "register"
  /\ todo = <<>>
  /\ pc' = "walk"
  /\ UNCHANGED <<registered, walk>>

\* ipfix_templ_get_rec_size: rounded up to 8 bytes.
RecSize == ((next_offset + 7) \div 8) * 8

-----------------------------------------------------------------------------
(* Describing                                                              *)

\* fixbuf places an element behind the one before it.
SpecEnd(s) == IF s = <<>> THEN 0 ELSE s[Len(s)].at + s[Len(s)].len
Describe(s, name, len) ==
  Append(s, [name |-> name, at |-> SpecEnd(s), len |-> len])

Padding == "paddingOctets"

\* The number behind a size_t that is converted to ssize_t.
AsSigned(x) == IF x * 2 >= SizeRange THEN x - SizeRange ELSE x

PaddingSize(ie) == AsSigned(SizeDiff(ie.offset, curr_offset))

\* A mutant of PaddingAsserted: the walk may also have to go back.
PaddingAssertedLoose(ie) ==
  ie.offset # curr_offset => PaddingSize(ie) < 64

\* The assertion that fails when an offset is not ahead of the walk, or too far.
PaddingAsserted(ie) ==
  ie.offset # curr_offset => PaddingSize(ie) > 0 /\ PaddingSize(ie) < 64

DescribeElement ==
  /\ pc = "walk"
  /\ i <= Len(arr)
  /\ PaddingAsserted(arr[i])
  /\ LET ie     == arr[i]
         padded == IF ie.offset = curr_offset THEN spec
                   ELSE Describe(spec, Padding, PaddingSize(ie))
     IN /\ spec' = Describe(padded, ie.name, ie.size)
        /\ curr_offset' = ie.offset + ie.size
  /\ i' = i + 1
  /\ UNCHANGED <<registered, pc>>

PaddingAssertionFails ==
  /\ pc = "walk"
  /\ i <= Len(arr)
  /\ ~ PaddingAsserted(arr[i])
  /\ pc' = "crashed"
  /\ UNCHANGED <<registered, walk>>

\* A mutant of DescribeEnd: a record ends with its last element.
DescribeEndUnpadded ==
  /\ pc = "walk"
  /\ i = Len(arr) + 1
  /\ pc' = "done"
  /\ UNCHANGED <<registered, walk>>

\* The record is padded to a multiple of 8 bytes.
DescribeEnd ==
  /\ pc = "walk"
  /\ i = Len(arr) + 1
  /\ spec' = IF curr_offset % 8 = 0 THEN spec
             ELSE Describe(spec, Padding, 8 - (curr_offset % 8))
  /\ pc' = "done"
  /\ UNCHANGED <<registered, i, curr_offset>>

\* An array cannot be extended, which ends in an error exit.
OutOfMemory ==
  /\ \/ pc = "register" /\ todo # <<>> /\ ~ Registered(Head(todo))
     \/ pc = "walk"
  /\ pc' = "aborted"
  /\ UNCHANGED <<registered, walk>>

Next ==
  \/ RegisterAgain \/ RegisterUnknown \/ Register \/ OffsetAssertionFails
  \/ RegisteredAll
  \/ DescribeElement \/ PaddingAssertionFails \/ DescribeEnd
  \/ OutOfMemory

Spec == Init /\ [][Next]_vars

-----------------------------------------------------------------------------
(* Properties                                                              *)

SpecNames   == Names \cup {Padding}
SpecElement == [name : SpecNames, at : Nat, len : Nat]

TypeOK ==
  /\ todo \in Seq(Names)
  /\ arr \in Seq([name : Names, offset : 0 .. MaxSize, size : 1 .. MaxSize])
  /\ next_offset \in 0 .. MaxSize
  /\ i \in 1 .. Len(arr) + 1
  /\ curr_offset \in Nat
  /\ spec \in Seq(SpecElement)
  /\ pc \in {"register", "walk", "done", "aborted", "crashed"}

AllSized == \A k \in DOMAIN arr : arr[k].name \in Sized

\* Elements of a fixed size lie one behind the other in the order in which they
\* were registered, so that no field is read from the bytes of another, and each
\* name once. (That each lies at a multiple of its size is what the assertion in
\* ipfix_templ_ie_register is about: see UnsizedNeverUsed.)
LayoutSound ==
  AllSized =>
    /\ \A k, m \in DOMAIN arr :
         k < m => /\ arr[k].offset + arr[k].size <= arr[m].offset
                  /\ arr[k].name # arr[m].name
    /\ \A k \in DOMAIN arr : arr[k].offset + arr[k].size <= next_offset

\* The two computations of the layout agree: what the walk has described lies in
\* the record where registering has put it, and the whole description is as
\* long as the buffer of the reader.
DescriptionAgrees ==
  /\ \A k \in 1 .. i - 1 : \E e \in DOMAIN spec :
       /\ spec[e].name = arr[k].name
       /\ spec[e].at = arr[k].offset
       /\ spec[e].len = arr[k].size
  /\ pc = "done" => SpecEnd(spec) = RecSize

\* An element without a fixed size gets a place nevertheless, at the end of the
\* address space (io-ipfix.c:234-246 never looks at the error). No such template
\* is ever used: the assertion of the walk (io-ipfix.c:774) stops the process, if
\* that on the offset of an element registered later (io-ipfix.c:249) has not. And
\* neither ever fails while all elements have a size, so that these lie at
\* multiples of their sizes.
UnsizedNeverUsed ==
  /\ pc = "crashed" => ~ AllSized
  /\ pc = "done" => AllSized

-----------------------------------------------------------------------------
(* The invariant from which these follow. As long as no element without a  *)
(* size has been met an element lies within 15 bytes behind the one before, *)
(* and the first one without a size lies at the end of the address space.  *)

End(k) == IF k = 0 THEN 0 ELSE arr[k].offset + arr[k].size

\* The elements in front of the k-th all have a size.
SizedBefore(k) == \A m \in 1 .. k - 1 : arr[m].name \in Sized

PlaceInv ==
  \A k \in DOMAIN arr : SizedBefore(k) =>
    IF arr[k].name \in Sized
    THEN /\ arr[k].size \in 1 .. 16
         /\ arr[k].offset % arr[k].size = 0
         /\ arr[k].offset - End(k - 1) \in 0 .. 15
         /\ \A m \in 1 .. k - 1 : End(m) <= arr[k].offset
         /\ 2 * (End(k) + 32) < SizeRange
    ELSE k > 1 /\ arr[k].offset = MaxSize

NextInv ==
  /\ AllSized => /\ next_offset = End(Len(arr))
                 /\ 2 * (next_offset + 32 * (Len(todo) + 1)) < SizeRange
  /\ arr = <<>> => /\ pc \in {"register", "aborted"}
                   /\ todo # <<>>
                   /\ Head(todo) \in Sized
  /\ \A k, m \in DOMAIN arr : k < m => arr[k].name # arr[m].name

WalkInv ==
  /\ SizedBefore(i)
  /\ pc # "done" => curr_offset = SpecEnd(spec)
  /\ curr_offset = End(i - 1)
  /\ pc = "done" => i = Len(arr) + 1
  /\ pc = "register" => i = 1
  /\ DescriptionAgrees
  /\ UnsizedNeverUsed

TemplateInv == TypeOK /\ PlaceInv /\ NextInv /\ WalkInv

=============================================================================
