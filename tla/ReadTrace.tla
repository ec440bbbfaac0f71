----------------------------- MODULE ReadTrace ------------------------------
(***************************************************************************)
(* read_trace(...) of src/src/f.c: the main thread reads the trace record  *)
(* by record, runs the filter of every branch on each one, saves a copy of *)
(* a record that some branch accepts and hands every accepting branch a    *)
(* pointer to that one copy.                                               *)
(*                                                                         *)
(* The reader hands out the address of one buffer, overwritten by the next *)
(* read. The copies live on the heap: the address of a copy is its place   *)
(* in the order of allocation. A filter term is the set of the records for *)
(* which its generated comparator returns true.                            *)
(***************************************************************************)
EXTENDS Integers, Sequences

CONSTANTS
  NumBranches,   \* num_branches
  Records,       \* what a flow record may hold
  MaxTrace,      \* bound on the length of the trace
  Filters,       \* the filters of a branch: sequences of sequences of terms
  AllocMayFail   \* whether an allocation may return NULL

Branches == 1 .. NumBranches

ASSUME ReadTraceAssumption ==
  /\ NumBranches \in Nat \ {0}
  /\ MaxTrace \in Nat
  /\ Filters \subseteq Seq(Seq(SUBSET Records))
  /\ AllocMayFail \in BOOLEAN

VARIABLES
  trace,      \* the records in the input
  filter,     \* filter[b]: the filter_clauseset of branch b
  position,   \* the number of records read
  buffer,     \* what the reader's buffer holds
  copies,     \* the contents of the blocks allocated for records
  origin,     \* history: the place in the trace each copy was made from
  recordset,  \* data->recordset, <<>> also when it is NULL
  num_records,\* data->num_records
  filtered,   \* filtered[b]: the filtered_recordset of branch b
  written,    \* written[b]: the stream "filter-branch-b-filtered-records"
  i,          \* the branch whose filter runs next
  target,     \* the local "target"
  first_time, \* the local "first_time"
  pc

inputs == <<trace, filter>>
saved  == <<copies, origin, recordset, num_records>>
locals == <<i, target, first_time>>
vars   == <<inputs, position, buffer, saved, filtered, written, locals, pc>>

\* Addresses: NULL, the reader's buffer, and those of the copies from 1 on.
\* Garbage stands for the content of memory nobody initialised.
Null    == 0
RecBuf  == -1
Garbage == -2

Deref(a) == IF a = RecBuf THEN buffer ELSE copies[a]

-----------------------------------------------------------------------------
\* The clauses of a filter are ORed and the terms of a clause ANDed; a branch
\* without clauses accepts nothing, a clause without terms everything.
Accepts(b, record) ==
  \E c \in DOMAIN filter[b] :
    \A j \in DOMAIN filter[b][c] : record \in filter[b][c][j]

Init ==
  /\ trace \in UNION {[1 .. n -> Records] : n \in 0 .. MaxTrace}
  /\ filter \in [Branches -> Filters]
  /\ position = 0
  /\ buffer \in Records
  /\ copies = <<>>
  /\ origin = <<>>
  /\ recordset = <<>>
  /\ num_records = 0
  /\ filtered = [b \in Branches |-> <<>>]
  /\ written = [b \in Branches |-> <<>>]
  /\ i = NumBranches + 1
  /\ target = Null
  /\ first_time = TRUE
  /\ pc = "read"

\* A mutant of ReadRecord: the loop variable is not reset.
ReadRecordKeepsBranch ==
  /\ pc = "read"
  /\ position < Len(trace)
  /\ position' = position + 1
  /\ buffer' = trace[position + 1]
  /\ target' = Null
  /\ first_time' = TRUE
  /\ pc' = "branch"
  /\ UNCHANGED <<inputs, saved, filtered, written, i>>

\* A mutant of ReadRecord: first_time is not set again for the next record.
ReadRecordKeepsFirstTime ==
  /\ pc = "read"
  /\ position < Len(trace)
  /\ position' = position + 1
  /\ buffer' = trace[position + 1]
  /\ target' = Null
  /\ i' = 1
  /\ pc' = "branch"
  /\ UNCHANGED <<inputs, saved, filtered, written, first_time>>

\* io_read_record overwrites the buffer, and the loop over the branches starts.
ReadRecord ==
  /\ pc = "read"
  /\ position < Len(trace)
  /\ position' = position + 1
  /\ buffer' = trace[position + 1]
  /\ target' = Null
  /\ first_time' = TRUE
  /\ i' = 1
  /\ pc' = "branch"
  /\ UNCHANGED <<inputs, saved, filtered, written>>

\* The loop over the branches moves on.
NextBranch ==
  /\ i' = i + 1
  /\ pc' = IF i = NumBranches THEN "read" ELSE "branch"

\* A mutant of Extended: the subscript lags behind the counter.
ExtendedOffByOne(address) ==
  [n \in 1 .. num_records + 1 |->
     IF n = num_records THEN address
     ELSE IF n \in DOMAIN recordset THEN recordset[n] ELSE Garbage]

\* The place of the new record in data->recordset. The array that a failed
\* realloc lost earlier comes back with all but its last place uninitialised.
Extended(address) ==
  [n \in 1 .. num_records + 1 |->
     IF n = num_records + 1 THEN address
     ELSE IF n \in DOMAIN recordset THEN recordset[n] ELSE Garbage]

\* A mutant of SaveRecord: one block serves for all the records.
SaveRecordInOneBlock ==
  /\ IF copies = <<>>
     THEN copies' = <<buffer>> /\ origin' = <<position>>
     ELSE copies' = [copies EXCEPT ![1] = buffer] /\ UNCHANGED origin
  /\ target' = 1
  /\ first_time' = FALSE
  /\ UNCHANGED <<recordset, num_records>>

\* The first branch to accept the record: a block, a copy of the buffer, and
\* an entry in data->recordset. If the realloc of that array fails the code
\* goes on: the array is lost, its counter incremented.
SaveRecord ==
  /\ copies' = Append(copies, buffer)
  /\ origin' = Append(origin, position)
  /\ target' = Len(copies) + 1
  /\ first_time' = FALSE
  /\ num_records' = num_records + 1
  /\ \/ recordset' = Extended(target')
     \/ AllocMayFail /\ recordset' = <<>>

\* A mutant of KeepTarget: every branch saves the record for itself.
KeepTargetEachTime == SaveRecord

\* A mutant of KeepTarget: the branches get the address of the reader's buffer.
KeepTargetUncopied ==
  target' = RecBuf /\ first_time' = FALSE /\ UNCHANGED saved

KeepTarget ==
  IF first_time THEN SaveRecord ELSE UNCHANGED <<saved, target, first_time>>

\* A mutant of Reject: the record is saved before the filter is asked.
RejectSaved ==
  /\ pc = "branch"
  /\ ~ Accepts(i, buffer)
  /\ KeepTarget
  /\ NextBranch
  /\ UNCHANGED <<inputs, position, buffer, filtered, written>>

\* The branch does not accept the record, and the loop moves on.
Reject ==
  /\ pc = "branch"
  /\ ~ Accepts(i, buffer)
  /\ NextBranch
  /\ UNCHANGED <<inputs, position, buffer, saved, filtered, written, target,
                 first_time>>

\* The branch accepts: it stores the pointer, and the stream gets the record.
Accept ==
  /\ pc = "branch"
  /\ Accepts(i, buffer)
  /\ KeepTarget
  /\ filtered' = [filtered EXCEPT ![i] = Append(@, target')]
  /\ written' = [written EXCEPT ![i] = Append(@, buffer)]
  /\ NextBranch
  /\ UNCHANGED <<inputs, position, buffer>>

\* The calloc of the copy or the realloc of a filtered recordset, also the one
\* that makes room for the sentinel, returns NULL: errExit aborts the process.
\* What it did to the record at hand is lost with the process.
OutOfMemory ==
  /\ AllocMayFail
  /\ \/ pc = "branch" /\ Accepts(i, buffer)
     \/ pc = "read" /\ position = Len(trace)
  /\ pc' = "aborted"
  /\ UNCHANGED <<inputs, position, buffer, saved, filtered, written, locals>>

\* A mutant of EndOfTrace: the sentinel takes the place of the last pointer.
EndOfTraceOverwrites ==
  /\ pc = "read"
  /\ position = Len(trace)
  /\ filtered' = [b \in Branches |->
       IF filtered[b] = <<>> THEN <<Null>>
       ELSE [filtered[b] EXCEPT ![Len(filtered[b])] = Null]]
  /\ pc' = "done"
  /\ UNCHANGED <<inputs, position, buffer, saved, written, locals>>

\* No record left: every filtered recordset gets its NULL sentinel.
EndOfTrace ==
  /\ pc = "read"
  /\ position = Len(trace)
  /\ filtered' = [b \in Branches |-> Append(filtered[b], Null)]
  /\ pc' = "done"
  /\ UNCHANGED <<inputs, position, buffer, saved, written, locals>>

Next == ReadRecord \/ Reject \/ Accept \/ OutOfMemory \/ EndOfTrace

Spec == Init /\ [][Next]_vars /\ WF_vars(Next)

-----------------------------------------------------------------------------
(* Properties                                                              *)

\* The pointers of a branch, without the sentinel it has in the end.
Pointers(b) ==
  IF pc = "done" THEN SubSeq(filtered[b], 1, Len(filtered[b]) - 1)
                 ELSE filtered[b]

\* How much of the trace the branch b has been shown.
Shown(b) == IF b < i THEN position ELSE position - 1

TypeOK ==
  /\ trace \in Seq(Records)
  /\ filter \in [Branches -> Filters]
  /\ position \in 0 .. Len(trace)
  /\ buffer \in Records
  /\ copies \in Seq(Records)
  /\ origin \in Seq(Nat)
  /\ recordset \in Seq(Int)
  /\ num_records \in Nat
  /\ filtered \in [Branches -> Seq(Int)]
  /\ written \in [Branches -> Seq(Records)]
  /\ i \in 1 .. NumBranches + 1
  /\ target \in Int
  /\ first_time \in BOOLEAN
  /\ pc \in {"read", "branch", "done", "aborted"}
  /\ pc = "branch" => i \in Branches
  /\ pc \in {"read", "done"} => i = NumBranches + 1

\* The copies made for the branches still hold what the trace held, however
\* often the reader has reused its buffer since.
CopiesFaithful ==
  \A a \in DOMAIN copies : copies[a] = trace[origin[a]]

\* A record is saved once for all branches: two copies never come from the
\* same place of the trace, and they are made in the order of the trace.
SavedOnce ==
  \A a, c \in DOMAIN origin : a < c => origin[a] < origin[c]

\* The branch b holds pointers to the copies of exactly those records it has
\* been shown and accepts, in the order of the trace.
HoldsExactly(b) ==
  LET p == Pointers(b)
  IN /\ \A n \in DOMAIN p : p[n] \in DOMAIN copies
     /\ \A m, n \in DOMAIN p : m < n => p[m] < p[n]
     /\ {origin[p[n]] : n \in DOMAIN p}
          = {q \in 1 .. Shown(b) : Accepts(b, trace[q])}

\* At every moment each branch has the records it accepts, and no others.
FilterExact == \A b \in Branches : HoldsExactly(b)

\* The grouper walks to the NULL that ends its recordset: there is one, and
\* none before it.
SentinelLast ==
  pc = "done" =>
    \A b \in Branches :
      /\ filtered[b] # <<>>
      /\ \A n \in DOMAIN filtered[b] :
           filtered[b][n] = Null <=> n = Len(filtered[b])

\* No copy is made for nobody: each one is held by some branch.
NoOrphans ==
  pc \in {"read", "done"} =>
    \A a \in DOMAIN copies : \E b \in Branches :
      \E n \in DOMAIN filtered[b] : filtered[b][n] = a

\* The stream of a branch, written from the reader's buffer, agrees with what
\* the branch finds behind its pointers.
StreamsAgree ==
  \A b \in Branches :
    /\ Len(written[b]) = Len(Pointers(b))
    /\ \A n \in DOMAIN written[b] : written[b][n] = Deref(Pointers(b)[n])

\* The trace data, which main frees record by record in the end, lists in its
\* n-th place the n-th copy. After a realloc that failed main meets NULL or
\* places that nobody has initialised, but never the wrong copy, and the last
\* place is always good.
TraceDataExact ==
  /\ num_records = Len(copies)
  /\ recordset # <<>> => /\ Len(recordset) = num_records
                         /\ recordset[num_records] = num_records
  /\ \A n \in DOMAIN recordset : recordset[n] \in {n, Garbage}
  /\ ~AllocMayFail => recordset = [n \in 1 .. num_records |-> n]

-----------------------------------------------------------------------------
(* The invariant from which these follow.                                  *)

\* A copy for every origin, and all origins in the part of the trace read.
OriginInv ==
  /\ Len(origin) = Len(copies)
  /\ \A a \in DOMAIN origin : origin[a] \in 1 .. position

\* In the loop over the branches the buffer holds the current record, and
\* first_time tells whether the last copy is one of it.
LoopInv ==
  pc = "branch" =>
    /\ position > 0
    /\ buffer = trace[position]
    /\ first_time => \A a \in DOMAIN origin : origin[a] < position
    /\ ~first_time => /\ target = Len(copies)
                      /\ target \in DOMAIN origin
                      /\ origin[target] = position

DoneInv ==
  pc = "done" => \A b \in Branches : /\ filtered[b] # <<>>
                                     /\ filtered[b][Len(filtered[b])] = Null

ReadTraceInv ==
  /\ TypeOK
  /\ OriginInv
  /\ LoopInv
  /\ DoneInv
  /\ CopiesFaithful
  /\ SavedOnce
  /\ FilterExact

-----------------------------------------------------------------------------
(* ReadTrace implements Splitter.                                          *)

Split == INSTANCE Splitter WITH
  SplitBranches <- Branches,
  flow      <- trace,
  accepts   <- [b \in Branches |-> {r \in Records : Accepts(b, r)}],
  cursor    <- [b \in Branches |-> Shown(b)],
  delivered <- [b \in Branches |->
                  [n \in DOMAIN Pointers(b) |-> Deref(Pointers(b)[n])]]

\* Each branch finds behind its pointers what an ideal splitter would have
\* given it, at every moment and not only in the end.
ImplementsSplitter == Split!SplitSpec

=============================================================================
