----------------------------- MODULE Ungrouper ------------------------------
(***************************************************************************)
(* ungrouper(...) of src/src/ungrouper.c: every matched tuple of groups is *)
(* unfolded into a stream, the members of its groups one branch after the  *)
(* other. A group is whatever "members" is defined for. The stream's file  *)
(* is written, as it is when an output directory is given.                 *)
(***************************************************************************)
EXTENDS Naturals, Sequences

CONSTANTS NumBranches

VARIABLES
  group_tuples,  \* mresult->group_tuples, each a function on the branches
  members,       \* members[g], the records of the group g
  i,             \* the tuple being unfolded
  j,             \* the branch whose group is added next; 0 before there is one
  recordset,     \* stream->recordset
  streamset,     \* streamset, the streams so far
  stream_files,  \* the streams "ungrouper-stream-i" so far
  returned       \* ungrouper(...) has returned

inputs == <<group_tuples, members>>

Init ==
  /\ i = 1
  /\ j = 0
  /\ recordset = <<>>
  /\ streamset = <<>>
  /\ stream_files = <<>>
  /\ returned = FALSE

\* A mutant of OpenStream: the stream is allocated once for all tuples.
OpenStreamOnce ==
  /\ i <= Len(group_tuples)
  /\ j = 0
  /\ j' = 1
  /\ stream_files' = Append(stream_files, <<>>)
  /\ UNCHANGED <<inputs, i, recordset, streamset, returned>>

OpenStream ==
  /\ i <= Len(group_tuples)
  /\ j = 0
  /\ j' = 1
  /\ recordset' = <<>>
  /\ stream_files' = Append(stream_files, <<>>)
  /\ UNCHANGED <<inputs, i, streamset, returned>>

\* A mutant of AddGroup: "l" starts at the second member, for the file.
AddGroupButFirst ==
  /\ j \in 1 .. NumBranches
  /\ LET group == group_tuples[i][j]
     IN /\ recordset' = recordset \o members[group]
        /\ stream_files' = [stream_files EXCEPT ![i] =
                              @ \o Tail(members[group])]
  /\ j' = j + 1
  /\ UNCHANGED <<inputs, i, streamset, returned>>

\* The record set is extended by the members of the next branch's group.
AddGroup ==
  /\ j \in 1 .. NumBranches
  /\ LET group == group_tuples[i][j]
     IN /\ recordset' = recordset \o members[group]
        /\ stream_files' = [stream_files EXCEPT ![i] = @ \o members[group]]
  /\ j' = j + 1
  /\ UNCHANGED <<inputs, i, streamset, returned>>

SaveStream ==
  /\ j > NumBranches
  /\ streamset' = Append(streamset, recordset)
  /\ i' = i + 1
  /\ j' = 0
  /\ UNCHANGED <<inputs, recordset, stream_files, returned>>

\* All the tuples are unfolded, or there was none or no merger result.
Return ==
  /\ ~ returned
  /\ j = 0
  /\ i > Len(group_tuples)
  /\ returned' = TRUE
  /\ UNCHANGED <<inputs, i, j, recordset, streamset, stream_files>>

Next == OpenStream \/ AddGroup \/ SaveStream \/ Return

TypeOK ==
  /\ i \in 1 .. Len(group_tuples) + 1
  /\ j \in 0 .. NumBranches + 1
  /\ recordset \in Seq(Nat)
  /\ streamset \in Seq(Seq(Nat))
  /\ stream_files \in Seq(Seq(Nat))
  /\ returned \in BOOLEAN

=============================================================================
