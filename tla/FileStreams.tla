---------------------------- MODULE FileStreams -----------------------------
(***************************************************************************)
(* The output streams of a run that writes the results of its stages to    *)
(* files, and the order in which main (src/src/f.c) and the stages in the  *)
(* branch threads open and close them: the sessions and the programs of    *)
(* FbTemplate.                                                             *)
(***************************************************************************)
EXTENDS FbTemplate

CONSTANTS
  NumClauses,   \* grouper clauses of a branch
  NumGroups,    \* groups made by a clause
  NumTuples     \* tuples of groups matched by the merger

ASSUME FileStreamsAssumption ==
  /\ NumClauses \in Nat
  /\ NumGroups \in Nat \ {0}
  /\ NumTuples \in Nat

Levels == 0 .. 2   \* verbosity: none, verbose_v, verbose_vv

-----------------------------------------------------------------------------
(* The sessions, and the order in which a thread opens and closes them when *)
(* the streams go to files.                                                 *)

FilterStreams      == {"filter"} \X Branches
SortedStreams      == {"sorted"} \X Branches \X (1 .. NumClauses)
GroupsStreams      == {"groups"} \X Branches
MembersStreams     ==
  {"members"} \X Branches \X (0 .. NumClauses) \X (1 .. NumGroups)
GroupFilterStreams == {"groupfilter"} \X Branches
MergerStreams      == {<<s>> : s \in {"merged", "to be merged"}}
UngrouperStreams   == {"ungrouper"} \X (1 .. NumTuples)

Writers == UNION {FilterStreams, SortedStreams, GroupsStreams, MembersStreams,
                  GroupFilterStreams, MergerStreams, UngrouperStreams}
AllSessions == {Reader} \cup Writers

\* body, within the session s, if streams like s are written at this level.
Within(s, written, body) ==
  IF written THEN <<Open(s)>> \o body \o <<Close(s)>> ELSE body

\* The files of the members of the groups a clause makes, one after the other.
MembersFiles(b, c, level, groups) ==
  IF level < 2 THEN <<>>
  ELSE [n \in 1 .. 2 * groups |->
          LET s == <<"members", b, c, (n + 1) \div 2>>
          IN IF n % 2 = 1 THEN Open(s) ELSE Close(s)]

\* The clauses of the grouper: each one sorts, and then groups the records.
ClausesProgram(b, level) ==
  LET upTo[c \in 0 .. NumClauses] ==
        IF c = 0 THEN <<>>
        ELSE upTo[c - 1]
               \o Within(<<"sorted", b, c>>, level >= 2, <<>>)
               \o MembersFiles(b, c, level, NumGroups)
  IN upTo[NumClauses]

\* The thread of a branch: the grouper, which makes a single group when there is
\* no clause and returns at once when there is nothing to group, and then the
\* group filter.
GrouperProgram(b, level) ==
  Within(<<"groups", b>>, level >= 1,
         IF NumClauses = 0 THEN MembersFiles(b, 0, level, 1)
         ELSE ClausesProgram(b, level))
BranchProgram(b, level, recorded) ==
  (IF b \in recorded THEN GrouperProgram(b, level) ELSE <<>>)
    \o Within(<<"groupfilter", b>>, level >= 1, <<>>)

\* The streams of the filter of all branches, open together while main reads.
FilterProgram(level) ==
  IF level = 0 THEN <<>>
  ELSE [b \in Branches |-> Open(<<"filter", b>>)]
         \o [b \in Branches |-> Close(<<"filter", b>>)]

MergerProgram(level) ==
  Within(<<"merged">>, level >= 1, Within(<<"to be merged">>, level >= 2, <<>>))

UngrouperProgram ==
  [n \in 1 .. 2 * NumTuples |->
     LET s == <<"ungrouper", (n + 1) \div 2>>
     IN IF n % 2 = 1 THEN Open(s) ELSE Close(s)]

\* A mutant of EndProgram: the reader is closed before the ungrouper.
EndProgramReaderFirst(level, results) ==
  (IF results THEN MergerProgram(level) ELSE <<>>)
    \o <<Close(Reader)>>
    \o (IF results THEN UngrouperProgram ELSE <<>>)
    \o <<<<"destroy">>>>

\* The merger returns at once, without a stream, when a branch has no group, and
\* the ungrouper has no tuples then. After it main closes the reader and destroys
\* the context.
EndProgram(level, results) ==
  (IF results THEN MergerProgram(level) \o UngrouperProgram ELSE <<>>)
    \o <<Close(Reader), <<"destroy">>>>

MainProgram(level, results) ==
  <<Open(Reader)>> \o FilterProgram(level) \o <<<<"spawn">>, <<"join">>>>
    \o EndProgram(level, results)

\* The programs of all threads at a verbosity, if the branches of recorded have
\* filtered records and if some group of every branch passes its group filter.
ThreadPrograms(level, recorded, results) ==
  [t \in Threads |-> IF t = Main THEN MainProgram(level, results)
                     ELSE BranchProgram(t, level, recorded)]

AllPrograms ==
  {ThreadPrograms(level, recorded, recorded = Branches) :
     level \in Levels, recorded \in SUBSET Branches}
  \cup {ThreadPrograms(level, Branches, FALSE) : level \in Levels}

=============================================================================
