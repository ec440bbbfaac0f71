------------------------------ MODULE MCEngine ------------------------------
(* Every query there is for the branches, with and without the stages behind *)
(* them.                                                                     *)
EXTENDS Engine

MCStages == {s \in SUBSET Stages : "aggregation" \in s => "grouper" \in s}

MCQueries == [branchset : [Branches -> MCStages],
              merger : BOOLEAN, ungrouper : BOOLEAN]

\* Queries all of whose branches have all the stages.
MCFull == {q \in MCQueries : \A b \in Branches : q.branchset[b] = Stages}

=============================================================================
