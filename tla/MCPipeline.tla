----------------------------- MODULE MCPipeline -----------------------------
(***************************************************************************)
(* Up to three groups in each of two branches, of one or two records. Two *)
(* groups share their records: no property may take them for one.          *)
(***************************************************************************)
EXTENDS Pipeline, Comparators

MCMembers ==
  [g \in Branches \X Groups |->
     CASE g[2] = 1 -> <<g[1]>>
       [] g[2] = 2 -> <<3, 4>>
       [] OTHER -> <<g[1], 4>>]

\* A term of a group filter: the field of the n-th group is n.
Where(op, value, delta) == {g \in Groups : Compare(op, g, value, delta)}

\* No clause; the empty one; two alternatives; an alternative of which every
\* term holds for one group only, after one that never holds.
MCFilterRules ==
  {<<>>, <<<<>>>>,
   <<<<Where("eq", 1, 0)>>, <<Where("ne", 2, 0)>>>>,
   <<<<Where("eq", 1, 0), Where("eq", 2, 0)>>,
     <<Where("lt", 2, 1), Where("ge", 3, 1)>>>>}

MCTerm(b, c, f) == [branch1 |-> b, branch2 |-> c, func |-> f]
Less   == {<<g, h>> \in Groups \X Groups : MergerCompare("lt", g, h, 0)}
Differ == {<<g, h>> \in Groups \X Groups : MergerCompare("ne", g, h, 0)}

MCMergerRules ==
  {<<>>,
   <<<<MCTerm(1, 2, Differ)>>>>,
   <<<<MCTerm(1, 2, Less), MCTerm(2, 1, Differ)>>, <<MCTerm(1, 2, Differ)>>>>}

=============================================================================
