------------------------------ MODULE MCMerger ------------------------------
(***************************************************************************)
(* The merger on small queries. The compared field of the n-th filtered    *)
(* group of every branch is n, and the terms are compared with the delta   *)
(* of 0 that merger(...) passes, for equality and for the order, and by an *)
(* Allen relation that no pair satisfies.                                  *)
(***************************************************************************)
EXTENDS Merger, Comparators

Pairs(Holds(_, _)) == {<<g, h>> \in Groups \X Groups : Holds(g, h)}

Equal == Pairs(LAMBDA g, h : MergerCompare("eq", g, h, 0))
Less  == Pairs(LAMBDA g, h : MergerCompare("lt", g, h, 0))
Never == Pairs(LAMBDA g, h : AllenCompare("allen_o", g, h))

\* Terms over a pair of neighbouring branches, and one that looks backwards.
MCTerms ==
  {[branch1 |-> b, branch2 |-> b + 1, func |-> r] :
      b \in 1 .. NumBranches - 1, r \in {Equal, Less}}
  \cup {[branch1 |-> NumBranches, branch2 |-> 1, func |-> r] :
      r \in {Less, Never}}

\* Clauses of up to two terms; queries of up to two clauses, and the three
\* clauses of a query that only its last clause can satisfy.
MCClauses == {<<>>} \cup {<<s>> : s \in MCTerms}
               \cup {<<s, u>> : s \in MCTerms, u \in MCTerms}
OneTermClauses == {<<s>> : s \in MCTerms}
Impossible == <<[branch1 |-> NumBranches, branch2 |-> 1, func |-> Never]>>

MCQueries ==
  {<<>>} \cup {<<c>> : c \in MCClauses}
    \cup {<<c, d>> : c \in OneTermClauses, d \in OneTermClauses}
    \cup {<<Impossible, Impossible, <<>>>>}
=============================================================================
