---------------------------- MODULE MCReadTrace -----------------------------
(***************************************************************************)
(* Three kinds of records, told apart by a field, and filters that accept  *)
(* none, some, overlapping and all of them, through one clause or two.     *)
(***************************************************************************)
EXTENDS ReadTrace, Comparators

MCRecords == 1 .. 3

Where(op, value, delta) == {r \in MCRecords : Compare(op, r, value, delta)}

\* No clause accepts nothing, and a clause without a term everything. The two
\* terms in the middle accept 2, and the two clauses 1 and 2, the first one
\* none of them: its bound wraps around.
MCFilters ==
  {<<>>,
   << <<Where("le", 2, 0), Where("gt", 3, 2)>> >>,
   << <<Where("eq", 1, 2)>>, <<Where("lt", 2, 1)>> >>,
   << <<>> >>}
=============================================================================
