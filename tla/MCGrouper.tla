----------------------------- MODULE MCGrouper ------------------------------
(***************************************************************************)
(* Records with the two fields "a" and "b" that filter and grouper terms    *)
(* compare and one, "c", that is only aggregated. A word has 6 bits and half *)
(* a word 4: the values of "c" need a whole word, their sums wrap around,   *)
(* and compar cannot tell 3 from 19. The clauses have terms of every kind:  *)
(* equality, order, a delta relative to the last member or to the first,    *)
(* and a field compared with another one. Values of "a" are below the delta *)
(* and at the end of the range.                                             *)
(***************************************************************************)
EXTENDS Grouper, TLC

MCTypeRange == "a" :> 64 @@ "b" :> 16 @@ "c" :> 64
MCFields    == DOMAIN MCTypeRange

MCFlow(a, b, c, s, e) ==
  [fields |-> "a" :> a @@ "b" :> b @@ "c" :> c, start |-> s, end |-> e]

MCFlows == {MCFlow(0, 2, 3, 2, 3), MCFlow(1, 1, 19, 1, 1),
            MCFlow(2, 1, 40, 3, 5), MCFlow(63, 1, 5, 0, 4)}

MCTerm(f, g, op, dtype, delta) ==
  [offset1 |-> f, offset2 |-> g, op |-> op, dtype |-> dtype, delta |-> delta]

KeyA  == MCTerm("a", "a", "eq", "no", 0)
KeyB  == MCTerm("b", "b", "eq", "no", 0)
RelA  == MCTerm("a", "a", "eq", "rel", 1)
AbsA  == MCTerm("a", "a", "eq", "abs", 1)
WideA == MCTerm("a", "a", "eq", "rel", 62)
FarA  == MCTerm("a", "a", "ne", "rel", 1)
Cross == MCTerm("a", "b", "le", "no", 0)

MCClauseSets ==
  {<<>>, << <<RelA>> >>, << <<WideA>> >>, << <<AbsA, KeyB>> >>, << <<Cross, FarA>> >>,
   << <<KeyB, KeyA>>, <<KeyB>> >>}

AggrTerm(op, f) == [op |-> op, field |-> f]

MCOps == <<"static", "count", "union", "min", "max", "median", "mean", "stddev",
           "prod", "sum", "and", "or", "xor">>

MCAggrTermset == [n \in DOMAIN MCOps |-> AggrTerm(MCOps[n], "c")]
NoAggrTerms   == <<>>
SumOfB        == <<AggrTerm("sum", "b")>>
=============================================================================
