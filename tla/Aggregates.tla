----------------------------- MODULE Aggregates -----------------------------
(***************************************************************************)
(* The aggregation functions that src/scripts/generate-functions.py writes *)
(* for the grouper: what aggr_... computes of the values a field has in    *)
(* the members of a group, in their order. The results are of 64 bits.     *)
(***************************************************************************)
EXTENDS Comparators, SequencesExt, FiniteSetsExt

AggrOps == {"static", "count", "union", "min", "max", "median", "mean",
            "stddev", "prod", "sum", "and", "or", "xor"}

\* The bits of a word, and the word with some bits.
Bits == [x \in Words |-> {k \in 0 .. WordBits - 1 : (x \div TwoTo[k]) % 2 = 1}]
Number == [bits \in SUBSET (0 .. WordBits - 1) |-> CHOOSE x \in Words : Bits[x] = bits]

Times(x, y) == (x * y) % WordRange

\* The loops that start with the 0 of calloc, also that of "prod".
Sum(values)     == FoldLeft(Plus, 0, values)
Product(values) == FoldLeft(Times, 0, values)

\* The same for the bitwise operations, on the bits that are set.
Bitwise(op, values) ==
  LET Both(bs, x) ==
        LET cs == Bits[x]
        IN CASE op = "and" -> bs \cap cs
             [] op = "or"  -> bs \cup cs
             [] op = "xor" -> (bs \ cs) \cup (cs \ bs)
  IN Number[FoldLeft(Both, {}, values)]

Mean(values) == Sum(values) \div Len(values)

\* The integer part of a square root.
SquareRoot(x) == CHOOSE r \in 0 .. x : r * r <= x /\ x < (r + 1) * (r + 1)

\* Of 32 bits are the sum of the squares, the variance and its root.
Deviation(values) ==
  LET mean == Mean(values)
      AddSquare(sum, x) == (sum + (x - mean) * (x - mean)) % HalfRange
  IN SquareRoot(FoldLeft(AddSquare, 0, values) \div Len(values))

\* The orders qsort may bring the values into with compar, which looks at 32
\* bits of each: that of values it cannot tell apart is up to qsort.
SortOrders(values) ==
  {p \in [DOMAIN values -> DOMAIN values] :
     /\ IsInjective(p)
     /\ \A m, n \in DOMAIN values :
          m < n => values[p[m]] % HalfRange <= values[p[n]] % HalfRange}

\* A mutant of DropRepeats: "last" stays the first value.
DropRepeatsOfFirst(s) ==
  FoldLeft(LAMBDA kept, x : IF kept # <<>> /\ kept[1] = x THEN kept
                            ELSE Append(kept, x), <<>>, s)

\* A value that is not the one before it.
DropRepeats(s) ==
  FoldLeft(LAMBDA kept, x : IF kept # <<>> /\ Last(kept) = x THEN kept
                            ELSE Append(kept, x), <<>>, s)

\* aggr->values, for the order that the functions which sort get of qsort.
\* "static" is a union unless the field is common to the members; the loops of
\* "min" and "max" only ever look at the first record.
Aggregate(op, if_aggr_common, values, order) ==
  LET sorted == [n \in DOMAIN values |-> values[order[n]]]
  IN CASE op = "static" /\ if_aggr_common     -> <<values[1]>>
       [] op = "static" /\ ~ if_aggr_common   -> DropRepeats(sorted)
       [] op = "union"                        -> DropRepeats(sorted)
       [] op = "count"                        -> <<Len(values)>>
       [] op \in {"min", "max"}               -> <<values[1]>>
       [] op = "median"                       -> <<sorted[Len(values) \div 2 + 1]>>
       [] op = "mean"                         -> <<Mean(values)>>
       [] op = "stddev"                       -> <<Deviation(values)>>
       [] op = "sum"                          -> <<Sum(values)>>
       [] op = "prod"                         -> <<Product(values)>>
       [] op \in {"and", "or", "xor"}         -> <<Bitwise(op, values)>>

\* Whether the function writes the field of the group's record, and what: the
\* result, but 0 for a set of values.
WritesField(op) == op # "union"
FieldValue(op, if_aggr_common, result) ==
  IF op = "static" /\ ~ if_aggr_common THEN 0 ELSE result[1]

=============================================================================
