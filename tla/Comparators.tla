---------------------------- MODULE Comparators ----------------------------
(***************************************************************************)
(* The comparators that src/scripts/generate-functions.py writes for the   *)
(* filter, the grouper, the group filter and the merger, one for every     *)
(* operation and every width of the fields. A field of 8, 16 or 32 bits is *)
(* converted to the 64 bits of the value or the delta before anything is   *)
(* done with it, so the width of the field makes no difference and the sum *)
(* or the difference with the delta wraps around at 64 bits.               *)
(***************************************************************************)
EXTENDS Integers

CONSTANTS
  WordBits,    \* the bits of uint64_t
  HalfBits     \* the bits of uint32_t

ASSUME ComparatorsAssumption ==
  /\ WordBits \in Nat
  /\ HalfBits \in 0 .. WordBits

\* The powers of two.
TwoTo[k \in 0 .. WordBits] == IF k = 0 THEN 1 ELSE 2 * TwoTo[k - 1]

WordRange == TwoTo[WordBits]
HalfRange == TwoTo[HalfBits]

Words == 0 .. WordRange - 1

Plus(x, y)  == (x + y) % WordRange
Minus(x, y) == (x - y) % WordRange

Ops == {"eq", "ne", "lt", "le", "gt", "ge"}

\* x, the field of a record or a group, compared with y up to delta: that of
\* filter_..., gfilter_... and of the grouper_... with a delta.
Compare(op, x, y, delta) ==
  CASE op = "eq" -> x >= Minus(y, delta) /\ x <= Plus(y, delta)
    [] op = "ne" -> x < Minus(y, delta) \/ x > Plus(y, delta)
    [] op = "lt" -> x < Plus(y, delta)
    [] op = "le" -> x <= Plus(y, delta)
    [] op = "gt" -> x > Minus(y, delta)
    [] op = "ge" -> x >= Minus(y, delta)

\* merger_...: a field of 0 stands for one that the group does not have.
MergerCompare(op, x, y, delta) == x # 0 /\ y # 0 /\ Compare(op, x, y, delta)

\* merger_allen_...: of the intervals only one number each, of 32 bits, is
\* looked at, which most of the thirteen relations cannot hold between.
AllenCompare(op, x, y) ==
  LET t1 == x % HalfRange
      t2 == y % HalfRange
  IN CASE op = "allen_bf"                        -> t1 < t2
       [] op = "allen_af"                        -> t1 > t2
       [] op \in {"allen_m", "allen_mi", "allen_eq"} -> t1 = t2
       [] op \in {"allen_o", "allen_oi", "allen_d", "allen_di"} ->
                                                    t1 < t2 /\ t1 > t2
       [] op \in {"allen_s", "allen_fi"}         -> t1 = t2 /\ t1 < t2
       [] op \in {"allen_si", "allen_f"}         -> t1 = t2 /\ t1 > t2

=============================================================================
