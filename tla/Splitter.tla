------------------------------ MODULE Splitter ------------------------------
(***************************************************************************)
(* What reading the trace promises: the splitter hands every record of the *)
(* trace to every branch, and a branch keeps, in the order of the trace,   *)
(* the records its filter accepts. The branches are independent: each has  *)
(* a cursor of its own.                                                    *)
(***************************************************************************)
EXTENDS Naturals, Sequences

CONSTANT SplitBranches

VARIABLES
  flow,       \* the records of the trace; never changes
  accepts,    \* accepts[b]: the records the filter of b accepts; constant
  cursor,     \* cursor[b]: how many records b has been shown
  delivered   \* delivered[b]: the records b has kept

splitVars == <<flow, accepts, cursor, delivered>>

SplitInit ==
  /\ cursor = [b \in SplitBranches |-> 0]
  /\ delivered = [b \in SplitBranches |-> <<>>]

Show(b) ==
  /\ cursor[b] < Len(flow)
  /\ cursor' = [cursor EXCEPT ![b] = @ + 1]
  /\ LET record == flow[cursor[b] + 1]
     IN delivered' = [delivered EXCEPT ![b] =
                        IF record \in accepts[b] THEN Append(@, record) ELSE @]
  /\ UNCHANGED <<flow, accepts>>

SplitNext == \E b \in SplitBranches : Show(b)

SplitSpec == SplitInit /\ [][SplitNext]_splitVars

=============================================================================
