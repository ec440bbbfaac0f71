----------------------------- MODULE TupleJoin -----------------------------
(***************************************************************************)
(* What the merger of NFQL promises, with nothing of how it goes about it: *)
(* the tuples that take one filtered group of every branch are examined,   *)
(* each one once and in no particular order, and the wanted ones are kept. *)
(* The order of the iterator, its wrap-around, the loop over the clauses   *)
(* and the early return when a branch has no group are left to the module  *)
(* Merger, which is shown to implement this one.                           *)
(***************************************************************************)

VARIABLES
  wanted,     \* the tuples the query selects; never changes
  todo,       \* the tuples that have not been examined
  kept,       \* the tuples selected among the examined ones
  finished    \* the join has returned

joinVars == <<wanted, todo, kept, finished>>

JoinInit ==
  /\ wanted \subseteq todo
  /\ kept = {}
  /\ finished = FALSE

\* Examine one tuple, and keep it exactly when it is wanted.
Examine ==
  \E t \in todo :
    /\ todo' = todo \ {t}
    /\ kept' = kept \cup ({t} \cap wanted)
    /\ UNCHANGED <<wanted, finished>>

Finish ==
  /\ todo = {}
  /\ ~finished
  /\ finished' = TRUE
  /\ UNCHANGED <<wanted, todo, kept>>

JoinNext == Examine \/ Finish

JoinSpec == JoinInit /\ [][JoinNext]_joinVars /\ WF_joinVars(JoinNext)

=============================================================================
