----------------------------- MODULE Partition ------------------------------
(***************************************************************************)
(* What grouping promises: round after round, one for every clause, the    *)
(* records are cut up into blocks until none is left. Which records share  *)
(* a block is not said here.                                               *)
(***************************************************************************)
EXTENDS Naturals

VARIABLES
  all,        \* the records; never changes
  rounds,     \* the number of rounds; never changes
  round,      \* the round that is going on
  rest,       \* the records no block of this round has taken
  blocks,     \* the blocks of all rounds, each one with its round
  finished

partitionVars == <<all, rounds, round, rest, blocks, finished>>

PartitionInit ==
  /\ round = 1
  /\ rest = all
  /\ blocks = {}
  /\ finished = FALSE

Cut ==
  \E block \in (SUBSET rest) \ {{}} :
    /\ rest' = rest \ block
    /\ blocks' = blocks \cup {<<round, block>>}
    /\ UNCHANGED <<all, rounds, round>>
    /\ finished' \in {FALSE, rest' = {} /\ round = rounds}

NextRound ==
  /\ ~finished
  /\ rest = {}
  /\ round < rounds
  /\ round' = round + 1
  /\ rest' = all
  /\ UNCHANGED <<all, rounds, blocks, finished>>

Finish ==
  /\ ~finished
  /\ rest = {}
  /\ all = {} \/ round = rounds
  /\ finished' = TRUE
  /\ UNCHANGED <<all, rounds, round, rest, blocks>>

PartitionNext == Cut \/ NextRound \/ Finish

PartitionSpec ==
  PartitionInit /\ [][PartitionNext]_partitionVars
                /\ WF_partitionVars(PartitionNext)

=============================================================================
