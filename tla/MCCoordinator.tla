--------------------------- MODULE MCCoordinator ---------------------------
(***************************************************************************)
(* The swarm with one process per worker id.                               *)
(***************************************************************************)
EXTENDS Coordinator, TLC

OwnId == [c \in Procs |-> c]

Symmetry == Permutations(Procs)

=============================================================================
