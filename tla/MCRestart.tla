------------------------------ MODULE MCRestart ------------------------------
(***************************************************************************)
(* The swarm with a worker that is run twice under one --worker-id: p2 is  *)
(* started after p1 is gone, while the handler of p1 may still be reading. *)
(***************************************************************************)
EXTENDS Coordinator

CONSTANTS p1, p2, p3, w1, w2

RestartedId == [c \in {p1, p2, p3} |-> IF c = p3 THEN w2 ELSE w1]

=============================================================================
