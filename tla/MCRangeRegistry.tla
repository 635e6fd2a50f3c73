--------------------------- MODULE MCRangeRegistry ---------------------------
(***************************************************************************)
(* A registry from its construction on: __init__ runs its loop, and then   *)
(* the methods are called.  The loop is run on every keyspace of at most 9 *)
(* keys at three origins with every block size up to one more than the     *)
(* longest keyspace; the arguments that __init__ rejects are offered as    *)
(* well, and no initial state has them.  The methods are called on one of  *)
(* these registries, 5 keys in blocks of 2: three blocks, the last short.  *)
(***************************************************************************)
EXTENDS RangeRegistry, GridLoop, TLC

MCLos == {-3, 0, 10}
MCSpans == -1 .. 9
MCSizes == -1 .. 10

Serving == cur >= hi /\ <<lo, hi, size>> = <<Lo, Hi, BlockSize>>

RegistryInit == LoopInit /\ Init
RegistryNext ==
    \/ LoopNext /\ UNCHANGED vars
    \/ Serving /\ Next /\ UNCHANGED loopVars
RegistrySpec == RegistryInit /\ [][RegistryNext]_<<vars, loopVars>>

Symmetry == Permutations(Workers)

=============================================================================
