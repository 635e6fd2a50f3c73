------------------------------- MODULE GridLoop ------------------------------
(***************************************************************************)
(* The loop of RangeRegistry.__init__ that cuts the keyspace into blocks,  *)
(* one action per iteration.  The bounds and the block size are chosen in  *)
(* the initial state, so that one run covers every small keyspace; an      *)
(* argument that __init__ rejects with ValueError never reaches the loop.  *)
(***************************************************************************)
EXTENDS KeyGrid

CONSTANTS Los,    \* values of lo to try
          Spans,  \* values of hi - lo to try
          Sizes   \* values of block_size to try

ASSUME GridLoopAssumption ==
    /\ Los \subseteq Int
    /\ Spans \subseteq Int
    /\ Sizes \subseteq Int

VARIABLES lo, hi, size,  \* the arguments of __init__
          cur, idx,      \* the loop's variables
          blocks         \* self._blocks, as [index -> [lo, hi]]

loopVars == <<lo, hi, size, cur, idx, blocks>>

\* __init__ raises ValueError on the other arguments.
Valid(l, h, s) == h > l /\ s > 0

LoopInit ==
    /\ lo \in Los
    /\ size \in Sizes
    /\ \E span \in Spans : hi = lo + span
    /\ Valid(lo, hi, size)
    /\ cur = lo
    /\ idx = 0
    /\ blocks = [k \in {} |-> [lo |-> 0, hi |-> 0]]

\* Mutant: the last block is not cut short at hi.
Top_NoClip == cur + size

\* The upper end of the block that starts at cur.
Top == IF cur + size < hi THEN cur + size ELSE hi

\* Mutant: the next block starts at the last key of this one.
AppendBlock_Inclusive ==
    /\ cur < hi
    /\ blocks' = [k \in 0 .. idx |->
                    IF k = idx THEN [lo |-> cur, hi |-> Top] ELSE blocks[k]]
    /\ cur' = IF Top = hi THEN Top ELSE Top - 1
    /\ idx' = idx + 1
    /\ UNCHANGED <<lo, hi, size>>

\* One iteration: append block idx = [cur, Top), advance.
AppendBlock ==
    /\ cur < hi
    /\ blocks' = [k \in 0 .. idx |->
                    IF k = idx THEN [lo |-> cur, hi |-> Top] ELSE blocks[k]]
    /\ cur' = Top
    /\ idx' = idx + 1
    /\ UNCHANGED <<lo, hi, size>>

LoopNext == AppendBlock

LoopSpec == LoopInit /\ [][LoopNext]_loopVars

-----------------------------------------------------------------------------

\* Types of the loop's variables: part of the inductive invariant.
LoopTypeOK ==
    /\ lo \in Int /\ hi \in Int /\ size \in Int
    /\ cur \in Int
    /\ idx \in Nat
    /\ blocks \in [0 .. (idx - 1) -> [lo : Int, hi : Int]]

\* Every block built so far is the block of the closed form, so that the
\* registry's blocks are a fixed grid that depends on lo, hi and size alone.
OnGrid ==
    \A k \in DOMAIN blocks :
        /\ k \in BlocksOf(lo, hi, size)
        /\ blocks[k].lo = LoOf(lo, size, k)
        /\ blocks[k].hi = HiOf(lo, hi, size, k)

\* No two blocks share a key: what makes concurrent leases disjoint.
Disjoint ==
    \A j, k \in DOMAIN blocks :
        j # k => ~Overlap(blocks[j].lo, blocks[j].hi, blocks[k].lo, blocks[k].hi)

\* When the loop ends every key of [lo, hi) lies in a block, no block reaches
\* outside, and no block of the closed form is missing: nothing is left
\* unsearched at the truncated end of the keyspace.
CoversWhenDone ==
    cur >= hi =>
        /\ DOMAIN blocks = BlocksOf(lo, hi, size)
        /\ \A x \in lo .. (hi - 1) :
               \E k \in DOMAIN blocks : blocks[k].lo <= x /\ x < blocks[k].hi
        /\ \A k \in DOMAIN blocks : lo <= blocks[k].lo /\ blocks[k].hi <= hi

=============================================================================
