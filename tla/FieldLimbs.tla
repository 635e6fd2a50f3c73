----------------------------- MODULE FieldLimbs -----------------------------
(***************************************************************************)
(* kernels/cuda-ref/secp256k1_field.cuh, ported line for line by           *)
(* kernels/oxide-ec/src/field.rs: arithmetic modulo 2^256 - 2^32 - 977 on  *)
(* eight limbs of 32 bits.                                                 *)
(*                                                                         *)
(* A pass over the limbs that carries from each to the next computes a sum *)
(* of whole numbers modulo Modulus and leaves its last carry, the quotient;*)
(* the limbs are kept at this level.  What the properties are about is     *)
(* where each pass adds the carry of the one before.                       *)
(***************************************************************************)
EXTENDS Integers

CONSTANTS Base,    \* 2^32
          Limbs,   \* 8
          Fold     \* 977

Modulus == Base ^ Limbs
Excess == Base + Fold             \* Modulus is congruent to it
Prime == Modulus - Excess

\* Fold has to fit a limb, and a product folded once has to leave few bits
\* above Modulus.
ASSUME FieldAssumption ==
    /\ Base \in Nat /\ Fold \in Nat /\ Limbs \in Nat /\ Modulus \in Nat
    /\ 0 < Fold /\ Fold < Base
    /\ 2 * Excess * Excess < Modulus

Residue == 0 .. Prime - 1

ReduceOnce(t) == IF t >= Prime THEN t - Prime ELSE t

\* The carry out of the top limb is folded, and once more if that carries.
FoldCarry(t) ==
    LET u == t + Excess IN IF u >= Modulus THEN (u - Modulus + Excess) % Modulus ELSE u
\* Mutant: the carry out of the top limb is dropped.
LimbAdd_NoCarry(a, b) == ReduceOnce((a + b) % Modulus)
LimbAdd(a, b) ==
    IF a + b >= Modulus THEN ReduceOnce(FoldCarry(a + b - Modulus)) ELSE ReduceOnce(a + b)

\* A borrow out of the top limb adds p back.
LimbSub(a, b) ==
    IF a < b THEN (a - b + Modulus + Prime) % Modulus ELSE a - b

\* Mutant: the bits above Modulus are cut to one limb before they are folded
\* again.
FoldProduct_CutExtra(v) ==
    LET first == (v % Modulus) + (v \div Modulus) * Excess
    IN ReduceOnce(((first % Modulus) + ((first \div Modulus) % Base) * Excess) % Modulus)
\* fe_fold512.  `e` is folded in two passes, Fold * e and Base * e; the carry of
\* the first is added to the limb where the second begins.
FoldProduct(v) ==
    LET first == (v % Modulus) + (v \div Modulus) * Excess
        e == first \div Modulus
        low == (first % Modulus) + e * Fold
        c == low \div Modulus
        high == (low % Modulus) + (e + c) * Base
        c2 == high \div Modulus
        t == ((high % Modulus) + c2 * Excess) % Modulus
    IN ReduceOnce(ReduceOnce(ReduceOnce(t)))
LimbMul(a, b) == FoldProduct(a * b)

=============================================================================
