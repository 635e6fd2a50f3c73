----------------------------- MODULE SmallCurve -----------------------------
(***************************************************************************)
(* kernels/cuda-ref/secp256k1_ec.cuh and secp256k1_affine.cuh (ported line *)
(* for line by kernels/oxide-ec/src/ec.rs): the curve y^2 = x^3 + 7 over a *)
(* small prime field, with the kernels' own formulas.  Nothing in those    *)
(* formulas depends on the size of the field, so a curve with a few dozen  *)
(* points meets every branch of them: doubling, inverse points, infinity,  *)
(* the zero denominator of a batch.                                        *)
(*                                                                         *)
(* A field element is a residue; the arithmetic on limbs behind it is a    *)
(* matter of its own.                                                      *)
(***************************************************************************)
EXTENDS Integers, Sequences

CONSTANTS P,        \* the field's prime
          N,        \* the order of the group
          Gx, Gy    \* the generator

\* P % 4 = 3 is what the square root by exponentiation needs.
ASSUME CurveAssumption ==
    /\ P \in Nat /\ P % 4 = 3 /\ \A q \in 2 .. P - 1 : P % q # 0
    /\ N \in Nat /\ N > 2 /\ N % 2 = 1
    /\ Gx \in 0 .. P - 1 /\ Gy \in 0 .. P - 1
    /\ (Gy * Gy) % P = (Gx * Gx * Gx + 7) % P

Fe == 0 .. P - 1

FeAdd(a, b) == (a + b) % P
FeSub(a, b) == (a - b) % P
FeMul(a, b) == (a * b) % P
FeSqr(a) == FeMul(a, a)
FeIsOdd(a) == a % 2 = 1

\* Square and multiply, the exponent's bits from the lowest: the base is
\* squared once per bit.
FePow(a, e) ==
    LET pow[k \in 0 .. P] ==
            [base \in Fe |->
                IF k = 0 THEN 1
                ELSE IF k % 2 = 1 THEN FeMul(pow[k \div 2][FeSqr(base)], base)
                                  ELSE pow[k \div 2][FeSqr(base)]]
    IN pow[e][a]

\* Fermat's inverse a^(p-2); it maps 0 to 0.
FeInv == [a \in Fe |-> FePow(a, P - 2)]
\* a^((p+1)/4)
FeSqrt == [a \in Fe |-> FePow(a, (P + 1) \div 4)]

---------------------------------------------------------------------------
\* An affine point.  The kernels write (0,0) for the point at infinity, which
\* has no affine form.
Affine(x, y) == [x |-> x, y |-> y]
Sentinel == Affine(0, 0)
OnCurve(p) == FeSqr(p.y) = FeAdd(FeMul(FeSqr(p.x), p.x), 7 % P)
CurvePoints == {p \in [x : Fe, y : Fe] : OnCurve(p)}

\* The point with its y negated when it is odd: the representative {P, -P} the
\* walks with the negation map use.
FeNegate(a) == P - a
Canon(p) == IF FeIsOdd(p.y) THEN Affine(p.x, FeNegate(p.y)) ELSE p

\* What a routine answers in place of a point: no coordinates.
NoPoint == Affine(P, P)

\* Mutant: the root is not checked.
Decompress_NoCheck(c) ==
    LET y == FeSqrt[FeAdd(FeMul(FeSqr(c[2]), c[2]), 7 % P)]
    IN Affine(c[2], IF FeIsOdd(y) # c[1] THEN FeNegate(y) ELSE y)
\* The point with a compressed form, if its x is one of the curve.
Decompress(c) ==
    LET rhs == FeAdd(FeMul(FeSqr(c[2]), c[2]), 7 % P)
        y == FeSqrt[rhs]
    IN IF FeSqr(y) # rhs THEN NoPoint
       ELSE Affine(c[2], IF FeIsOdd(y) # c[1] THEN FeNegate(y) ELSE y)

\* A Jacobian point stands for (X/Z^2, Y/Z^3); Z = 0 is the point at infinity.
Jac(x, y, z) == [X |-> x, Y |-> y, Z |-> z]
JInfinity == Jac(1, 1, 0)
IsInfinity(j) == j.Z = 0
ToJacobian(p) == Jac(p.x, p.y, 1)

JDouble(j) ==
    IF j.Y = 0 \/ IsInfinity(j) THEN JInfinity
    ELSE LET A == FeSqr(j.X)
             C == FeSqr(FeSqr(j.Y))
             D == FeMul(2, FeSqr(FeAdd(j.X, FeSqr(j.Y))) - A - C)
             E == FeMul(3, A)
             X3 == FeSub(FeSqr(E), 2 * D)
         IN Jac(X3, FeSub(E * FeSub(D, X3), 8 * C), FeMul(2, j.Y * j.Z))

\* The general addition, with its branches for infinity, P = -Q and P = Q.
JAdd(j, k) ==
    LET ZZ1 == FeSqr(j.Z)
        ZZ2 == FeSqr(k.Z)
        U1 == FeMul(j.X, ZZ2)
        U2 == FeMul(k.X, ZZ1)
        S1 == FeMul(j.Y, FeMul(k.Z, ZZ2))
        S2 == FeMul(k.Y, FeMul(j.Z, ZZ1))
        H == FeSub(U2, U1)
        I == FeSqr(2 * H)
        R == FeMul(2, S2 - S1)
        V == FeMul(U1, I)
        X3 == FeSub(FeSqr(R), FeMul(H, I) + 2 * V)
        Y3 == FeSub(FeMul(R, V - X3), 2 * FeMul(S1, FeMul(H, I)))
        Z3 == FeMul(FeSqr(j.Z + k.Z) - ZZ1 - ZZ2, H)
    IN CASE IsInfinity(j) -> k
         [] IsInfinity(k) /\ ~IsInfinity(j) -> j
         [] ~IsInfinity(j) /\ ~IsInfinity(k) /\ U1 = U2 ->
                IF S1 = S2 THEN JDouble(j) ELSE JInfinity
         [] OTHER -> Jac(X3, Y3, Z3)

\* Mutant: y is divided by Z^2.
JToAffine_SquareOnly(j) ==
    LET zz == FeSqr(FeInv[j.Z])
    IN IF IsInfinity(j) THEN Sentinel ELSE Affine(FeMul(j.X, zz), FeMul(j.Y, zz))
JToAffine(j) ==
    IF IsInfinity(j) THEN Sentinel
    ELSE LET zinv == FeInv[j.Z]
         IN Affine(FeMul(j.X, FeSqr(zinv)), FeMul(j.Y, FeMul(FeSqr(zinv), zinv)))

\* Double-and-add from the highest bit of the scalar: k \div 2 is the scalar
\* whose bits have been consumed before the last one.
JMulG ==
    LET mul[k \in 0 .. 2 * N] ==
            IF k = 0 THEN JInfinity
            ELSE LET twice == JDouble(mul[k \div 2])
                 IN IF k % 2 = 1 THEN JAdd(twice, Jac(Gx, Gy, 1)) ELSE twice
    IN mul
\* k*G as an affine point; the sentinel when N divides k.
MulG == [k \in 0 .. 2 * N |-> JToAffine(JMulG[k])]

\* The prefix byte of the compressed form carries the parity of y.
Compressed(p) == <<FeIsOdd(p.y), p.x>>

---------------------------------------------------------------------------
Dx(p, q) == FeSub(q.x, p.x)

\* The affine addition p + q given 1/(q.x - p.x); meant for p # q, p # -q.
AffAddWithInv(p, q, inv) ==
    LET lam == FeMul(q.y - p.y, inv)
        x3 == FeSub(FeSqr(lam), p.x + q.x)
    IN Affine(x3, FeSub(FeMul(lam, p.x - x3), p.y))
\* The zero denominator: the Jacobian addition resolves p = q and p = -q.
AffAddFallback(p, q) == JToAffine(JAdd(ToJacobian(p), ToJacobian(q)))
\* One step of a walk that pays for an inverse of its own.
AffAdd(p, q) ==
    IF Dx(p, q) = 0 THEN AffAddFallback(p, q) ELSE AffAddWithInv(p, q, FeInv[Dx(p, q)])

\* Mutant: a zero denominator enters the product.
Factor_Zero(p, q) == Dx(p, q)
\* A lane's factor in the product of the batch: 1 stands in for zero.
Factor(p, q) == IF Dx(p, q) = 0 THEN 1 ELSE Dx(p, q)
\* Montgomery's trick, as the batched walks do it: lane i adds qs[i] to ps[i].
\* pre[i] is the product of the factors of lanes 1 .. i, and u[i], which the
\* pass downwards computes, its inverse.
BatchAdd(ps, qs) ==
    LET n == Len(ps)
        pre[i \in 0 .. n] == IF i = 0 THEN 1 ELSE FeMul(pre[i - 1], Factor(ps[i], qs[i]))
        u[i \in 0 .. n] ==
            IF i = n THEN FeInv[pre[n]] ELSE FeMul(u[i + 1], Factor(ps[i + 1], qs[i + 1]))
    IN [i \in 1 .. n |->
            IF Dx(ps[i], qs[i]) = 0 THEN AffAddFallback(ps[i], qs[i])
            ELSE AffAddWithInv(ps[i], qs[i], FeMul(u[i], pre[i - 1]))]

---------------------------------------------------------------------------
\* What the formulas owe to the theory of elliptic curves: over this field
\* they add multiples of G as Z_N adds, a point is never the sentinel, its
\* negative has the other parity, and no third point has its x.
SumIs(j, k) == JToAffine(j) = MulG[k % N] /\ (IsInfinity(j) <=> k % N = 0)
GroupLaws ==
    /\ MulG[0] = Sentinel
    /\ \A k \in 1 .. N - 1 : MulG[k] \in CurvePoints \ {Sentinel}
    /\ \A j, k \in 1 .. N - 1 :
          /\ AffAdd(MulG[j], MulG[k]) = MulG[(j + k) % N]
          /\ AffAddFallback(MulG[j], MulG[k]) = MulG[(j + k) % N]
          /\ MulG[j].x = MulG[k].x => k = j \/ k = N - j
    /\ \A j \in 1 .. N - 1, k \in 1 .. N :
          SumIs(JAdd(ToJacobian(Decompress(Compressed(MulG[j]))), JMulG[k]), j + k)
    /\ \A k \in 1 .. N - 1 :
          /\ FeIsOdd(MulG[k].y) => Canon(MulG[k]) = MulG[N - k]
          /\ FeIsOdd(MulG[N - k].y) <=> ~FeIsOdd(MulG[k].y)

=============================================================================
