------------------------------- MODULE ShorToy -------------------------------
(***************************************************************************)
(* research/quantum-toy/shor_toy_ecdlp.py: the discrete logarithm on a     *)
(* curve of eight points by Shor's algorithm.  Its classical half is       *)
(* modelled: the curve's arithmetic, the oracle's table and permutation,   *)
(* and the reading of the measured pairs.  The circuit and its simulator   *)
(* are a library's: what they can measure is the lattice dual to the       *)
(* periods of the table.                                                   *)
(*                                                                         *)
(* A point is a pair <<x, y>>, and <<>> is None, the point at infinity.    *)
(***************************************************************************)
EXTENDS Integers, Sequences, FiniteSets

ToyInf == <<>>

\* The triples that Curve() accepts.
Curve(p, ca, cb) == [p |-> p, a |-> ca, b |-> cb]
NonSingular(cv) == (4 * cv.a * cv.a * cv.a + 27 * cv.b * cv.b) % cv.p # 0

\* The extended Euclid of _inv_mod, for x not divisible by p: remainders g and
\* r, and their coefficients s and t.
InvMod(x, p) ==
    LET coef == -p .. p
        euclid[g \in 1 .. p, r \in 0 .. p, s \in coef, t \in coef] ==
            IF r = 0 THEN s % p ELSE euclid[r, g % r, t, s - (g \div r) * t]
    IN euclid[p, x % p, 0, 1]

EcAdd(p, q, cv) ==
    LET slope == IF p = q THEN (3 * p[1] * p[1] + cv.a) * InvMod(2 * p[2], cv.p)
                          ELSE (q[2] - p[2]) * InvMod(q[1] - p[1], cv.p)
        x3 == (slope * slope - p[1] - q[1]) % cv.p
    IN CASE p = ToyInf -> q
         [] q = ToyInf -> p
         [] p # ToyInf /\ q # ToyInf /\ p[1] = q[1] /\ (p[2] + q[2]) % cv.p = 0 -> ToyInf
         [] OTHER -> <<x3, (slope * (p[1] - x3) - p[2]) % cv.p>>

EcNegate(p, cv) == IF p = ToyInf THEN ToyInf ELSE <<p[1], (-p[2]) % cv.p>>

\* Double-and-add from the lowest bit; -k times P is k times -P.
EcMul(k, p, cv) ==
    LET pts == {ToyInf} \union ((0 .. cv.p - 1) \X (0 .. cv.p - 1))
        size == IF k < 0 THEN -k ELSE k
        ladder[j \in 0 .. size, acc \in pts, addend \in pts] ==
            IF j = 0 THEN acc
            ELSE ladder[j \div 2, IF j % 2 = 1 THEN EcAdd(acc, addend, cv) ELSE acc,
                        EcAdd(addend, addend, cv)]
    IN ladder[size, ToyInf, IF k < 0 THEN EcNegate(p, cv) ELSE p]

\* The loop of point_order: n counts while the multiple is not infinity.
PointOrder(p, cv) ==
    LET count[n \in 1 .. 2 * cv.p + 2, m \in {ToyInf} \union ((0 .. cv.p - 1) \X (0 .. cv.p - 1))] ==
            IF m = ToyInf THEN n ELSE count[n + 1, EcAdd(m, p, cv)]
    IN count[1, p]

---------------------------------------------------------------------------
\* make_default_instance.  The order is 8, as its assertion wants, and so a
\* power of two; d_true outside 1 .. r - 1 is refused.
ToyCurve == Curve(5, 4, 1)
ToyBase == <<0, 1>>
ToyOrder == PointOrder(ToyBase, ToyCurve)
Indices == 0 .. ToyOrder - 1
Targets == [dTrue \in 1 .. ToyOrder - 1 |-> EcMul(dTrue, ToyBase, ToyCurve)]

\* f(a, b), the index of a*P + b*Q among the multiples of P.
GroupActionTable ==
    LET indexOf(pt) == CHOOSE k \in Indices : EcMul(k, ToyBase, ToyCurve) = pt
    IN [dTrue \in DOMAIN Targets |->
            [av \in Indices, bv \in Indices |->
                indexOf(EcAdd(EcMul(av, ToyBase, ToyCurve),
                              EcMul(bv, Targets[dTrue], ToyCurve), ToyCurve))]]

\* The oracle's permutation of the basis states of three registers.
Xor[x, y \in Nat] ==
    IF x = 0 THEN y ELSE 2 * Xor[x \div 2, y \div 2] + ((x + y) % 2)
Encode(av, bv, ov) == av + bv * ToyOrder + ov * ToyOrder * ToyOrder
OracleImage(dTrue, av, bv, ov) == Encode(av, bv, Xor[ov, GroupActionTable[dTrue][av, bv]])

\* Circuit and simulator: after the oracle and the transforms every measured
\* <<y_a, y_b>> is orthogonal to all periods of the table.
Periods(f) ==
    {d \in Indices \X Indices : \A av, bv \in Indices :
        f[(av + d[1]) % ToyOrder, (bv + d[2]) % ToyOrder] = f[av, bv]}
Peaks == [dTrue \in DOMAIN Targets |->
    LET periods == Periods(GroupActionTable[dTrue])
    IN {y \in Indices \X Indices :
            \A per \in periods : (y[1] * per[1] + y[2] * per[2]) % ToyOrder = 0}]

\* Mutant: the registers are read in the order of their declaration.
Votes_Swapped(shots) ==
    LET valid == {s \in shots : s[1] % 2 = 1}
    IN {(s[2] * InvMod(s[1], ToyOrder)) % ToyOrder : s \in valid}
\* recover_d: the candidates that get a vote.  A shot prints as "<mb> <ma>", and
\* votes when its y_a is invertible modulo r: odd, r being a power of two.
Votes(shots) ==
    LET valid == {s \in shots : s[2] % 2 = 1}
    IN {(s[1] * InvMod(s[2], ToyOrder)) % ToyOrder : s \in valid}

\* solve_ecdlp_toy on one outcome of the simulator: a candidate with most votes
\* and the check of the curve, or RuntimeError when there is no vote.
NoAnswer == [d |-> 0, ok |-> FALSE]
ToyAnswers(dTrue, shots) ==
    IF Votes(shots) = {} THEN {NoAnswer}
    ELSE {[d |-> dRec, ok |-> EcMul(dRec, ToyBase, ToyCurve) = Targets[dTrue]] :
            dRec \in Votes(shots)}

=============================================================================
