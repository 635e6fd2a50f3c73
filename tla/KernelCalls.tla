---------------------------- MODULE KernelCalls -----------------------------
(***************************************************************************)
(* Calls of the kernels' routines: field arithmetic on limbs               *)
(* (FieldLimbs), the group law in Jacobian form, decompression and the     *)
(* batched walk of secp256k1_fast.cu (SmallCurve), each against what       *)
(* the routine is for.  A behaviour is one call; `call` is the routine and *)
(* its operands, `out` what it returns.                                    *)
(***************************************************************************)
EXTENDS FieldLimbs, SmallCurve

CONSTANTS Scales,   \* the Z coordinates a point is represented with
          Batch,    \* BATCH
          Steps     \* batches a thread walks

ASSUME CallAssumption ==
    /\ Scales \subseteq 1 .. P - 1
    /\ Batch \in Nat \ {0} /\ Steps \in Nat \ {0}
    /\ Batch < N
\* No point of the curve is on an axis: 7 is no square and -7 no cube.
ASSUME AxesAssumption == \A p \in CurvePoints : p.x # 0 /\ p.y # 0

VARIABLES call, out
vars == <<call, out>>

---------------------------------------------------------------------------
\* table[j] = j*G, by repeated Jacobian addition.
MulTable ==
    LET acc[j \in 1 .. Batch] ==
            IF j = 1 THEN Jac(Gx, Gy, 1) ELSE JAdd(acc[j - 1], Jac(Gx, Gy, 1))
    IN [j \in 1 .. Batch |-> JToAffine(acc[j])]

\* affine_step: the Batch points after base.
AffineStep(base) == BatchAdd([i \in 1 .. Batch |-> base], MulTable)

\* walk_thread: the point in every slot; each batch starts at the last point of
\* the one before.
WalkPoints(seed) ==
    LET lanes[s \in 1 .. Steps] ==
            AffineStep(IF s = 1 THEN seed ELSE lanes[s - 1][Batch])
    IN [ki \in 0 .. (Steps * Batch) |->
            IF ki = 0 THEN seed
            ELSE lanes[((ki - 1) \div Batch) + 1][((ki - 1) % Batch) + 1]]

\* affine_hash160_negmap: the encoding of P and, with the prefix flipped, of -P.
BothEncodings(p) == <<Compressed(p), <<~FeIsOdd(p.y), p.x>>>>

---------------------------------------------------------------------------
Init == call = [op |-> "none"] /\ out = 0

FieldOp(op, a, b, r) ==
    /\ call' = [op |-> op, a |-> a, b |-> b]
    /\ out' = r
FieldCall == \E a, b \in Residue :
    \/ FieldOp("add", a, b, LimbAdd(a, b))
    \/ FieldOp("sub", a, b, LimbSub(a, b))
    \/ FieldOp("mul", a, b, LimbMul(a, b))

\* The representatives of a point, and of the point at infinity.
Scaled(p, z) ==
    IF p = NoPoint THEN JInfinity
    ELSE Jac(FeMul(p.x, FeSqr(z)), FeMul(p.y, FeMul(z, FeSqr(z))), z)
AddCall == \E p, q \in CurvePoints \union {NoPoint}, y, z \in Scales :
    /\ call' = [op |-> "jpoint_add", p |-> p, q |-> q, y |-> y, z |-> z]
    /\ out' = LET sum == JAdd(Scaled(p, y), Scaled(q, z))
              IN IF IsInfinity(sum) THEN NoPoint ELSE JToAffine(sum)

\* decompress() of any x with either prefix.
DecompressCall == \E odd \in BOOLEAN, x \in Fe :
    /\ call' = [op |-> "decompress", odd |-> odd, x |-> x]
    /\ out' = Decompress(<<odd, x>>)

\* kfast_verify, with kseed_affine's start point.
WalkCall == \E start \in 1 .. N - 1 :
    /\ call' = [op |-> "walk", start |-> start]
    /\ out' = LET points == WalkPoints(MulG[start])
              IN [ki \in DOMAIN points |-> BothEncodings(points[ki])]

Next ==
    /\ call.op = "none"
    /\ FieldCall \/ AddCall \/ DecompressCall \/ WalkCall

Spec == Init /\ [][Next]_vars

---------------------------------------------------------------------------
\* The group law by chords and tangents, and the multiples of G by repeated
\* addition.
LineSlope(p, q) ==
    CHOOSE l \in Fe : IF p = q THEN FeMul(l, 2 * p.y) = FeMul(3, FeSqr(p.x))
                               ELSE FeMul(l, q.x - p.x) = FeSub(q.y, p.y)
ChordTangent(p, q) ==
    CASE p = NoPoint -> q
      [] q = NoPoint -> p
      [] p # NoPoint /\ q # NoPoint /\ p.x = q.x /\ FeAdd(p.y, q.y) = 0 -> NoPoint
      [] OTHER -> LET l == LineSlope(p, q)
                      x3 == FeSub(FeSqr(l), p.x + q.x)
                  IN Affine(x3, FeSub(FeMul(l, p.x - x3), p.y))
Multiples ==
    LET mul[k \in 0 .. N] ==
            IF k = 0 THEN NoPoint ELSE ChordTangent(mul[k - 1], Affine(Gx, Gy))
    IN mul

\* The theory the formulas rely on: chords and tangents add associatively, and
\* G has order N.
ASSUME GroupAssumption ==
    /\ \A p, q \in CurvePoints \union {NoPoint} :
          ChordTangent(ChordTangent(p, q), Affine(Gx, Gy))
              = ChordTangent(p, ChordTangent(q, Affine(Gx, Gy)))
    /\ \A k \in 0 .. N : Multiples[k] = NoPoint <=> k % N = 0

\* Sums and differences are the residues they should be.
SumsExact ==
    /\ call.op = "add" => out = (call.a + call.b) % Prime
    /\ call.op = "sub" => out = (call.a - call.b) % Prime

\* A product is a residue; it is the right one, or short of it by the one
\* Fold of a carry that was added at weight Base only.
ProductOrOneFoldShort ==
    call.op = "mul" =>
        /\ out \in Residue
        /\ (call.a * call.b - out) % Prime \in {0, Fold}

\* secp256k1_field.cuh:9 calls the routines the "BIT-EXACT correctness
\* reference"; a product is the residue it should be.
ProductExact == call.op = "mul" => out = (call.a * call.b) % Prime

\* jpoint_add is the group law whatever the Z coordinates of its operands: for
\* P = Q, P = -Q and the point at infinity too.
GroupLaw == call.op = "jpoint_add" => out = ChordTangent(call.p, call.q)

\* Decompression finds the one point with that x and parity, and refuses an x
\* that no point has.
DecompressRight ==
    call.op = "decompress" =>
        IF \E p \in CurvePoints : p.x = call.x
        THEN out \in CurvePoints /\ Compressed(out) = <<call.odd, call.x>>
        ELSE out = NoPoint

\* The start of every batch of the walk is a multiple of G other than infinity:
\* the only restriction on what follows.
WalkStaysFinite(start) == \A s \in 0 .. Steps - 1 : (start + s * Batch) % N # 0
\* Slot ki of a walk holds the encodings of the keys start + ki and their
\* mirrors, through doublings, inverse points and the end of the group, where
\* a slot for the point at infinity itself holds none.
WalkEmitsKeys ==
    call.op = "walk" /\ WalkStaysFinite(call.start) =>
        \A ki \in 0 .. Steps * Batch :
            LET k == (call.start + ki) % N
            IN k # 0 => out[ki] = <<Compressed(Multiples[k]), Compressed(Multiples[N - k])>>

=============================================================================
