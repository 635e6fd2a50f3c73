--------------------------- MODULE PureCalls_proofs ---------------------------
(***************************************************************************)
(* The routines without state of their own do what they are for.  Sums and *)
(* products on limbs are remainders and congruences.  The Jacobian         *)
(* formulas are chords and tangents by polynomial identities modulo P;     *)
(* inverses are powers by Fermat's theorem, which Numbers_proofs has.      *)
(* With the group's associativity (GroupAssumption) the table, the shared  *)
(* inverse of a batch and the walk give the multiples of G, and the scans, *)
(* which compare those with the key's, meet it.  The same facts give       *)
(* GroupLaws, which Kangaroo and KangarooRef assume.  Allocate's answer is *)
(* an arm of the largest index, and a worse arm has a smaller one.         *)
(***************************************************************************)
EXTENDS PureCalls, Numbers_proofs, SequenceTheorems

-----------------------------------------------------------------------------
(* A behaviour is one call.                                                *)

\* The routine a step calls is the one that its call names.
LEMMA WhichCall ==
    ASSUME [PureNext]_vars, vars' # vars
    PROVE  /\ call'.op \in {"add", "sub", "mul"} => FieldCall
           /\ call'.op = "jpoint_add" => AddCall
           /\ call'.op = "decompress" => DecompressCall
           /\ call'.op = "walk" => WalkCall
           /\ call'.op = "scan" => ScanCall
           /\ call'.op = "ref_scan" => RefScanCall
           /\ call'.op = "allocate" => AllocateCall
<1>1. \/ FieldCall \/ AddCall \/ DecompressCall \/ WalkCall
      \/ ScanCall \/ RefScanCall \/ AllocateCall \/ ToyMulCall \/ ToyCall
  BY DEF PureNext, Next
<1>2. FieldCall => call'.op \in {"add", "sub", "mul"}
  <2> SUFFICES ASSUME FieldCall PROVE call'.op \in {"add", "sub", "mul"}
    OBVIOUS
  <2>1. PICK a, b \in Residue :
          \/ FieldOp("add", a, b, LimbAdd(a, b))
          \/ FieldOp("sub", a, b, LimbSub(a, b))
          \/ FieldOp("mul", a, b, LimbMul(a, b))
    BY DEF FieldCall
  <2> QED BY <2>1 DEF FieldOp
<1>3. AddCall => call'.op = "jpoint_add"
  BY DEF AddCall
<1>4. DecompressCall => call'.op = "decompress"
  BY DEF DecompressCall
<1>5. WalkCall => call'.op = "walk"
  BY DEF WalkCall
<1>6. ScanCall => call'.op = "scan"
  BY DEF ScanCall
<1>7. RefScanCall => call'.op = "ref_scan"
  BY DEF RefScanCall
<1>8. AllocateCall => call'.op = "allocate"
  BY DEF AllocateCall
<1>9. ToyMulCall => call'.op = "ec_mul"
  BY DEF ToyMulCall
<1>10. ToyCall => call'.op = "toy"
  BY DEF ToyCall
<1> QED BY <1>1, <1>2, <1>3, <1>4, <1>5, <1>6, <1>7, <1>8, <1>9, <1>10

\* The sizes of the moduli.
LEMMA Sizes ==
    /\ Excess \in Nat \ {0} /\ Modulus \in Nat \ {0} /\ Prime \in Nat \ {0}
    /\ Modulus = Prime + Excess /\ Excess < Prime
<1>1. Excess \in Nat /\ Excess > 1 /\ Modulus \in Nat
  BY FieldAssumption DEF Excess
<1>2. 2 * Excess <= 2 * Excess * Excess
  BY <1>1
<1>3. 2 * Excess < Modulus
  BY <1>1, <1>2, FieldAssumption
<1> QED
  BY <1>1, <1>3 DEF Prime

\* fe_add returns the residue of the sum: the carry out of the top limb is
\* folded once, and a second carry never happens.
THEOREM LimbAddExact ==
    ASSUME NEW a \in Residue, NEW b \in Residue
    PROVE  LimbAdd(a, b) = (a + b) % Prime
<1> a \in Nat /\ b \in Nat /\ a < Prime /\ b < Prime
  BY Sizes DEF Residue
<1>1. (a + b) % Prime = IF a + b < Prime THEN a + b ELSE a + b - Prime
  <2> DEFINE s == a + b
  <2>1. s \in Int /\ -Prime <= s /\ 0 <= s /\ s < 2 * Prime /\ Prime \in Nat /\ Prime > 0
    BY Sizes
  <2>2. s % Prime = IF s < 0 THEN s + Prime ELSE IF s < Prime THEN s ELSE s - Prime
    <3> HIDE DEF s
    <3> QED
      BY <2>1, ModNear, Zenon
  <2> QED
    BY <2>1, <2>2
<1>2. CASE a + b >= Modulus
  <2>1. FoldCarry(a + b - Modulus) = a + b - Prime
    BY <1>2, Sizes DEF FoldCarry
  <2>2. a + b - Prime \in Nat /\ a + b - Prime < Prime
    BY <1>2, Sizes
  <2> QED
    BY <1>1, <1>2, <2>1, <2>2, Sizes DEF LimbAdd, ReduceOnce
<1>3. CASE a + b < Modulus
  BY <1>1, <1>3, Sizes DEF LimbAdd, ReduceOnce
<1> QED
  BY <1>2, <1>3, Sizes

\* fe_sub returns the residue of the difference: adding p back after a borrow
\* wraps round the top limb.
THEOREM LimbSubExact ==
    ASSUME NEW a \in Residue, NEW b \in Residue
    PROVE  LimbSub(a, b) = (a - b) % Prime
<1> a \in Nat /\ b \in Nat /\ a < Prime /\ b < Prime
  BY Sizes DEF Residue
<1>1. (a - b) % Prime = IF a < b THEN a - b + Prime ELSE a - b
  <2>1. a - b \in Int /\ -Prime <= a - b /\ a - b < Prime /\ a - b < 2 * Prime
    BY Sizes
  <2>2. (a - b) % Prime = IF a - b < 0 THEN a - b + Prime
                          ELSE IF a - b < Prime THEN a - b ELSE a - b - Prime
    BY <2>1, ModNear, Sizes
  <2> QED
    BY <2>1, <2>2, Sizes
<1>2. CASE a < b
  <2>1. a - b + Modulus + Prime \in Int /\ Modulus <= a - b + Modulus + Prime
        /\ a - b + Modulus + Prime < 2 * Modulus
    BY <1>2, Sizes
  <2>2. (a - b + Modulus + Prime) % Modulus = a - b + Prime
    <3> DEFINE c == a - b + Modulus + Prime
    <3>1. c \in Int /\ -Modulus <= c /\ c < 2 * Modulus /\ Modulus \in Nat /\ Modulus > 0
      BY <2>1, Sizes
    <3>2. c % Modulus = IF c < 0 THEN c + Modulus ELSE IF c < Modulus THEN c ELSE c - Modulus
      <4> HIDE DEF c
      <4> QED
        BY <3>1, ModNear, Zenon
    <3>3. c % Modulus = c - Modulus
      BY <2>1, <3>2, Sizes
    <3> QED
      BY <3>3, Sizes
  <2> QED
    BY <1>1, <1>2, <2>2 DEF LimbSub
<1>3. CASE ~(a < b)
  BY <1>1, <1>3 DEF LimbSub
<1> QED
  BY <1>2, <1>3

\* No call of fe_add or fe_sub on residues returns anything but the residue of
\* the sum or the difference, whatever the other routines do.
THEOREM SumsAreExact == PureSpec => []SumsExact
<1>1. Init => SumsExact
  BY DEF Init, SumsExact
<1>2. SumsExact /\ [PureNext]_vars => SumsExact'
  <2> SUFFICES ASSUME SumsExact, [PureNext]_vars, call'.op \in {"add", "sub"} PROVE SumsExact'
    BY DEF SumsExact
  <2>1. CASE UNCHANGED vars
    BY <2>1 DEF vars, SumsExact
  <2>2. CASE vars' # vars
    <3>1. FieldCall
      BY <2>2, WhichCall
    <3>2. PICK a \in Residue, b \in Residue :
            \/ FieldOp("add", a, b, LimbAdd(a, b))
            \/ FieldOp("sub", a, b, LimbSub(a, b))
            \/ FieldOp("mul", a, b, LimbMul(a, b))
      BY <3>1 DEF FieldCall
    <3>3. CASE FieldOp("add", a, b, LimbAdd(a, b))
      <4>1. call'.op = "add" /\ call'.a = a /\ call'.b = b /\ out' = (a + b) % Prime
        BY <3>3, LimbAddExact DEF FieldOp
      <4> QED BY <4>1 DEF SumsExact
    <3>4. CASE FieldOp("sub", a, b, LimbSub(a, b))
      <4>1. call'.op = "sub" /\ call'.a = a /\ call'.b = b /\ out' = (a - b) % Prime
        BY <3>4, LimbSubExact DEF FieldOp
      <4> QED BY <4>1 DEF SumsExact
    <3>5. CASE FieldOp("mul", a, b, LimbMul(a, b))
      <4>1. call'.op = "mul"
        BY <3>5 DEF FieldOp
      <4> QED BY <4>1 DEF SumsExact
    <3> QED BY <3>2, <3>3, <3>4, <3>5
  <2> QED BY <2>1, <2>2 DEF vars
<1> QED BY <1>1, <1>2, PTL DEF PureSpec

-----------------------------------------------------------------------------
(* Products.                                                               *)

\* A number m * q + r is congruent to q * Excess + r: what each pass of the
\* fold relies on.
LEMMA FoldOnce ==
    ASSUME NEW q \in Nat, NEW r \in Nat
    PROVE  (Modulus * q + r) - (r + q * Excess) = q * Prime
<1>1. Modulus = Prime + Excess /\ Prime \in Nat /\ Excess \in Nat
  BY Sizes
<1>2. (Prime + Excess) * q = Prime * q + Excess * q
  BY <1>1
<1> QED BY <1>1, <1>2

\* fe_fold512: the carries of its passes are 0 or 1, what is left fits the
\* limbs, and it is the number less a multiple of the prime, and less Fold
\* once for the carry of the first pass.
LEMMA FoldProductIs ==
    ASSUME NEW v \in Nat, v < Modulus * Prime
    PROVE  /\ FoldProduct(v) \in Residue
           /\ \E k \in Nat, c \in {0, 1} : v - FoldProduct(v) = Prime * k + c * Fold
<1>1. /\ Base \in Nat /\ Fold \in Nat /\ 0 < Fold /\ Fold < Base
      /\ Excess = Base + Fold /\ Excess \in Nat \ {0}
      /\ Modulus \in Nat \ {0} /\ Prime \in Nat \ {0}
      /\ Modulus = Prime + Excess /\ Excess < Prime
  BY Sizes, FieldAssumption DEF Excess
<1>2. PICK sq \in Nat : sq = Excess * Excess
  BY <1>1
<1>3. 2 * sq < Modulus /\ Excess <= sq
  <2>1. Excess >= 1
    BY <1>1
  <2>2. Excess * Excess >= Excess
    BY <1>1, <2>1
  <2>3. 2 * Excess * Excess = 2 * sq
    BY <1>1, <1>2
  <2> QED BY <1>1, <1>2, <2>2, <2>3, FieldAssumption
\* The first pass.
<1>4. PICK q, r : /\ q = v \div Modulus /\ r = v % Modulus
                  /\ q \in Nat /\ r \in 0 .. Modulus - 1 /\ v = Modulus * q + r
  <2>1. /\ v \div Modulus \in Nat /\ v % Modulus \in 0 .. Modulus - 1
        /\ v = Modulus * (v \div Modulus) + (v % Modulus)
    BY <1>1, DivMod
  <2> QED BY <2>1
<1>4a. q \in Nat /\ r \in Nat
  BY <1>1, <1>4
<1>4b. v = Modulus * q + r
  BY <1>4
<1>5. q < Prime
  <2>1. Modulus * q < Modulus * Prime
    BY <1>1, <1>4
  <2>2. Modulus * (q - Prime) < 0
    BY <1>1, <1>4, <2>1
  <2>3. q > Prime => Modulus * (q - Prime) >= Modulus
    BY <1>1, <1>4, Multiple
  <2> QED BY <1>1, <1>4, <2>1, <2>2, <2>3
<1>6. PICK first \in Nat : first = r + q * Excess
  BY <1>1, <1>4
<1>7. v - first = q * Prime
  <2>1. r \in Nat
    BY <1>1, <1>4
  <2>2. (Modulus * q + r) - (r + q * Excess) = q * Prime
    BY <1>4, <2>1, FoldOnce
  <2> QED BY <1>4, <1>6, <2>2
<1>8. PICK e, f : /\ e = first \div Modulus /\ f = first % Modulus
                  /\ e \in Nat /\ f \in 0 .. Modulus - 1 /\ first = Modulus * e + f
  <2>1. /\ first \div Modulus \in Nat /\ first % Modulus \in 0 .. Modulus - 1
        /\ first = Modulus * (first \div Modulus) + (first % Modulus)
    BY <1>1, DivMod
  <2> QED BY <2>1
<1>8a. e \in Nat /\ f \in Nat /\ f < Modulus
  BY <1>1, <1>8
<1>8b. first = Modulus * e + f
  BY <1>8
<1>9. e <= Excess
  <2>1. q * Excess <= Modulus * Excess
    <3>1. q <= Modulus
      BY <1>1, <1>4a, <1>5
    <3> QED BY <1>1, <1>4a, <3>1, TimesLeq
  <2>2. Modulus * e < Modulus + Modulus * Excess
    BY <1>1, <1>4, <1>6, <1>8a, <1>8b, <2>1
  <2>3. Modulus * (e - Excess) < Modulus
    BY <1>1, <1>8a, <2>2
  <2>4. e - Excess > 0 => Modulus * (e - Excess) >= Modulus
    BY <1>1, <1>8a, Multiple
  <2> QED BY <1>1, <1>8a, <2>3, <2>4
\* The bits above Modulus, at the weight of Fold.
<1>10. PICK ef \in Nat : ef = e * Fold
  BY <1>1, <1>8a
<1>11. ef <= sq
  <2>1. e * Fold <= Excess * Fold
    BY <1>1, <1>8a, <1>9
  <2>2. Excess * Fold <= Excess * Excess
    BY <1>1
  <2> QED BY <1>1, <1>2, <1>8a, <1>10, <2>1, <2>2
<1>12. PICK low \in Nat : low = f + ef
  BY <1>8a
<1>13. PICK c \in {0, 1}, l \in 0 .. Modulus - 1 :
          /\ c = low \div Modulus /\ l = low % Modulus /\ l = low - c * Modulus
          /\ c = 1 => l < sq
  <2>1. low < 2 * Modulus
    BY <1>1, <1>3, <1>8a, <1>11, <1>12
  <2>2. CASE low < Modulus
    <3>1. low = Modulus * 0 + low /\ low \in 0 .. Modulus - 1
      BY <1>1, <2>2
    <3>2. low \div Modulus = 0 /\ low % Modulus = low
      BY <1>1, <3>1, Quotient
    <3> QED BY <1>1, <3>1, <3>2
  <2>3. CASE low >= Modulus
    <3>1. low = Modulus * 1 + (low - Modulus) /\ low - Modulus \in 0 .. Modulus - 1
      BY <1>1, <2>1, <2>3
    <3>2. low \div Modulus = 1 /\ low % Modulus = low - Modulus
      BY <1>1, <3>1, Quotient
    <3>3. low - Modulus < sq
      BY <1>1, <1>8a, <1>11, <1>12
    <3> QED BY <1>1, <3>1, <3>2, <3>3
  <2> QED BY <1>1, <2>2, <2>3
<1>13a. /\ c \in {0, 1} /\ l \in Nat /\ l < Modulus
        /\ c = 0 => l = low
        /\ c = 1 => l = low - Modulus /\ l < sq
  BY <1>1, <1>12, <1>13
\* And at the weight of Base.
<1>14. PICK eb \in Nat : eb = (e + c) * Base
  <2>1. e + c \in Nat
    BY <1>8a, <1>13a
  <2> QED BY <1>1, <2>1
<1>15. eb < sq
  <2>1. (e + c) * Base <= (Excess + 1) * Base
    BY <1>1, <1>8a, <1>9
  <2>2. (Excess + 1) * Base <= (Excess + 1) * (Excess - 1)
    BY <1>1
  <2>3. (Excess + 1) * (Excess - 1) = Excess * Excess - 1
    BY <1>1
  <2> QED BY <1>1, <1>2, <1>8a, <1>14, <2>1, <2>2, <2>3
<1>16. PICK high \in Nat : high = l + eb
  BY <1>13a, <1>14
<1>17. PICK c2 \in {0, 1}, h \in 0 .. Modulus - 1 :
          /\ c2 = high \div Modulus /\ h = high % Modulus /\ h = high - c2 * Modulus
          /\ c2 = 1 => h < sq
  <2>1. high < 2 * Modulus
    BY <1>1, <1>3, <1>13a, <1>15, <1>16
  <2>2. CASE high < Modulus
    <3>1. high = Modulus * 0 + high /\ high \in 0 .. Modulus - 1
      BY <1>1, <2>2
    <3>2. high \div Modulus = 0 /\ high % Modulus = high
      BY <1>1, <3>1, Quotient
    <3> QED BY <1>1, <3>1, <3>2
  <2>3. CASE high >= Modulus
    <3>1. high = Modulus * 1 + (high - Modulus) /\ high - Modulus \in 0 .. Modulus - 1
      BY <1>1, <2>1, <2>3
    <3>2. high \div Modulus = 1 /\ high % Modulus = high - Modulus
      BY <1>1, <3>1, Quotient
    <3>3. high - Modulus < sq
      BY <1>1, <1>13a, <1>15, <1>16
    <3> QED BY <1>1, <3>1, <3>2, <3>3
  <2> QED BY <1>1, <2>2, <2>3
<1>17a. /\ c2 \in {0, 1} /\ h \in Nat /\ h < Modulus
        /\ c2 = 0 => h = high
        /\ c2 = 1 => h = high - Modulus /\ h < sq
  BY <1>1, <1>16, <1>17
<1>18. PICK t \in 0 .. Modulus - 1 : t = h + c2 * Excess
  BY <1>1, <1>3, <1>17a
<1>19. (h + c2 * Excess) % Modulus = t
  <2>1. t = Modulus * 0 + t
    BY <1>1
  <2> QED BY <1>1, <1>18, <2>1, Quotient
<1>20. FoldProduct(v) = ReduceOnce(ReduceOnce(ReduceOnce(t)))
  BY <1>4, <1>6, <1>8, <1>10, <1>12, <1>13, <1>14, <1>16, <1>17, <1>19 DEF FoldProduct
<1>21. PICK d \in {0, 1} : FoldProduct(v) = t - d * Prime /\ t - d * Prime \in 0 .. Prime - 1
  <2>1. CASE t < Prime
    BY <1>1, <1>20, <2>1 DEF ReduceOnce
  <2>2. CASE t >= Prime
    <3>1. ReduceOnce(t) = t - Prime /\ t - Prime \in 0 .. Prime - 1
      BY <1>1, <2>2 DEF ReduceOnce
    <3>2. ReduceOnce(t - Prime) = t - Prime
      BY <1>1, <3>1 DEF ReduceOnce
    <3> QED BY <1>1, <1>20, <3>1, <3>2
  <2> QED BY <1>1, <2>1, <2>2
\* The sum of what the passes took away.
<1>22. v - t = (q + e + c + c2) * Prime + c * Fold
  <2>1. PICK pe \in Nat, ee \in Nat : pe = Prime * e /\ ee = Excess * e /\ Modulus * e = pe + ee
    <3>1. (Prime + Excess) * e = Prime * e + Excess * e
      BY <1>1, <1>8a, Distribute
    <3>2. Prime * e \in Nat /\ Excess * e \in Nat
      BY <1>1, <1>8a
    <3> QED BY <1>1, <3>1, <3>2
  <2>2. PICK be \in Nat : be = Base * e /\ ee = be + ef /\ (e + c) * Base = be + c * Base
    <3>1. (Base + Fold) * e = Base * e + Fold * e
      BY <1>1, <1>8a, Distribute
    <3>2. (e + c) * Base = e * Base + c * Base
      BY <1>1, <1>8a, <1>13a, Distribute
    <3>3. ef = Fold * e /\ e * Base = Base * e
      BY <1>1, <1>8a, <1>10, Commute
    <3>4. Base * e \in Nat
      BY <1>1, <1>8a
    <3> QED BY <1>1, <2>1, <3>1, <3>2, <3>3, <3>4
  <2>3. PICK qp \in Nat : qp = q * Prime
    <3>1. q * Prime \in Nat
      BY <1>1, <1>4a
    <3> QED BY <3>1
  <2>4. (q + e + c + c2) * Prime = qp + pe + c * Prime + c2 * Prime
    <3>1. (q + e + c + c2) * Prime = (q + e + c) * Prime + c2 * Prime
      BY <1>1, <1>4a, <1>8a, <1>13a, <1>17a, Distribute
    <3>2. (q + e + c) * Prime = (q + e) * Prime + c * Prime
      BY <1>1, <1>4a, <1>8a, <1>13a, Distribute
    <3>3. (q + e) * Prime = q * Prime + e * Prime
      BY <1>1, <1>4a, <1>8a, Distribute
    <3>4. e * Prime = pe
      BY <1>1, <1>8a, <2>1, Commute
    <3> QED BY <2>3, <3>1, <3>2, <3>3, <3>4
  <2>5. v = first + qp /\ first = pe + ee + f
    BY <1>4a, <1>7, <1>8a, <1>8b, <2>1, <2>3
  <2>6. eb = be + c * Base /\ low = f + ef /\ high = l + eb
    BY <1>12, <1>14, <1>16, <2>2
  <2>7. /\ c = 0 => l = low /\ eb = be
        /\ c = 1 => l = low - Modulus /\ eb = be + Base
    <3>1. c = 0 => c * Modulus = 0 /\ c * Base = 0
      BY <1>1
    <3>2. c = 1 => c * Modulus = Modulus /\ c * Base = Base
      BY <1>1
    <3> QED BY <1>1, <1>12, <1>13a, <2>2, <2>6, <3>1, <3>2
  <2>8. /\ c2 = 0 => t = high
        /\ c2 = 1 => t = high - Modulus + Excess
    BY <1>1, <1>16, <1>17a, <1>18
  <2>9. v - t = qp + pe + c * Prime + c2 * Prime + c * Fold
    <3>1. CASE c = 0 /\ c2 = 0
      BY <1>1, <1>8a, <1>16, <1>18, <2>2, <2>5, <2>6, <2>7, <2>8, <3>1
    <3>2. CASE c = 0 /\ c2 = 1
      BY <1>1, <1>8a, <1>16, <1>18, <2>2, <2>5, <2>6, <2>7, <2>8, <3>2
    <3>3. CASE c = 1 /\ c2 = 0
      BY <1>1, <1>8a, <1>16, <1>18, <2>2, <2>5, <2>6, <2>7, <2>8, <3>3
    <3>4. CASE c = 1 /\ c2 = 1
      BY <1>1, <1>8a, <1>16, <1>18, <2>2, <2>5, <2>6, <2>7, <2>8, <3>4
    <3> QED BY <1>13a, <1>17a, <3>1, <3>2, <3>3, <3>4
  <2> QED BY <2>4, <2>9
<1>23. PICK k \in Nat, k0 \in Nat : k0 = q + e + c + c2 /\ k = k0 + d
  <2>1. q + e + c + c2 \in Nat
    BY <1>4a, <1>8a, <1>13a, <1>17a
  <2>2. q + e + c + c2 + d \in Nat
    BY <1>21, <2>1
  <2> QED BY <2>1, <2>2
<1>24. v - FoldProduct(v) = Prime * k + c * Fold
  <2>1. Prime * (k0 + d) = k0 * Prime + d * Prime
    BY <1>1, <1>21, <1>23, Distribute, Commute
  <2>2. v - t = k0 * Prime + c * Fold
    BY <1>22, <1>23
  <2>3. PICK kp \in Nat, cf \in Nat, dp \in Nat : kp = k0 * Prime /\ cf = c * Fold /\ dp = d * Prime
    <3>1. k0 * Prime \in Nat /\ c * Fold \in Nat /\ d * Prime \in Nat
      BY <1>1, <1>13a, <1>21, <1>23
    <3> QED BY <3>1
  <2>4. Prime * (k0 + d) = kp + dp /\ v - t = kp + cf /\ FoldProduct(v) = t - dp
    BY <1>21, <2>1, <2>2, <2>3
  <2>5. v - FoldProduct(v) = (kp + dp) + cf
    BY <1>18, <2>4
  <2> QED BY <1>23, <2>3, <2>4, <2>5
<1> QED BY <1>13a, <1>21, <1>23, <1>24 DEF Residue

\* fe_mul returns a residue, the product's or one that is Fold short of it: no
\* carry of fe_fold512 is lost, and one is added at the wrong weight.
THEOREM LimbMulOneFoldShort ==
    ASSUME NEW a \in Residue, NEW b \in Residue
    PROVE  LimbMul(a, b) \in Residue /\ (a * b - LimbMul(a, b)) % Prime \in {0, Fold}
<1>1. /\ a \in Nat /\ b \in Nat /\ a < Prime /\ b < Prime
      /\ Prime \in Nat \ {0} /\ Modulus \in Nat /\ Prime <= Modulus
      /\ Fold \in Nat /\ Fold < Prime
  BY Sizes, FieldAssumption DEF Residue, Excess
<1>2. PICK v \in Nat : v = a * b
  BY <1>1
<1>3. v < Modulus * Prime
  <2>1. a * b <= Prime * b
    BY <1>1
  <2>2. Prime * b < Prime * Prime
    BY <1>1
  <2>3. Prime * Prime <= Modulus * Prime
    BY <1>1
  <2> QED BY <1>1, <1>2, <2>1, <2>2, <2>3
<1>4. PICK k \in Nat, c \in {0, 1} : v - FoldProduct(v) = Prime * k + c * Fold
  BY <1>3, FoldProductIs
<1>5. FoldProduct(v) \in Residue
  BY <1>3, FoldProductIs
<1>6. (v - FoldProduct(v)) % Prime = c * Fold
  <2>1. c * Fold \in 0 .. Prime - 1 /\ Prime * k + c * Fold \in Nat
    BY <1>1
  <2> QED BY <1>1, <1>4, <2>1, Quotient
<1> QED BY <1>1, <1>2, <1>5, <1>6 DEF LimbMul

\* No call of fe_mul on residues returns anything but the residue of the
\* product or, after the one carry, that of the product less Fold.
THEOREM ProductsAreClose == PureSpec => []ProductOrOneFoldShort
<1>1. Init => ProductOrOneFoldShort
  BY DEF Init, ProductOrOneFoldShort
<1>2. ProductOrOneFoldShort /\ [PureNext]_vars => ProductOrOneFoldShort'
  <2> SUFFICES ASSUME ProductOrOneFoldShort, [PureNext]_vars, call'.op = "mul"
               PROVE  ProductOrOneFoldShort'
    BY DEF ProductOrOneFoldShort
  <2>1. CASE UNCHANGED vars
    BY <2>1 DEF vars, ProductOrOneFoldShort
  <2>2. CASE vars' # vars
    <3>1. FieldCall
      BY <2>2, WhichCall
    <3>2. PICK a \in Residue, b \in Residue :
            \/ FieldOp("add", a, b, LimbAdd(a, b))
            \/ FieldOp("sub", a, b, LimbSub(a, b))
            \/ FieldOp("mul", a, b, LimbMul(a, b))
      BY <3>1 DEF FieldCall
    <3>3. call'.a = a /\ call'.b = b /\ out' = LimbMul(a, b)
      BY <2>2, <3>2 DEF FieldOp
    <3> QED BY <3>3, LimbMulOneFoldShort DEF ProductOrOneFoldShort
  <2> QED BY <2>1, <2>2 DEF vars
<1> QED BY <1>1, <1>2, PTL DEF PureSpec

-----------------------------------------------------------------------------
(* The field.                                                              *)

\* P is a prime, and the field its residues.
LEMMA FieldPrime == P \in Nat \ {0} /\ P > 2 /\ IsPrime(P) /\ Fe \subseteq Int
<1>1. 0 % 4 = 0 /\ 1 % 4 = 1 /\ 2 % 4 = 2
  BY ModSmall
<1>2. P # 0 /\ P # 1 /\ P # 2
  BY <1>1, CurveAssumption
<1>3. P \in Nat \ {0} /\ P > 2
  BY <1>2, CurveAssumption
<1> QED BY <1>3, CurveAssumption DEF IsPrime, Fe

\* Congruence modulo the prime of the field.
Cg(u, v) == Congruent(P, u, v)

\* Congruence modulo P is an equivalence.
LEMMA CgEquiv ==
    \A u, v, w \in Int : /\ Cg(u, u)
                         /\ Cg(u, v) => Cg(v, u)
                         /\ Cg(u, v) /\ Cg(v, w) => Cg(u, w)
BY FieldPrime, CongruentEquiv DEF Cg

\* Sums, differences and products of representatives.
LEMMA CgPlus == \A a, b, c, d \in Int : Cg(a, c) /\ Cg(b, d) => Cg(a + b, c + d)
BY FieldPrime, CongruentPlus DEF Cg

\* The same of differences.
LEMMA CgMinus == \A a, b, c, d \in Int : Cg(a, c) /\ Cg(b, d) => Cg(a - b, c - d)
BY FieldPrime, CongruentMinus DEF Cg

\* The same of products.
LEMMA CgTimes == \A a, b, c, d \in Int : Cg(a, c) /\ Cg(b, d) => Cg(a * b, c * d)
BY FieldPrime, CongruentTimes DEF Cg

\* Congruent elements of the field are equal.
LEMMA CgEqual == \A u, v \in Fe : Cg(u, v) => u = v
BY FieldPrime, CongruentEqual DEF Cg, Fe

\* The field has no divisors of zero.
LEMMA CgFactor == \A a, b \in Int : Cg(a * b, 0) => Cg(a, 0) \/ Cg(b, 0)
BY FieldPrime, PrimeFactor DEF Cg

\* What is not zero cancels.
LEMMA CgCancel == \A a, b, c \in Int : ~Cg(c, 0) /\ Cg(c * a, c * b) => Cg(a, b)
BY FieldPrime, PrimeCancel DEF Cg

\* An element that is not zero is not congruent to it.
LEMMA CgNotZero == \A u \in Fe : u # 0 => ~Cg(u, 0)
<1> SUFFICES ASSUME NEW u \in Fe, u # 0 PROVE ~Cg(u, 0)
  OBVIOUS
<1>1. u \in 1 .. P - 1
  BY FieldPrime DEF Fe
<1> QED BY <1>1, FieldPrime, NotZero DEF Cg

\* Every operation of the field is that of the integers modulo P.
LEMMA CgMod == \A u \in Int : u % P \in Fe /\ u % P \in Int /\ Cg(u % P, u) /\ Cg(u, u % P)
BY FieldPrime, CongruentMod DEF Cg, Fe

\* The field's operations compute in the field.
LEMMA FeOps ==
    \A a, b \in Int :
        /\ FeAdd(a, b) \in Fe /\ FeAdd(a, b) \in Int /\ Cg(FeAdd(a, b), a + b)
        /\ FeSub(a, b) \in Fe /\ FeSub(a, b) \in Int /\ Cg(FeSub(a, b), a - b)
        /\ FeMul(a, b) \in Fe /\ FeMul(a, b) \in Int /\ Cg(FeMul(a, b), a * b)
        /\ FeSqr(a) \in Fe /\ FeSqr(a) \in Int /\ Cg(FeSqr(a), a * a)
<1> SUFFICES ASSUME NEW a \in Int, NEW b \in Int
             PROVE  /\ (a + b) % P \in Fe /\ (a + b) % P \in Int /\ Cg((a + b) % P, a + b)
                    /\ (a - b) % P \in Fe /\ (a - b) % P \in Int /\ Cg((a - b) % P, a - b)
                    /\ (a * b) % P \in Fe /\ (a * b) % P \in Int /\ Cg((a * b) % P, a * b)
                    /\ (a * a) % P \in Fe /\ (a * a) % P \in Int /\ Cg((a * a) % P, a * a)
  BY DEF FeAdd, FeSub, FeMul, FeSqr
<1>1. PICK s, d, t, q \in Int : s = a + b /\ d = a - b /\ t = a * b /\ q = a * a
  OBVIOUS
<1>2. /\ s % P \in Fe /\ s % P \in Int /\ Cg(s % P, s)
      /\ d % P \in Fe /\ d % P \in Int /\ Cg(d % P, d)
      /\ t % P \in Fe /\ t % P \in Int /\ Cg(t % P, t)
      /\ q % P \in Fe /\ q % P \in Int /\ Cg(q % P, q)
  BY CgMod
<1> QED BY <1>1, <1>2

\* Square and multiply computes powers.
IsPow(f) ==
    f = [k \in 0 .. P |->
            [base \in Fe |->
                IF k = 0 THEN 1
                ELSE IF k % 2 = 1 THEN FeMul(f[k \div 2][FeSqr(base)], base)
                                  ELSE f[k \div 2][FeSqr(base)]]]

\* The half of an exponent, and its last bit.
LEMMA HalfOf ==
    ASSUME NEW k \in Nat, k > 0
    PROVE  /\ k \div 2 \in Nat /\ k \div 2 < k
           /\ k % 2 = 1 => k = 2 * (k \div 2) + 1
           /\ k % 2 # 1 => k = 2 * (k \div 2)
<1>1. k \div 2 \in Nat /\ k % 2 \in 0 .. 1 /\ k = 2 * (k \div 2) + (k % 2)
  BY DivMod
<1> QED BY <1>1

\* Powers by squaring.
LEMMA PowerSteps ==
    ASSUME NEW a \in Fe, NEW k \in Nat, k > 0
    PROVE  /\ Powers(P)[k][a] \in Fe /\ FeSqr(a) \in Fe
           /\ Powers(P)[k][a] =
                IF k % 2 = 1 THEN FeMul(Powers(P)[k \div 2][FeSqr(a)], a)
                             ELSE Powers(P)[k \div 2][FeSqr(a)]
<1>1. PICK h \in Nat : h = k \div 2
  BY HalfOf
<1>2. a \in 0 .. P - 1 /\ P \in Nat /\ P > 1
  BY FieldPrime DEF Fe
<1>3. (a * a) % P \in 0 .. P - 1 /\ Powers(P)[h][(a * a) % P] = Powers(P)[2 * h][a]
  BY <1>2, PowersSquare
<1>4. \A n \in Nat : /\ Powers(P)[n][a] \in 0 .. P - 1
                     /\ Powers(P)[n + 1][a] = (Powers(P)[n][a] * a) % P
  BY <1>2, PowersStep
<1>5. 2 * h \in Nat
  OBVIOUS
<1> QED BY <1>1, <1>2, <1>3, <1>4, <1>5, HalfOf DEF FeSqr, FeMul, Fe

\* FePow computes powers, for every base and exponent.
LEMMA PowIsPower ==
    ASSUME NEW a \in Fe, NEW e \in 0 .. P
    PROVE  FePow(a, e) = Powers(P)[e][a]
<1> DEFINE f == CHOOSE f : IsPow(f)
           p == [k \in 0 .. P |-> [base \in Fe |-> Powers(P)[k][base]]]
<1>0. P \in Nat
  BY FieldPrime
<1>1. IsPow(p)
  <2>1. ASSUME NEW k \in 0 .. P, NEW b \in Fe
        PROVE  Powers(P)[k][b] =
                 IF k = 0 THEN 1
                 ELSE IF k % 2 = 1 THEN FeMul(p[k \div 2][FeSqr(b)], b)
                                   ELSE p[k \div 2][FeSqr(b)]
    <3>1. CASE k = 0
      <4>1. b \in 0 .. P - 1 /\ P \in Nat /\ P > 1
        BY FieldPrime DEF Fe
      <4> QED BY <3>1, <4>1, PowersStep
    <3>2. CASE k # 0
      <4>1. k \in Nat /\ k > 0
        BY <1>0, <3>2
      <4>2. k \div 2 \in 0 .. P
        BY <1>0, <4>1, HalfOf
      <4>3. FeSqr(b) \in Fe
        BY <4>1, PowerSteps
      <4>4. p[k \div 2][FeSqr(b)] = Powers(P)[k \div 2][FeSqr(b)]
        BY <4>2, <4>3
      <4> HIDE DEF p
      <4> QED BY <3>2, <4>1, <4>4, PowerSteps
    <3> QED BY <3>1, <3>2
  <2>2. p = [k \in 0 .. P |->
            [base \in Fe |->
                IF k = 0 THEN 1
                ELSE IF k % 2 = 1 THEN FeMul(p[k \div 2][FeSqr(base)], base)
                                  ELSE p[k \div 2][FeSqr(base)]]]
    BY <2>1, Zenon
  <2> QED BY <2>2 DEF IsPow
<1>2. IsPow(f)
  <2> HIDE DEF p
  <2> QED BY <1>1
<1>3. FePow(a, e) = f[e][a]
  BY DEF FePow, IsPow
<1> HIDE DEF f, p
<1> DEFINE B == {n \in Nat : n <= P /\ \E b \in Fe : f[n][b] # Powers(P)[n][b]}
<1>4. B = {}
  <2> SUFFICES ASSUME B # {} PROVE FALSE
    OBVIOUS
  <2>1. PICK n \in B : \A j \in B : n <= j
    <3>1. B \subseteq Nat
      OBVIOUS
    <3> HIDE DEF B
    <3> QED BY <3>1, LeastExists
  <2>2. PICK b \in Fe : f[n][b] # Powers(P)[n][b]
    BY <2>1
  <2>3. n \in 0 .. P /\ n \in Nat
    BY <1>0, <2>1
  <2>4. f[n][b] = IF n = 0 THEN 1
                  ELSE IF n % 2 = 1 THEN FeMul(f[n \div 2][FeSqr(b)], b)
                                    ELSE f[n \div 2][FeSqr(b)]
    <3>1. f[n] = [base \in Fe |->
                    IF n = 0 THEN 1
                    ELSE IF n % 2 = 1 THEN FeMul(f[n \div 2][FeSqr(base)], base)
                                      ELSE f[n \div 2][FeSqr(base)]]
      BY <1>2, <2>3, Zenon DEF IsPow
    <3> QED BY <3>1, Zenon
  <2>5. n # 0
    <3>1. b \in 0 .. P - 1 /\ P \in Nat /\ P > 1
      BY FieldPrime DEF Fe
    <3>2. Powers(P)[0][b] = 1
      BY <3>1, PowersStep
    <3> QED BY <2>2, <2>4, <3>2
  <2>6. n \div 2 \in Nat /\ n \div 2 < n /\ FeSqr(b) \in Fe
    BY <2>3, <2>5, HalfOf, PowerSteps
  <2>7. f[n \div 2][FeSqr(b)] = Powers(P)[n \div 2][FeSqr(b)]
    <3>1. n \div 2 \notin B
      BY <2>1, <2>3, <2>6
    <3> QED BY <1>0, <2>3, <2>6, <3>1
  <2> QED BY <2>2, <2>3, <2>4, <2>5, <2>7, PowerSteps
<1> QED BY <1>0, <1>3, <1>4

\* Fermat's inverse is one: FeInv[a] * a = 1 for all a but 0.
LEMMA InverseRight ==
    \A a \in Fe : /\ FeInv[a] \in Fe /\ FeInv[a] \in Int
                  /\ a # 0 => Cg(FeInv[a] * a, 1)
<1> SUFFICES ASSUME NEW a \in Fe
             PROVE  /\ FeInv[a] \in Fe /\ FeInv[a] \in Int
                    /\ a # 0 => Cg(FeInv[a] * a, 1)
  OBVIOUS
<1>1. a \in 0 .. P - 1 /\ P \in Nat /\ P > 1 /\ P - 2 \in 0 .. P /\ P - 2 \in Nat
  BY FieldPrime DEF Fe
<1>2. FeInv[a] = Powers(P)[P - 2][a]
  BY <1>1, PowIsPower DEF FeInv
<1>3. /\ Powers(P)[P - 2][a] \in 0 .. P - 1
      /\ Powers(P)[(P - 2) + 1][a] = (Powers(P)[P - 2][a] * a) % P
  BY <1>1, PowersStep
<1>4. PICK u \in Fe : u = FeInv[a] /\ u \in Int
  BY <1>2, <1>3, FieldPrime DEF Fe
<1>5. ASSUME a # 0
      PROVE  Cg(u * a, 1)
  <2>1. a \in 1 .. P - 1
    BY <1>1, <1>5
  <2>2. Powers(P)[P - 1][a] = 1
    BY <2>1, FieldPrime, Fermat
  <2>3. (P - 2) + 1 = P - 1
    BY <1>1
  <2>4. (u * a) % P = 1
    BY <1>2, <1>3, <1>4, <2>2, <2>3
  <2>5. PICK ua \in Int : ua = u * a
    BY <1>1, <1>4
  <2>6. Cg(ua, ua % P)
    BY CgMod
  <2> QED BY <2>4, <2>5, <2>6
<1> QED BY <1>4, <1>5

\* The root by exponentiation: where there is a root, this is one.
LEMMA SqrtRight ==
    ASSUME NEW y \in Fe
    PROVE  /\ FeSqrt[FeSqr(y)] \in Fe
           /\ FeSqr(FeSqrt[FeSqr(y)]) = FeSqr(y)
<1>1. PICK q : q = FeSqr(y) /\ q \in Fe
  BY FeOps, FieldPrime
<1>2. PICK e \in Nat : e = (P + 1) \div 4 /\ P + 1 = 4 * e
  <2>1. PICK d \in Nat : d = P \div 4 /\ P = 4 * d + 3
    <3>1. P \div 4 \in Nat /\ P = 4 * (P \div 4) + (P % 4)
      BY FieldPrime, DivMod
    <3> QED BY <3>1, CurveAssumption
  <2>2. P + 1 = 4 * (d + 1) + 0 /\ P + 1 \in Nat /\ d + 1 \in Nat
    BY <2>1, FieldPrime
  <2>3. (P + 1) \div 4 = d + 1
    <3>1. 4 \in Nat \ {0} /\ 0 \in 0 .. 4 - 1
      OBVIOUS
    <3> QED BY <2>2, <3>1, Quotient
  <2> QED BY <2>2, <2>3
<1>3. e \in 0 .. P
  BY <1>2, FieldPrime
<1>4. FeSqrt[q] = Powers(P)[e][q]
  BY <1>1, <1>2, <1>3, PowIsPower DEF FeSqrt
<1>5. y \in 0 .. P - 1 /\ q \in 0 .. P - 1 /\ P \in Nat /\ P > 1
  BY <1>1, FieldPrime DEF Fe
<1>6. Powers(P)[e][q] \in 0 .. P - 1
  BY <1>5, PowersStep
<1>7. PICK r \in Fe : r = FeSqrt[q]
  BY <1>4, <1>6 DEF Fe
<1>8. (r * r) % P = Powers(P)[e + e][q]
  <2>1. Powers(P)[e + e][q] = (Powers(P)[e][q] * Powers(P)[e][q]) % P
    BY <1>5, PowersAdd
  <2> QED BY <1>4, <1>7, <2>1, Zenon
<1>9. Powers(P)[e + e][q] = Powers(P)[2 * (e + e)][y]
  <2>1. e + e \in Nat
    OBVIOUS
  <2> QED BY <1>1, <1>5, <2>1, PowersSquare DEF FeSqr, FeMul
<1>10. 2 * (e + e) = (P - 1) + 2 /\ P - 1 \in Nat
  BY <1>2, <1>5
<1>11. Powers(P)[(P - 1) + 2][y] = (Powers(P)[P - 1][y] * Powers(P)[2][y]) % P
  BY <1>5, <1>10, PowersAdd
<1>12. Powers(P)[2][y] = q
  <2>1. Powers(P)[1][q] = Powers(P)[2 * 1][y]
    BY <1>1, <1>5, PowersSquare DEF FeSqr, FeMul
  <2>2. Powers(P)[0 + 1][q] = (1 * q) % P
    <3>1. Powers(P)[0][q] = 1 /\ Powers(P)[0 + 1][q] = (Powers(P)[0][q] * q) % P
      <4>1. \A n \in Nat : Powers(P)[n + 1][q] = (Powers(P)[n][q] * q) % P
        BY <1>5, PowersStep
      <4>2. Powers(P)[0][q] = 1
        BY <1>5, PowersStep
      <4> QED BY <4>1, <4>2
    <3> QED BY <3>1
  <2>3. 1 * q = q /\ q % P = q
    BY <1>5, ModSmall
  <2> QED BY <2>1, <2>2, <2>3
<1>13. (r * r) % P = q
  <2>1. CASE y = 0
    <3>1. 0 * 0 = 0 /\ 0 % P = 0
      BY <1>5, ModSmall
    <3>2. q = 0
      BY <1>1, <2>1, <3>1 DEF FeSqr, FeMul
    <3>3. PICK z \in Int : z = Powers(P)[P - 1][y]
      <4>1. Powers(P)[P - 1][y] \in 0 .. P - 1
        BY <1>5, <1>10, PowersStep
      <4> QED BY <1>5, <4>1
    <3>4. z * 0 = 0
      OBVIOUS
    <3> QED BY <1>8, <1>9, <1>10, <1>11, <1>12, <3>1, <3>2, <3>3, <3>4
  <2>2. CASE y # 0
    <3>1. y \in 1 .. P - 1
      BY <1>5, <2>2
    <3>2. Powers(P)[P - 1][y] = 1
      BY <3>1, FieldPrime, Fermat
    <3>3. 1 * q = q /\ q % P = q
      BY <1>5, ModSmall
    <3> QED BY <1>8, <1>9, <1>10, <1>11, <1>12, <3>2, <3>3
  <2> QED BY <2>1, <2>2
<1> QED BY <1>1, <1>7, <1>13 DEF FeSqr, FeMul

-----------------------------------------------------------------------------
(* Jacobian formulas against chords and tangents.                          *)

\* The field's operations on representatives.
LEMMA FeCg ==
    \A a, b, c, d \in Int :
        /\ Cg(a, c) /\ Cg(b, d) => /\ Cg(FeAdd(a, b), c + d)
                                   /\ Cg(FeSub(a, b), c - d)
                                   /\ Cg(FeMul(a, b), c * d)
        /\ Cg(a, c) => Cg(FeSqr(a), c * c)
<1> SUFFICES ASSUME NEW a \in Int, NEW b \in Int, NEW c \in Int, NEW d \in Int, Cg(a, c)
             PROVE  /\ Cg(b, d) => /\ Cg(FeAdd(a, b), c + d)
                                   /\ Cg(FeSub(a, b), c - d)
                                   /\ Cg(FeMul(a, b), c * d)
                    /\ Cg(FeSqr(a), c * c)
  OBVIOUS
<1>1. PICK s, df, t, q \in Int : s = a + b /\ df = a - b /\ t = a * b /\ q = a * a
  OBVIOUS
<1>2. PICK s1, df1, t1, q1 \in Int : s1 = c + d /\ df1 = c - d /\ t1 = c * d /\ q1 = c * c
  OBVIOUS
<1>3. /\ FeAdd(a, b) \in Int /\ Cg(FeAdd(a, b), s) /\ FeSub(a, b) \in Int /\ Cg(FeSub(a, b), df)
      /\ FeMul(a, b) \in Int /\ Cg(FeMul(a, b), t) /\ FeSqr(a) \in Int /\ Cg(FeSqr(a), q)
  BY <1>1, FeOps
<1>4. Cg(q, q1)
  BY <1>1, <1>2, CgTimes
<1>5. ASSUME Cg(b, d)
      PROVE  Cg(s, s1) /\ Cg(df, df1) /\ Cg(t, t1)
  BY <1>1, <1>2, <1>5, CgPlus, CgMinus, CgTimes
<1> QED BY <1>2, <1>3, <1>4, <1>5, CgEquiv

\* Two points, their representatives and the values jpoint_add derives from them.
Common(X1, Y1, Z1, X2, Y2, Z2, x1, y1, x2, y2, ZZ1, ZZ2, U1, U2, S1, S2, w, ww, www) ==
    /\ X1 \in Fe /\ Y1 \in Fe /\ Z1 \in Fe /\ X2 \in Fe /\ Y2 \in Fe /\ Z2 \in Fe
    /\ x1 \in Fe /\ y1 \in Fe /\ x2 \in Fe /\ y2 \in Fe /\ Cg(X1, x1 * (Z1 * Z1))
    /\ Cg(Y1, y1 * (Z1 * (Z1 * Z1))) /\ Cg(X2, x2 * (Z2 * Z2))
    /\ Cg(Y2, y2 * (Z2 * (Z2 * Z2))) /\ ZZ1 = FeSqr(Z1) /\ ZZ2 = FeSqr(Z2)
    /\ U1 = FeMul(X1, ZZ2) /\ U2 = FeMul(X2, ZZ1) /\ S1 = FeMul(Y1, FeMul(Z2, ZZ2))
    /\ S2 = FeMul(Y2, FeMul(Z1, ZZ1)) /\ w \in Int /\ w = Z1 * Z2 /\ ww \in Int
    /\ ww = w * w /\ www \in Int /\ www = w * ww

\* Products of numbers that stand over powers of Z.
LEMMA Commensurate ==
    ASSUME NEW X1, NEW Y1, NEW Z1, NEW X2, NEW Y2, NEW Z2, NEW x1, NEW y1, NEW x2,
           NEW y2, NEW ZZ1, NEW ZZ2, NEW U1, NEW U2, NEW S1, NEW S2, NEW w, NEW ww,
           NEW www,
           Common(X1, Y1, Z1, X2, Y2, Z2, x1, y1, x2, y2, ZZ1, ZZ2, U1, U2, S1, S2,
                  w, ww, www)
    PROVE  /\ ZZ1 \in Int /\ Cg(ZZ1, Z1 * Z1) /\ ZZ2 \in Int /\ Cg(ZZ2, Z2 * Z2)
           /\ U1 \in Fe /\ U1 \in Int /\ Cg(U1, x1 * ww)
           /\ U2 \in Fe /\ U2 \in Int /\ Cg(U2, x2 * ww)
           /\ S1 \in Fe /\ S1 \in Int /\ Cg(S1, y1 * www)
           /\ S2 \in Fe /\ S2 \in Int /\ Cg(S2, y2 * www)
<1> USE DEF Common
<1>0. /\ X1 \in Int /\ Y1 \in Int /\ Z1 \in Int /\ X2 \in Int /\ Y2 \in Int /\ Z2 \in Int
      /\ x1 \in Int /\ y1 \in Int /\ x2 \in Int /\ y2 \in Int
  BY FieldPrime
<1>1. PICK z1, z2 \in Int : z1 = Z1 * Z1 /\ z2 = Z2 * Z2
  BY <1>0
<1>2. PICK c1, c2 \in Int : c1 = Z1 * z1 /\ c2 = Z2 * z2
  BY <1>0
<1>4. Cg(Z1, Z1) /\ Cg(Z2, Z2) /\ Cg(2, 2) /\ 2 \in Int
  BY <1>0, CgEquiv
<1>5. ZZ1 \in Int /\ ZZ2 \in Int /\ Cg(ZZ1, z1) /\ Cg(ZZ2, z2)
  BY <1>0, <1>1, FeOps
<1>6. /\ U1 \in Int /\ Cg(U1, x1 * ww)
      /\ U2 \in Int /\ Cg(U2, x2 * ww)
  <2>1. PICK a1, a2 \in Int : a1 = x1 * z1 /\ a2 = x2 * z2
    BY <1>0
  <2>2. Cg(X1, a1) /\ Cg(X2, a2)
    BY <1>1, <2>1
  <2>3. Cg(U1, a1 * z2) /\ Cg(U2, a2 * z1) /\ U1 \in Int /\ U2 \in Int
    BY <1>0, <1>5, <2>2, FeCg, FeOps
  <2>4. a1 * z2 = x1 * ww /\ a2 * z1 = x2 * ww
    BY <1>0, <1>1, <2>1
  <2> QED BY <2>3, <2>4
<1>7. /\ S1 \in Int /\ Cg(S1, y1 * www)
      /\ S2 \in Int /\ Cg(S2, y2 * www)
  <2>1. PICK b1, b2 \in Int : b1 = y1 * c1 /\ b2 = y2 * c2
    BY <1>0
  <2>2. Cg(Y1, b1) /\ Cg(Y2, b2)
    BY <1>1, <1>2, <2>1
  <2>3. PICK f1, f2 : f1 = FeMul(Z1, ZZ1) /\ f2 = FeMul(Z2, ZZ2)
    OBVIOUS
  <2>a. f1 \in Int /\ f2 \in Int
    BY <1>0, <1>5, <2>3, FeOps
  <2>b. Cg(f1, Z1 * z1) /\ Cg(f2, Z2 * z2)
    BY <1>0, <1>4, <1>5, <2>3, FeCg
  <2>c. Cg(f1, c1) /\ Cg(f2, c2)
    BY <1>2, <2>b
  <2>4. Cg(S1, b1 * c2) /\ Cg(S2, b2 * c1) /\ S1 \in Int /\ S2 \in Int
    BY <1>0, <2>2, <2>3, <2>a, <2>c, FeCg, FeOps
  <2>5. b1 * c2 = y1 * www /\ b2 * c1 = y2 * www
    BY <1>0, <1>1, <1>2, <2>1
  <2> QED BY <2>4, <2>5
<1>8. U1 \in Fe /\ U2 \in Fe /\ S1 \in Fe /\ S2 \in Fe
  <2>1. U1 \in Fe /\ U2 \in Fe
    BY <1>0, <1>5, FeOps
  <2>2. PICK f1, f2 : f1 = FeMul(Z1, ZZ1) /\ f2 = FeMul(Z2, ZZ2)
    OBVIOUS
  <2>3. f1 \in Int /\ f2 \in Int
    BY <1>0, <1>5, <2>2, FeOps
  <2>4. S1 \in Fe /\ S2 \in Fe
    BY <1>0, <2>2, <2>3, FeOps
  <2> QED BY <2>1, <2>4
<1> QED BY <1>1, <1>5, <1>6, <1>7, <1>8

\* The steps of jpoint_add for two points of different x.
ChordSteps(X1, Y1, Z1, X2, Y2, Z2, x1, y1, x2, y2, l, x3, y3, ZZ1, ZZ2, U1, U2, S1, S2,
H, I, R, V, XR, YR, ZR) ==
    /\ X1 \in Fe /\ Y1 \in Fe /\ Z1 \in Fe /\ X2 \in Fe /\ Y2 \in Fe /\ Z2 \in Fe
    /\ x1 \in Fe /\ y1 \in Fe /\ x2 \in Fe /\ y2 \in Fe /\ l \in Fe /\ x3 \in Fe
    /\ y3 \in Fe /\ Cg(X1, x1 * (Z1 * Z1)) /\ Cg(Y1, y1 * (Z1 * (Z1 * Z1)))
    /\ Cg(X2, x2 * (Z2 * Z2)) /\ Cg(Y2, y2 * (Z2 * (Z2 * Z2)))
    /\ Cg(l * (x2 - x1), y2 - y1) /\ Cg(x3, (l * l) - (x1 + x2))
    /\ Cg(y3, (l * (x1 - x3)) - y1) /\ ZZ1 = FeSqr(Z1) /\ ZZ2 = FeSqr(Z2)
    /\ U1 = FeMul(X1, ZZ2) /\ U2 = FeMul(X2, ZZ1) /\ S1 = FeMul(Y1, FeMul(Z2, ZZ2))
    /\ S2 = FeMul(Y2, FeMul(Z1, ZZ1)) /\ H = FeSub(U2, U1) /\ I = FeSqr(2 * H)
    /\ R = FeMul(2, S2 - S1) /\ V = FeMul(U1, I)
    /\ XR = FeSub(FeSqr(R), FeMul(H, I) + (2 * V))
    /\ YR = FeSub(FeMul(R, V - XR), 2 * FeMul(S1, FeMul(H, I)))
    /\ ZR = FeMul((FeSqr(Z1 + Z2) - ZZ1) - ZZ2, H)

\* jpoint_add's steps compute the chord's third point over Z^2 and Z^3.
LEMMA ChordFormula ==
    ASSUME NEW X1, NEW Y1, NEW Z1, NEW X2, NEW Y2, NEW Z2, NEW x1, NEW y1, NEW x2,
           NEW y2, NEW l, NEW x3, NEW y3, NEW ZZ1, NEW ZZ2, NEW U1, NEW U2, NEW S1,
           NEW S2, NEW H, NEW I, NEW R, NEW V, NEW XR, NEW YR, NEW ZR,
           ChordSteps(X1, Y1, Z1, X2, Y2, Z2, x1, y1, x2, y2, l, x3, y3, ZZ1, ZZ2,
                      U1, U2, S1, S2, H, I, R, V, XR, YR, ZR)
    PROVE  /\ XR \in Fe /\ YR \in Fe /\ ZR \in Fe
           /\ Cg(ZR, 2 * ((x2 - x1) * ((Z1 * Z2) * ((Z1 * Z2) * (Z1 * Z2)))))
           /\ Cg(XR, x3 * (ZR * ZR)) /\ Cg(YR, y3 * (ZR * (ZR * ZR)))
<1> USE DEF ChordSteps
<1>0. /\ X1 \in Int /\ Y1 \in Int /\ Z1 \in Int /\ X2 \in Int /\ Y2 \in Int /\ Z2 \in Int
      /\ x1 \in Int /\ y1 \in Int /\ x2 \in Int /\ y2 \in Int /\ l \in Int /\ x3 \in Int /\ y3 \in Int
  BY FieldPrime
<1>1. PICK z1, z2 \in Int : z1 = Z1 * Z1 /\ z2 = Z2 * Z2
  BY <1>0
<1>2. PICK c1, c2 \in Int : c1 = Z1 * z1 /\ c2 = Z2 * z2
  BY <1>0
<1>3. PICK w, ww, www \in Int : w = Z1 * Z2 /\ ww = w * w /\ www = w * ww
  BY <1>0
<1>4. Cg(2, 2) /\ 2 \in Int
  BY CgEquiv
<1>5. /\ ZZ1 \in Int /\ Cg(ZZ1, z1) /\ ZZ2 \in Int /\ Cg(ZZ2, z2)
      /\ U1 \in Int /\ Cg(U1, x1 * ww) /\ U2 \in Int /\ Cg(U2, x2 * ww)
      /\ S1 \in Int /\ Cg(S1, y1 * www) /\ S2 \in Int /\ Cg(S2, y2 * www)
  <2>1. Common(X1, Y1, Z1, X2, Y2, Z2, x1, y1, x2, y2, ZZ1, ZZ2, U1, U2, S1, S2, w, ww, www)
    BY <1>3 DEF Common
  <2> QED BY <1>1, <2>1, Commensurate
<1>6. U1 \in Int /\ Cg(U1, x1 * ww) /\ U2 \in Int /\ Cg(U2, x2 * ww)
  BY <1>5
<1>7. S1 \in Int /\ Cg(S1, y1 * www) /\ S2 \in Int /\ Cg(S2, y2 * www)
  BY <1>5
<1>8. PICK d, m, mm \in Int : d = x2 - x1 /\ m = 2 * (d * www) /\ mm = m * m
  BY <1>0
<1>9. H \in Int /\ Cg(H, d * ww)
  <2>1. PICK p1, p2 \in Int : p1 = x1 * ww /\ p2 = x2 * ww
    BY <1>0
  <2>2. Cg(H, p2 - p1) /\ H \in Int
    BY <1>6, <2>1, FeCg, FeOps
  <2>3. p2 - p1 = d * ww
    BY <1>0, <1>8, <2>1
  <2> QED BY <2>2, <2>3
<1>10. PICK h \in Int : h = d * ww /\ Cg(H, h)
  BY <1>9
<1>11. PICK i \in Int : i = (2 * h) * (2 * h) /\ Cg(I, i) /\ I \in Int
  <2>1. PICK g, k \in Int : g = 2 * H /\ k = 2 * h
    BY <1>9
  <2>2. Cg(g, k)
    BY <1>4, <1>9, <1>10, <2>1, CgTimes
  <2> QED BY <2>1, <2>2, FeCg, FeOps
<1>12. R \in Int /\ Cg(R, l * m)
  <2>1. PICK q1, q2, dy, e \in Int : q1 = y1 * www /\ q2 = y2 * www /\ dy = y2 - y1 /\ e = l * d
    BY <1>0
  <2>2. PICK s \in Int : s = S2 - S1 /\ Cg(s, q2 - q1)
    BY <1>7, <2>1, CgMinus
  <2>3. q2 - q1 = dy * www
    BY <1>0, <2>1
  <2>4. Cg(dy, e)
    <3>1. Cg(e, dy)
      BY <1>8, <2>1
    <3> QED BY <3>1, CgEquiv
  <2>5. PICK v, u \in Int : v = dy * www /\ u = e * www
    OBVIOUS
  <2>6. Cg(v, u)
    <3>1. Cg(www, www)
      BY CgEquiv
    <3> QED BY <2>4, <2>5, <3>1, CgTimes
  <2>7. Cg(s, u)
    BY <2>2, <2>3, <2>5, <2>6, CgEquiv
  <2>8. Cg(R, 2 * u) /\ R \in Int
    BY <1>4, <2>2, <2>7, FeCg, FeOps
  <2>9. 2 * u = l * m
    BY <1>0, <1>8, <2>1, <2>5
  <2> QED BY <2>8, <2>9
<1>13. PICK J \in Int : J = FeMul(H, I) /\ Cg(J, d * mm)
  <2>1. Cg(FeMul(H, I), h * i) /\ FeMul(H, I) \in Int
    BY <1>9, <1>10, <1>11, FeCg, FeOps
  <2>2. h * i = d * mm
    BY <1>3, <1>8, <1>10, <1>11
  <2> QED BY <2>1, <2>2
<1>14. V \in Int /\ Cg(V, x1 * mm)
  <2>1. PICK p1 \in Int : p1 = x1 * ww
    BY <1>0
  <2>2. Cg(V, p1 * i) /\ V \in Int
    BY <1>6, <1>11, <2>1, FeCg, FeOps
  <2>3. p1 * i = x1 * mm
    BY <1>0, <1>3, <1>8, <1>10, <1>11, <2>1
  <2> QED BY <2>2, <2>3
<1>15. XR \in Fe /\ XR \in Int /\ Cg(XR, x3 * mm)
  <2>1. PICK lm, r2 \in Int : lm = l * m /\ r2 = lm * lm
    BY <1>0
  <2>2. PICK rr \in Int : rr = FeSqr(R) /\ Cg(rr, r2)
    BY ZenonT(60), <1>12, <2>1, FeCg, FeOps
  <2>3. PICK jm, vm \in Int : jm = d * mm /\ vm = x1 * mm
    BY <1>0
  <2>4. PICK v2, w2 \in Int : v2 = 2 * V /\ w2 = 2 * vm
    BY <1>14
  <2>5. Cg(v2, w2)
    BY <1>4, <1>14, <2>3, <2>4, CgTimes
  <2>6. PICK t, u \in Int : t = J + v2 /\ u = jm + w2
    OBVIOUS
  <2>7. Cg(t, u)
    BY <1>13, <2>3, <2>5, <2>6, CgPlus
  <2>8. XR = FeSub(rr, t)
    BY <1>13, <2>2, <2>4, <2>6
  <2>9. XR \in Fe /\ XR \in Int /\ Cg(XR, r2 - u)
    BY <2>2, <2>7, <2>8, FeCg, FeOps
  <2>10. PICK k \in Int : k = (l * l) - (x1 + x2) /\ Cg(k, x3)
    BY <1>0, CgEquiv
  <2>11. r2 - u = k * mm
    BY <1>0, <1>8, <2>1, <2>3, <2>4, <2>6, <2>10
  <2>12. Cg(k * mm, x3 * mm)
    <3>1. Cg(mm, mm)
      BY CgEquiv
    <3> QED BY <1>0, <2>10, <3>1, CgTimes
  <2>13. PICK km, xm \in Int : km = k * mm /\ xm = x3 * mm
    BY <1>0
  <2> QED BY <2>9, <2>11, <2>12, <2>13, CgEquiv
<1>16. YR \in Fe /\ YR \in Int /\ Cg(YR, y3 * (m * mm))
  <2>1. PICK lm, vm, xm, mmm \in Int : lm = l * m /\ vm = x1 * mm /\ xm = x3 * mm /\ mmm = m * mm
    BY <1>0
  <2>2. PICK s, t \in Int : s = V - XR /\ t = vm - xm
    BY <1>14, <1>15
  <2>3. Cg(s, t)
    BY <1>14, <1>15, <2>1, <2>2, CgMinus
  <2>4. PICK f, g : f = FeMul(R, s) /\ g = lm * t
    OBVIOUS
  <2>a. f \in Int /\ g \in Int
    BY <1>12, <2>4, FeOps
  <2>b. Cg(R, lm)
    BY <1>12, <2>1
  <2>c. Cg(f, g)
    BY <1>12, <2>3, <2>4, <2>b, FeCg
  <2>5. PICK q1, jm, qj \in Int : q1 = y1 * www /\ jm = d * mm /\ qj = q1 * jm
    BY <1>0
  <2>6. PICK a : a = FeMul(S1, J)
    OBVIOUS
  <2>d. a \in Int
    BY <1>7, <1>13, <2>6, FeOps
  <2>e. Cg(S1, q1) /\ Cg(J, jm)
    BY <1>7, <1>13, <2>5
  <2>f. Cg(a, qj)
    BY <1>7, <1>13, <2>5, <2>6, <2>e, FeCg
  <2>7. PICK a2, qj2 \in Int : a2 = 2 * a /\ qj2 = 2 * qj
    BY <2>d
  <2>8. Cg(a2, qj2)
    BY <1>4, <2>d, <2>f, <2>7, CgTimes
  <2>9. YR = FeSub(f, a2)
    BY <1>13, <2>2, <2>4, <2>6, <2>7
  <2>10. YR \in Fe /\ YR \in Int /\ Cg(YR, g - qj2)
    BY <2>a, <2>c, <2>7, <2>8, <2>9, FeCg, FeOps
  <2>11. PICK k \in Int : k = (l * (x1 - x3)) - y1 /\ Cg(k, y3)
    BY <1>0, CgEquiv
  <2>12. g - qj2 = k * mmm
    <3>1. g = (l * (x1 - x3)) * mmm
      BY <1>0, <2>1, <2>2, <2>4
    <3>2. qj2 = y1 * mmm
      BY <1>0, <1>8, <2>1, <2>5, <2>7
    <3> QED BY <1>0, <2>11, <3>1, <3>2
  <2>13. Cg(k * mmm, y3 * mmm)
    <3>1. Cg(mmm, mmm)
      BY CgEquiv
    <3> QED BY <1>0, <2>11, <3>1, CgTimes
  <2>14. PICK km, ym \in Int : km = k * mmm /\ ym = y3 * mmm
    BY <1>0
  <2> QED BY <2>1, <2>10, <2>12, <2>13, <2>14, CgEquiv
<1>17. ZR \in Fe /\ ZR \in Int /\ Cg(ZR, m)
  <2>1. PICK s, ss \in Int : s = Z1 + Z2 /\ ss = s * s
    BY <1>0
  <2>2. PICK f \in Int : f = FeSqr(s) /\ Cg(f, ss)
    BY <2>1, FeOps
  <2>3. PICK t, tt \in Int : t = f - ZZ1 /\ tt = ss - z1 /\ Cg(t, tt)
    BY <1>5, <2>1, <2>2, CgMinus
  <2>4. PICK u, uu \in Int : u = t - ZZ2 /\ uu = tt - z2 /\ Cg(u, uu)
    BY <1>5, <2>3, CgMinus
  <2>5. ZR = FeMul(u, H)
    BY <2>1, <2>2, <2>3, <2>4
  <2>6. ZR \in Fe /\ ZR \in Int /\ Cg(ZR, uu * h)
    BY <1>9, <1>10, <2>4, <2>5, FeCg, FeOps
  <2>7. uu = 2 * w
    BY <1>0, <1>1, <1>3, <2>1, <2>3, <2>4
  <2>8. uu * h = m
    BY <1>3, <1>8, <1>10, <2>7
  <2> QED BY <2>6, <2>8
<1>18. Cg(XR, x3 * (ZR * ZR)) /\ Cg(YR, y3 * (ZR * (ZR * ZR)))
  <2>1. PICK zz, zzz, mmm \in Int : zz = ZR * ZR /\ zzz = ZR * zz /\ mmm = m * mm
    BY <1>17
  <2>2. Cg(m, ZR)
    BY <1>17, CgEquiv
  <2>3. Cg(mm, zz)
    BY <1>8, <1>17, <2>1, <2>2, CgTimes
  <2>4. Cg(mmm, zzz)
    BY <1>17, <2>1, <2>2, <2>3, CgTimes
  <2>5. Cg(x3, x3) /\ Cg(y3, y3)
    BY <1>0, CgEquiv
  <2>6. PICK xm, xz, ym, yz \in Int : xm = x3 * mm /\ xz = x3 * zz /\ ym = y3 * mmm /\ yz = y3 * zzz
    BY <1>0
  <2>7. Cg(xm, xz) /\ Cg(ym, yz)
    BY <1>0, <2>3, <2>4, <2>5, <2>6, CgTimes
  <2> QED BY <1>15, <1>16, <2>1, <2>6, <2>7, CgEquiv
<1> QED BY <1>3, <1>6, <1>7, <1>8, <1>15, <1>16, <1>17, <1>18

\* The steps of jpoint_double.
TangentSteps(X1, Y1, Z1, x1, y1, l, x3, y3, A, C, D, E, XR, YR, ZR) ==
    /\ X1 \in Fe /\ Y1 \in Fe /\ Z1 \in Fe /\ x1 \in Fe /\ y1 \in Fe /\ l \in Fe
    /\ x3 \in Fe /\ y3 \in Fe /\ Cg(X1, x1 * (Z1 * Z1))
    /\ Cg(Y1, y1 * (Z1 * (Z1 * Z1))) /\ Cg(l * (2 * y1), 3 * (x1 * x1))
    /\ Cg(x3, (l * l) - (x1 + x1)) /\ Cg(y3, (l * (x1 - x3)) - y1) /\ A = FeSqr(X1)
    /\ C = FeSqr(FeSqr(Y1)) /\ D = FeMul(2, (FeSqr(FeAdd(X1, FeSqr(Y1))) - A) - C)
    /\ E = FeMul(3, A) /\ XR = FeSub(FeSqr(E), 2 * D)
    /\ YR = FeSub(E * FeSub(D, XR), 8 * C) /\ ZR = FeMul(2, Y1 * Z1)

\* And jpoint_double's the tangent's.
LEMMA TangentFormula ==
    ASSUME NEW X1, NEW Y1, NEW Z1, NEW x1, NEW y1, NEW l, NEW x3, NEW y3, NEW A,
           NEW C, NEW D, NEW E, NEW XR, NEW YR, NEW ZR,
           TangentSteps(X1, Y1, Z1, x1, y1, l, x3, y3, A, C, D, E, XR, YR, ZR)
    PROVE  /\ XR \in Fe /\ YR \in Fe /\ ZR \in Fe
           /\ Cg(ZR, 2 * (y1 * ((Z1 * Z1) * (Z1 * Z1))))
           /\ Cg(XR, x3 * (ZR * ZR)) /\ Cg(YR, y3 * (ZR * (ZR * ZR)))
<1> USE DEF TangentSteps
<1>0. /\ X1 \in Int /\ Y1 \in Int /\ Z1 \in Int /\ x1 \in Int /\ y1 \in Int /\ l \in Int
      /\ x3 \in Int /\ y3 \in Int /\ 2 \in Int /\ 3 \in Int /\ 8 \in Int
  BY FieldPrime
<1>1. /\ Cg(Z1, Z1) /\ Cg(2, 2) /\ Cg(3, 3) /\ Cg(8, 8) /\ Cg(X1, X1)
  BY <1>0, CgEquiv
<1>2. PICK z1, c1, w, xz, yz \in Int :
         z1 = Z1 * Z1 /\ c1 = Z1 * z1 /\ w = z1 * z1 /\ xz = x1 * z1 /\ yz = y1 * c1
  <2>1. PICK z1 \in Int : z1 = Z1 * Z1
    BY <1>0
  <2>2. PICK c1, w, xz \in Int : c1 = Z1 * z1 /\ w = z1 * z1 /\ xz = x1 * z1
    BY <1>0
  <2>3. PICK yz \in Int : yz = y1 * c1
    BY <1>0
  <2> QED BY <2>1, <2>2, <2>3
<1>3. Cg(X1, xz) /\ Cg(Y1, yz)
  BY <1>2
<1>4. PICK a, b, c, b1 \in Int : a = xz * xz /\ b = yz * yz /\ c = b * b /\ b1 = FeSqr(Y1)
  <2>1. PICK b \in Int : b = yz * yz
    OBVIOUS
  <2>2. PICK a, c \in Int : a = xz * xz /\ c = b * b
    OBVIOUS
  <2> QED BY <1>0, <2>1, <2>2, FeOps
<1>5. A \in Int /\ Cg(A, a) /\ Cg(b1, b)
  BY <1>0, <1>2, <1>3, <1>4, FeCg, FeOps
<1>6. C \in Int /\ Cg(C, c)
  BY <1>4, <1>5, FeCg, FeOps
<1>7. PICK y4, m, mm, mmm \in Int : y4 = y1 * w /\ m = 2 * y4 /\ mm = m * m /\ mmm = m * mm
  <2>1. PICK y4 \in Int : y4 = y1 * w
    BY <1>0, <1>2
  <2>2. PICK m \in Int : m = 2 * y4
    OBVIOUS
  <2>3. PICK mm \in Int : mm = m * m
    OBVIOUS
  <2> QED BY <2>1, <2>2, <2>3
<1>8. ZR \in Fe /\ ZR \in Int /\ Cg(ZR, m)
  <2>1. PICK u, v \in Int : u = Y1 * Z1 /\ v = yz * Z1
    BY <1>0, <1>2
  <2>2. Cg(u, v)
    BY <1>0, <1>1, <1>2, <1>3, <2>1, CgTimes
  <2>3. ZR \in Fe /\ ZR \in Int /\ Cg(ZR, 2 * v)
    BY <1>0, <1>1, <2>1, <2>2, FeCg, FeOps
  <2>4. 2 * v = m
    BY <1>0, <1>2, <1>7, <2>1
  <2> QED BY <2>3, <2>4
<1>9. D \in Int /\ Cg(D, x1 * mm)
  <2>1. PICK s, t : s = FeAdd(X1, b1) /\ t = xz + b
    OBVIOUS
  <2>a. s \in Int /\ t \in Int
    BY <1>0, <1>2, <1>4, <2>1, FeOps
  <2>2. Cg(s, t)
    BY <1>0, <1>2, <1>3, <1>4, <1>5, <2>1, <2>a, FeCg
  <2>3. PICK ss, tt : ss = FeSqr(s) /\ tt = t * t
    OBVIOUS
  <2>b. ss \in Int /\ tt \in Int
    BY <2>a, <2>3, FeOps
  <2>4. Cg(ss, tt)
    BY <2>a, <2>2, <2>3, FeCg
  <2>5. PICK f, g \in Int : f = ss - A /\ g = tt - a
    BY <1>4, <1>5, <2>b
  <2>6. Cg(f, g)
    BY <1>4, <1>5, <2>b, <2>4, <2>5, CgMinus
  <2>7. PICK h, k \in Int : h = f - C /\ k = g - c
    BY <1>4, <1>6, <2>5
  <2>8. Cg(h, k)
    BY <1>4, <1>6, <2>5, <2>6, <2>7, CgMinus
  <2>9. D = FeMul(2, h)
    BY <1>4, <2>1, <2>3, <2>5, <2>7
  <2>10. D \in Int /\ Cg(D, 2 * k)
    <3>1. D \in Int
      BY <1>0, <2>7, <2>9, FeOps
    <3>2. Cg(D, 2 * k)
      BY <1>0, <1>1, <2>7, <2>8, <2>9, FeCg
    <3> QED BY <3>1, <3>2
  <2>11. 2 * k = x1 * mm
    <3>1. k = 2 * (xz * b)
      BY <1>2, <1>4, <2>1, <2>3, <2>5, <2>7
    <3>2. mm = 4 * (b * z1)
      BY <1>0, <1>2, <1>4, <1>7
    <3> QED BY <1>0, <1>2, <1>4, <1>7, <2>7, <3>1, <3>2
  <2> QED BY <2>10, <2>11
<1>10. E \in Int /\ Cg(E, l * m)
  <2>1. E \in Int /\ Cg(E, 3 * a)
    BY <1>0, <1>1, <1>4, <1>5, FeCg, FeOps
  <2>2. PICK yy, xx, e, d \in Int : yy = 2 * y1 /\ xx = x1 * x1 /\ e = l * yy /\ d = 3 * xx
    <3>1. PICK yy, xx \in Int : yy = 2 * y1 /\ xx = x1 * x1
      BY <1>0
    <3> QED BY <1>0, <3>1
  <2>3. Cg(e, d)
    BY <2>2
  <2>4. Cg(e * w, d * w)
    <3>1. Cg(w, w)
      BY <1>2, CgEquiv
    <3> QED BY <1>2, <2>2, <2>3, <3>1, CgTimes
  <2>5. d * w = 3 * a /\ e * w = l * m
    BY <1>0, <1>2, <1>4, <1>7, <2>2
  <2>6. PICK u, v \in Int : u = 3 * a /\ v = l * m
    BY <1>0, <1>4, <1>7
  <2> QED BY <2>1, <2>4, <2>5, <2>6, CgEquiv
<1>11. PICK lm, xm, x3m \in Int : lm = l * m /\ xm = x1 * mm /\ x3m = x3 * mm
  BY <1>0, <1>7
<1>12. XR \in Fe /\ XR \in Int /\ Cg(XR, x3m)
  <2>1. PICK r, r2 : r = FeSqr(E) /\ r2 = lm * lm
    OBVIOUS
  <2>a. r \in Int /\ r2 \in Int
    <3>1. r \in Int
      BY <1>10, <2>1, FeOps
    <3>2. r2 \in Int
      BY <1>11, <2>1
    <3> QED BY <3>1, <3>2
  <2>2. Cg(r, r2)
    BY <1>10, <1>11, <2>1, FeCg
  <2>3. PICK d2, xm2 \in Int : d2 = 2 * D /\ xm2 = 2 * xm
    BY <1>9, <1>11
  <2>4. Cg(d2, xm2)
    BY <1>0, <1>1, <1>9, <1>11, <2>3, CgTimes
  <2>5. XR \in Fe /\ XR \in Int /\ Cg(XR, r2 - xm2)
    <3>1. XR \in Fe /\ XR \in Int
      BY <2>a, <2>1, <2>3, FeOps
    <3>2. Cg(XR, r2 - xm2)
      BY <2>a, <2>1, <2>2, <2>3, <2>4, FeCg
    <3> QED BY <3>1, <3>2
  <2>6. PICK k \in Int : k = (l * l) - (x1 + x1) /\ Cg(k, x3)
    BY <1>0, CgEquiv
  <2>7. r2 - xm2 = k * mm
    BY <1>0, <1>7, <1>11, <2>1, <2>3, <2>6
  <2>8. Cg(k * mm, x3m)
    <3>1. Cg(mm, mm)
      BY <1>7, CgEquiv
    <3> QED BY <1>0, <1>7, <1>11, <2>6, <3>1, CgTimes
  <2>9. PICK km \in Int : km = k * mm
    BY <1>7, <2>6
  <2> QED BY <1>11, <2>5, <2>7, <2>8, <2>9, CgEquiv
<1>13. YR \in Fe /\ YR \in Int /\ Cg(YR, y3 * mmm)
  <2>1. PICK s, t : s = FeSub(D, XR) /\ t = xm - x3m
    OBVIOUS
  <2>2. s \in Int /\ t \in Int
    BY <1>9, <1>11, <1>12, <2>1, FeOps
  <2>3. Cg(s, t)
    BY <1>9, <1>11, <1>12, <2>1, FeCg
  <2>4. PICK f, g \in Int : f = E * s /\ g = lm * t
    BY <1>10, <1>11, <2>2
  <2>5. Cg(f, g)
    BY <1>10, <1>11, <2>2, <2>3, <2>4, CgTimes
  <2>6. PICK c8, d8 \in Int : c8 = 8 * C /\ d8 = 8 * c
    BY <1>4, <1>6
  <2>7. Cg(c8, d8)
    BY <1>0, <1>1, <1>4, <1>6, <2>6, CgTimes
  <2>8. YR = FeSub(f, c8)
    BY <2>1, <2>4, <2>6
  <2>9. YR \in Fe /\ YR \in Int /\ Cg(YR, g - d8)
    <3>1. YR \in Fe /\ YR \in Int
      BY <2>4, <2>6, <2>8, FeOps
    <3>2. Cg(YR, g - d8)
      BY <2>4, <2>5, <2>6, <2>7, <2>8, FeCg
    <3> QED BY <3>1, <3>2
  <2>10. PICK k \in Int : k = (l * (x1 - x3)) - y1 /\ Cg(k, y3)
    BY <1>0, CgEquiv
  <2>11. g - d8 = k * mmm
    <3>1. g = (l * (x1 - x3)) * mmm
      BY <1>0, <1>7, <1>11, <2>1, <2>4
    <3>2. d8 = y1 * mmm
      <4>1. mm = 4 * (b * z1) /\ c1 * c1 = z1 * w
        BY <1>0, <1>2, <1>4, <1>7
      <4>2. y1 * mmm = 2 * ((y1 * y4) * mm)
        BY <1>0, <1>7
      <4>3. (y1 * y4) * z1 = b
        BY <1>0, <1>2, <1>4, <1>7, <4>1
      <4>4. PICK v \in Int : v = y1 * y4
        BY <1>0, <1>7
      <4>5. v * mm = 4 * (b * (v * z1))
        BY <1>2, <1>4, <4>1, <4>4
      <4> QED BY <1>4, <2>6, <4>2, <4>3, <4>4, <4>5
    <3>3. PICK n \in Int : n = l * (x1 - x3)
      BY <1>0
    <3> QED BY <1>0, <1>7, <2>10, <3>1, <3>2, <3>3
  <2>12. Cg(k * mmm, y3 * mmm)
    <3>1. Cg(mmm, mmm)
      BY <1>7, CgEquiv
    <3> QED BY <1>0, <1>7, <2>10, <3>1, CgTimes
  <2>13. PICK km, ym \in Int : km = k * mmm /\ ym = y3 * mmm
    BY <1>0, <1>7, <2>10
  <2> QED BY <2>9, <2>11, <2>12, <2>13, CgEquiv
<1>14. Cg(XR, x3 * (ZR * ZR)) /\ Cg(YR, y3 * (ZR * (ZR * ZR)))
  <2>1. PICK zz \in Int : zz = ZR * ZR
    BY <1>8
  <2>2. PICK zzz \in Int : zzz = ZR * zz
    BY <1>8, <2>1
  <2>3. Cg(m, ZR)
    BY <1>7, <1>8, CgEquiv
  <2>4. Cg(mm, zz)
    BY <1>7, <1>8, <2>1, <2>3, CgTimes
  <2>5. Cg(mmm, zzz)
    BY <1>7, <1>8, <2>1, <2>2, <2>3, <2>4, CgTimes
  <2>6. Cg(x3, x3) /\ Cg(y3, y3)
    BY <1>0, CgEquiv
  <2>7. PICK xz3, ym, yz3 \in Int : xz3 = x3 * zz /\ ym = y3 * mmm /\ yz3 = y3 * zzz
    BY <1>0, <1>7
  <2>8. Cg(x3m, xz3) /\ Cg(ym, yz3)
    BY <1>0, <1>7, <1>11, <2>1, <2>2, <2>4, <2>5, <2>6, <2>7, CgTimes
  <2> QED BY <1>11, <1>12, <1>13, <2>1, <2>2, <2>7, <2>8, CgEquiv
<1> QED BY <1>2, <1>7, <1>8, <1>12, <1>13, <1>14

\* The curve's equation on the integers.
LEMMA CurveEquation ==
    \A x, y \in Fe : OnCurve(Affine(x, y)) <=> Cg(y * y, (x * (x * x)) + 7)
<1> SUFFICES ASSUME NEW x \in Fe, NEW y \in Fe
             PROVE  OnCurve(Affine(x, y)) <=> Cg(y * y, (x * (x * x)) + 7)
  OBVIOUS
<1>0. x \in Int /\ y \in Int /\ Cg(x, x) /\ Cg(y, y) /\ 7 \in Int
  BY FieldPrime, CgEquiv
<1>1. PICK yy, xx, xxx, r \in Int : yy = y * y /\ xx = x * x /\ xxx = x * xx /\ r = xxx + 7
  <2>1. PICK xx \in Int : xx = x * x
    BY <1>0
  <2>2. PICK xxx \in Int : xxx = x * xx
    BY <1>0, <2>1
  <2> QED BY <1>0, <2>1, <2>2
<1>2. PICK a, b, c, s : a = FeSqr(y) /\ b = FeSqr(x) /\ c = FeMul(b, x) /\ s = 7 % P
  OBVIOUS
<1>3. a \in Fe /\ a \in Int /\ b \in Int /\ s \in Int /\ Cg(s, 7)
  BY <1>0, <1>2, FeOps, CgMod
<1>4. c \in Int
  BY <1>0, <1>2, <1>3, FeOps
<1>5. Cg(a, yy) /\ Cg(b, xx)
  BY <1>0, <1>1, <1>2, FeOps
<1>6. Cg(c, xxx)
  <2>1. Cg(c, xx * x)
    BY <1>0, <1>1, <1>2, <1>3, <1>5, FeCg
  <2>2. xx * x = xxx
    BY <1>0, <1>1
  <2> QED BY <2>1, <2>2
<1>7. PICK t : t = FeAdd(c, s)
  OBVIOUS
<1>8. t \in Fe /\ t \in Int /\ Cg(t, r)
  <2>1. t \in Fe /\ t \in Int
    BY <1>3, <1>4, <1>7, FeOps
  <2>2. Cg(t, xxx + 7)
    BY <1>0, <1>1, <1>3, <1>4, <1>6, <1>7, FeCg
  <2> QED BY <1>1, <2>1, <2>2
<1>9. OnCurve(Affine(x, y)) <=> a = t
  BY <1>2, <1>7 DEF OnCurve, Affine
<1>10. a = t => Cg(yy, r)
  BY <1>1, <1>3, <1>5, <1>8, CgEquiv
<1>11. Cg(yy, r) => a = t
  BY <1>1, <1>3, <1>5, <1>8, CgEquiv, CgEqual
<1> QED BY <1>1, <1>9, <1>10, <1>11

\* A point of the curve, its coordinates and its equation.
LEMMA PointFacts ==
    ASSUME NEW p \in CurvePoints
    PROVE  /\ p.x \in Fe /\ p.y \in Fe /\ p.x \in Int /\ p.y \in Int
           /\ p = Affine(p.x, p.y) /\ p # NoPoint
           /\ Cg(p.y * p.y, (p.x * (p.x * p.x)) + 7)
<1>1. p \in [x : Fe, y : Fe] /\ OnCurve(p)
  BY DEF CurvePoints
<1>2. p.x \in Fe /\ p.y \in Fe /\ p = Affine(p.x, p.y)
  BY <1>1 DEF Affine
<1>3. p # NoPoint
  <2>1. P \notin Fe
    BY FieldPrime DEF Fe
  <2> QED BY <1>2, <2>1 DEF NoPoint, Affine
<1> QED BY <1>1, <1>2, <1>3, CurveEquation, FieldPrime

\* A solution of the equation is a point.
LEMMA PointIs ==
    ASSUME NEW x \in Fe, NEW y \in Fe, Cg(y * y, (x * (x * x)) + 7)
    PROVE  Affine(x, y) \in CurvePoints
<1>1. OnCurve(Affine(x, y))
  BY CurveEquation
<1> QED BY <1>1 DEF CurvePoints, Affine

\* Division in the field.
LEMMA Division ==
    ASSUME NEW d \in Int, NEW e \in Int, ~Cg(d, 0)
    PROVE  \E l \in Fe : Cg(l * d, e)
<1>1. PICK u \in Fe : u = d % P /\ u \in Int /\ Cg(u, d)
  BY CgMod
<1>2. u # 0
  BY <1>1, CgEquiv
<1>3. PICK v \in Int : v = FeInv[u] /\ Cg(v * u, 1)
  BY <1>1, <1>2, InverseRight
<1>4. Cg(v * d, 1)
  <2>1. PICK a, b \in Int : a = v * u /\ b = v * d
    BY <1>1
  <2>2. Cg(v, v)
    BY CgEquiv
  <2>3. Cg(a, b)
    BY <1>1, <2>1, <2>2, CgTimes
  <2> QED BY <1>3, <2>1, <2>3, CgEquiv
<1>5. PICK l \in Fe : l \in Int /\ Cg(l, e * v)
  <2>1. PICK t \in Int : t = e * v
    OBVIOUS
  <2> QED BY <2>1, CgMod
<1>6. PICK ev, ld, evd, vd \in Int : ev = e * v /\ ld = l * d /\ evd = ev * d /\ vd = v * d
  <2>1. PICK ev \in Int : ev = e * v
    OBVIOUS
  <2> QED BY <2>1, <1>5
<1>7. Cg(ld, evd)
  <2>1. Cg(d, d)
    BY CgEquiv
  <2> QED BY <1>5, <1>6, <2>1, CgTimes
<1>8. Cg(evd, e)
  <2>1. Cg(e, e) /\ 1 \in Int
    BY CgEquiv
  <2>2. Cg(vd, 1)
    BY <1>4, <1>6
  <2>3. Cg(e * vd, e * 1)
    BY <1>6, <2>1, <2>2, CgTimes
  <2>4. e * vd = evd /\ e * 1 = e
    BY <1>6
  <2> QED BY <2>3, <2>4
<1> QED BY <1>6, <1>7, <1>8, CgEquiv

\* Twice a number that is not zero is not zero: the prime is odd.
LEMMA TwiceNotZero == \A y \in Int : Cg(2 * y, 0) => Cg(y, 0)
<1>1. ~Cg(2, 0)
  BY FieldPrime, CgNotZero DEF Fe
<1> QED BY <1>1, CgFactor

\* The slope of the line through two points of different x.
LEMMA ChordSlope ==
    ASSUME NEW p \in CurvePoints, NEW q \in CurvePoints, p.x # q.x
    PROVE  /\ LineSlope(p, q) \in Fe
           /\ Cg(LineSlope(p, q) * (q.x - p.x), q.y - p.y)
<1>0. p.x \in Fe /\ q.x \in Fe /\ p.x \in Int /\ q.x \in Int /\ p.y \in Int /\ q.y \in Int
  BY PointFacts
<1>1. PICK d, e \in Int : d = q.x - p.x /\ e = q.y - p.y
  BY <1>0
<1>2. ~Cg(d, 0)
  <2> SUFFICES ASSUME Cg(d, 0) PROVE FALSE
    OBVIOUS
  <2>1. Cg(p.x, p.x) /\ 0 \in Int
    BY <1>0, CgEquiv
  <2>2. Cg(d + p.x, 0 + p.x)
    BY <1>0, <2>1, CgPlus
  <2>3. d + p.x = q.x /\ 0 + p.x = p.x
    BY <1>0, <1>1
  <2> QED BY <1>0, <2>2, <2>3, CgEqual
<1>3. \A l \in Fe : FeMul(l, d) = FeSub(q.y, p.y) <=> Cg(l * d, e)
  <2> SUFFICES ASSUME NEW l \in Fe PROVE FeMul(l, d) = FeSub(q.y, p.y) <=> Cg(l * d, e)
    OBVIOUS
  <2>c. l \in Int
    BY FieldPrime
  <2>d. PICK s, ld : s = FeMul(l, d) /\ ld = l * d
    OBVIOUS
  <2>1. s \in Fe /\ s \in Int /\ ld \in Int /\ Cg(s, ld)
    BY <2>c, <2>d, FeOps
  <2>2. PICK t : t = FeSub(q.y, p.y)
    OBVIOUS
  <2>3. t \in Fe /\ t \in Int /\ Cg(t, e)
    BY <1>0, <1>1, <2>2, FeOps
  <2>4. s = t => Cg(ld, e)
    BY <2>1, <2>3, CgEquiv
  <2>5. Cg(ld, e) => s = t
    BY <2>1, <2>3, CgEquiv, CgEqual
  <2> QED BY <2>d, <2>2, <2>4, <2>5
<1>4. \E l \in Fe : FeMul(l, d) = FeSub(q.y, p.y)
  <2>1. \E l \in Fe : Cg(l * d, e)
    BY <1>2, Division
  <2> QED BY <1>3, <2>1
<1>5. PICK l : l = LineSlope(p, q)
  OBVIOUS
<1>6. l = CHOOSE m \in Fe : FeMul(m, q.x - p.x) = FeSub(q.y, p.y)
  BY <1>5 DEF LineSlope
<1>7. l \in Fe /\ FeMul(l, d) = FeSub(q.y, p.y)
  BY <1>1, <1>4, <1>6
<1> QED BY <1>1, <1>3, <1>5, <1>7

\* The slope of the tangent at a point off the x axis.
LEMMA TangentSlope ==
    ASSUME NEW p \in CurvePoints, p.y # 0
    PROVE  /\ LineSlope(p, p) \in Fe
           /\ Cg(LineSlope(p, p) * (2 * p.y), 3 * (p.x * p.x))
<1>0. p.x \in Int /\ p.y \in Int /\ p.y \in Fe /\ Cg(3, 3) /\ 3 \in Int
  BY PointFacts, CgEquiv
<1>1. PICK d, xx \in Int : d = 2 * p.y /\ xx = p.x * p.x
  BY <1>0
<1>a. PICK e \in Int : e = 3 * xx
  OBVIOUS
<1>2. ~Cg(d, 0)
  BY <1>0, <1>1, TwiceNotZero, CgNotZero
<1>3. \A l \in Fe : FeMul(l, d) = FeMul(3, FeSqr(p.x)) <=> Cg(l * d, e)
  <2> SUFFICES ASSUME NEW l \in Fe PROVE FeMul(l, d) = FeMul(3, FeSqr(p.x)) <=> Cg(l * d, e)
    OBVIOUS
  <2>c. l \in Int
    BY FieldPrime
  <2>d. PICK s, ld : s = FeMul(l, d) /\ ld = l * d
    OBVIOUS
  <2>1. s \in Fe /\ s \in Int /\ ld \in Int /\ Cg(s, ld)
    BY <2>c, <2>d, FeOps
  <2>2. PICK f, t : f = FeSqr(p.x) /\ t = FeMul(3, f)
    OBVIOUS
  <2>3. f \in Int /\ Cg(f, xx)
    BY <1>0, <1>1, <2>2, FeOps
  <2>a. t \in Fe /\ t \in Int
    BY <1>0, <2>2, <2>3, FeOps
  <2>b. Cg(t, e)
    BY <1>0, <1>1, <1>a, <2>2, <2>3, FeCg
  <2>4. s = t => Cg(ld, e)
    BY <1>a, <2>1, <2>a, <2>b, CgEquiv
  <2>5. Cg(ld, e) => s = t
    <3>1. Cg(ld, e) => Cg(s, e)
      BY <1>a, <2>1, CgEquiv
    <3>2. Cg(e, t)
      BY <1>a, <2>a, <2>b, CgEquiv
    <3>3. Cg(s, e) => Cg(s, t)
      BY <1>a, <2>1, <2>a, <3>2, CgEquiv
    <3> QED BY <2>1, <2>a, <3>1, <3>3, CgEqual
  <2> QED BY <2>d, <2>2, <2>4, <2>5
<1>4. \E l \in Fe : FeMul(l, d) = FeMul(3, FeSqr(p.x))
  <2>1. \E l \in Fe : Cg(l * d, e)
    BY <1>2, Division
  <2> QED BY <1>3, <2>1
<1>5. PICK l : l = LineSlope(p, p)
  OBVIOUS
<1>6. l = CHOOSE m \in Fe : FeMul(m, 2 * p.y) = FeMul(3, FeSqr(p.x))
  BY <1>5 DEF LineSlope
<1>7. l \in Fe /\ FeMul(l, d) = FeMul(3, FeSqr(p.x))
  BY <1>1, <1>4, <1>6
<1> QED BY <1>1, <1>a, <1>3, <1>5, <1>7

\* Two points of the same x are equal or opposite.
LEMMA SameX ==
    ASSUME NEW p \in CurvePoints, NEW q \in CurvePoints, p.x = q.x
    PROVE  p = q \/ FeAdd(p.y, q.y) = 0
<1>0. p.x \in Int /\ p.y \in Int /\ q.y \in Int /\ p.y \in Fe /\ q.y \in Fe
  BY PointFacts
<1>1. PICK a, b, xx \in Int : a = p.y * p.y /\ b = q.y * q.y /\ xx = p.x * p.x
  BY <1>0
<1>2. PICK c \in Int : c = (p.x * xx) + 7
  BY <1>0
<1>3. Cg(a, c) /\ Cg(b, c)
  BY <1>1, <1>2, PointFacts
<1>4. Cg(a, b)
  BY <1>3, CgEquiv
<1>5. PICK d, s, z \in Int : d = p.y - q.y /\ s = p.y + q.y /\ z = a - b
  BY <1>0
<1>6. Cg(z, 0)
  <2>1. Cg(b, b)
    BY CgEquiv
  <2>2. Cg(a - b, b - b)
    BY <1>4, <2>1, CgMinus
  <2> QED BY <1>5, <2>2
<1>7. d * s = z
  BY <1>0, <1>1, <1>5
<1>8. Cg(d, 0) \/ Cg(s, 0)
  BY <1>6, <1>7, CgFactor
<1>9. ASSUME Cg(d, 0) PROVE p = q
  <2>1. Cg(q.y, q.y) /\ 0 \in Int
    BY <1>0, CgEquiv
  <2>2. Cg(d + q.y, 0 + q.y)
    BY <1>0, <1>9, <2>1, CgPlus
  <2>3. d + q.y = p.y /\ 0 + q.y = q.y
    BY <1>0, <1>5
  <2>4. p.y = q.y
    BY <1>0, <2>2, <2>3, CgEqual
  <2>5. p = Affine(p.x, p.y) /\ q = Affine(q.x, q.y)
    BY PointFacts
  <2> QED BY <2>4, <2>5
<1>10. ASSUME Cg(s, 0) PROVE FeAdd(p.y, q.y) = 0
  <2>1. PICK f : f = FeAdd(p.y, q.y)
    OBVIOUS
  <2>2. f \in Fe /\ f \in Int /\ Cg(f, s)
    BY <1>0, <1>5, <2>1, FeOps
  <2>3. 0 \in Fe /\ 0 \in Int
    BY FieldPrime DEF Fe
  <2> QED BY <1>10, <2>1, <2>2, <2>3, CgEquiv, CgEqual
<1> QED BY <1>8, <1>9, <1>10

\* Only zero is its own negative.
LEMMA Doubled ==
    ASSUME NEW y \in Fe, FeAdd(y, y) = 0 \/ Cg(2 * y, 0)
    PROVE  y = 0
<1>0. y \in Int /\ 0 \in Fe /\ 0 \in Int
  BY FieldPrime DEF Fe
<1>1. PICK s \in Int : s = y + y /\ s = 2 * y
  BY <1>0
<1>2. Cg(FeAdd(y, y), s) /\ FeAdd(y, y) \in Int
  BY <1>0, <1>1, FeOps
<1>3. Cg(s, 0)
  BY <1>0, <1>1, <1>2, CgEquiv
<1> QED BY <1>0, <1>1, <1>3, TwiceNotZero, CgNotZero

\* What ChordTangent answers for two points that are not opposite.
IsSum(p, q, l, x3, y3) ==
    /\ ChordTangent(p, q) = Affine(x3, y3)
    /\ Cg(x3, (l * l) - (p.x + q.x)) /\ Cg(y3, (l * (p.x - x3)) - p.y)
    /\ IF p.x # q.x THEN Cg(l * (q.x - p.x), q.y - p.y)
       ELSE p = q /\ p.y # 0 /\ Cg(l * (2 * p.y), 3 * (p.x * p.x))

\* Two points that are not opposite have a line with a slope in the field.
LEMMA ChordCase ==
    ASSUME NEW p \in CurvePoints, NEW q \in CurvePoints, ~(p.x = q.x /\ FeAdd(p.y, q.y) = 0)
    PROVE  \E l, x3, y3 \in Fe : IsSum(p, q, l, x3, y3)
<1>0. /\ p.x \in Int /\ p.y \in Int /\ q.x \in Int /\ q.y \in Int
      /\ p # NoPoint /\ q # NoPoint /\ p.y \in Fe
  BY PointFacts
<1>1. PICK l : l = LineSlope(p, q)
  OBVIOUS
<1>2. /\ l \in Fe
      /\ IF p.x # q.x THEN Cg(l * (q.x - p.x), q.y - p.y)
         ELSE p = q /\ p.y # 0 /\ Cg(l * (2 * p.y), 3 * (p.x * p.x))
  <2>1. CASE p.x # q.x
    BY <1>1, <2>1, ChordSlope
  <2>2. CASE p.x = q.x
    <3>1. p = q
      BY <2>2, SameX
    <3>2. p.y # 0
      <4>1. FeAdd(0, 0) = 0
        <5>1. 0 + 0 = 0 /\ 0 % P = 0
          BY FieldPrime, ModSmall
        <5> QED BY <5>1 DEF FeAdd
      <4> QED BY <2>2, <3>1, <4>1
    <3> QED BY <1>1, <2>2, <3>1, <3>2, TangentSlope
  <2> QED BY <2>1, <2>2
<1>3. l \in Int
  BY <1>2, FieldPrime
<1>4. PICK x3, y3 : /\ x3 = FeSub(FeSqr(l), p.x + q.x)
                    /\ y3 = FeSub(FeMul(l, p.x - x3), p.y)
  OBVIOUS
<1>5. ChordTangent(p, q) = Affine(x3, y3)
  BY <1>0, <1>1, <1>4 DEF ChordTangent
<1>6. x3 \in Fe /\ x3 \in Int /\ Cg(x3, (l * l) - (p.x + q.x))
  <2>1. PICK a, s, ll : a = FeSqr(l) /\ s = p.x + q.x /\ ll = l * l
    OBVIOUS
  <2>2. a \in Int /\ s \in Int /\ ll \in Int /\ Cg(a, ll) /\ Cg(s, s)
    <3>1. s \in Int /\ ll \in Int
      BY <1>0, <1>3, <2>1
    <3>2. a \in Int /\ Cg(a, ll)
      BY <1>3, <2>1, FeOps
    <3> QED BY <3>1, <3>2, CgEquiv
  <2>3. x3 \in Fe /\ x3 \in Int
    BY <1>4, <2>1, <2>2, FeOps
  <2>4. Cg(x3, ll - s)
    BY <1>4, <2>1, <2>2, FeCg
  <2> QED BY <2>1, <2>3, <2>4
<1>7. y3 \in Fe /\ Cg(y3, (l * (p.x - x3)) - p.y)
  <2>1. PICK d \in Int : d = p.x - x3
    BY <1>0, <1>6
  <2>2. PICK a, b : a = FeMul(l, d) /\ b = l * d
    OBVIOUS
  <2>3. a \in Int /\ b \in Int /\ Cg(a, b) /\ Cg(p.y, p.y)
    <3>1. b \in Int
      BY <1>3, <2>1, <2>2
    <3>2. a \in Int /\ Cg(a, b)
      BY <1>3, <2>1, <2>2, FeOps
    <3> QED BY <1>0, <3>1, <3>2, CgEquiv
  <2>4. y3 \in Fe
    BY <1>0, <1>4, <2>1, <2>2, <2>3, FeOps
  <2>5. Cg(y3, b - p.y)
    BY <1>0, <1>4, <2>1, <2>2, <2>3, FeCg
  <2> QED BY <2>1, <2>2, <2>4, <2>5
<1> QED BY <1>2, <1>5, <1>6, <1>7 DEF IsSum

\* Zero times anything, and a sum that is zero.
LEMMA CgZero ==
    \A a, b \in Int : /\ Cg(a, 0) => Cg(a * b, 0)
                      /\ Cg(a, 0) /\ Cg(a + b, 0) => Cg(b, 0)
                      /\ Cg(a, 0) /\ Cg(b, 0) => Cg(a + b, 0)
                      /\ Cg(a, b) <=> Cg(a - b, 0)
<1> SUFFICES ASSUME NEW a \in Int, NEW b \in Int
             PROVE  /\ Cg(a, 0) => Cg(a * b, 0)
                    /\ Cg(a, 0) /\ Cg(a + b, 0) => Cg(b, 0)
                    /\ Cg(a, 0) /\ Cg(b, 0) => Cg(a + b, 0)
                    /\ Cg(a, b) <=> Cg(a - b, 0)
  OBVIOUS
<1>0. Cg(a, a) /\ Cg(b, b) /\ 0 \in Int
  BY CgEquiv
<1>1. Cg(a, 0) => Cg(a * b, 0 * b)
  BY <1>0, CgTimes
<1>2. 0 * b = 0 /\ 0 + 0 = 0 /\ 0 - 0 = 0 /\ b - b = 0 /\ 0 + b = b
  OBVIOUS
<1>3. PICK s, d \in Int : s = a + b /\ d = a - b
  OBVIOUS
<1>4. Cg(a, 0) /\ Cg(s, 0) => Cg(s - a, 0 - 0)
  BY <1>0, <1>3, CgMinus
<1>5. s - a = b
  BY <1>3
<1>6. Cg(a, 0) /\ Cg(b, 0) => Cg(a + b, 0 + 0)
  BY <1>0, CgPlus
<1>7. Cg(a, b) => Cg(a - b, b - b)
  BY <1>0, CgMinus
<1>8. Cg(d, 0) => Cg(d + b, 0 + b)
  BY <1>0, <1>3, CgPlus
<1>9. d + b = a
  BY <1>3
<1> QED BY <1>1, <1>2, <1>3, <1>4, <1>5, <1>6, <1>7, <1>8, <1>9

\* The third intersection of a line with the curve, mirrored, is on the curve.
LEMMA ThirdPoint ==
    ASSUME NEW x1 \in Fe, NEW y1 \in Fe, NEW x2 \in Fe, NEW y2 \in Fe,
           NEW l \in Fe, NEW x3 \in Fe, NEW y3 \in Fe,
           Cg(y1 * y1, (x1 * (x1 * x1)) + 7), Cg(y2 * y2, (x2 * (x2 * x2)) + 7),
           Cg(x3, (l * l) - (x1 + x2)), Cg(y3, (l * (x1 - x3)) - y1),
           IF x1 # x2 THEN Cg(l * (x2 - x1), y2 - y1)
                      ELSE Cg(l * (2 * y1), 3 * (x1 * x1))
    PROVE  Cg(y3 * y3, (x3 * (x3 * x3)) + 7)
<1>0. /\ x1 \in Int /\ y1 \in Int /\ x2 \in Int /\ y2 \in Int /\ l \in Int
      /\ x3 \in Int /\ y3 \in Int /\ 0 \in Int
  BY FieldPrime
<1>1. PICK b, ll, lb \in Int : b = y1 - (l * x1) /\ ll = l * l /\ lb = l * b
  <2>1. PICK b \in Int : b = y1 - (l * x1)
    BY <1>0
  <2> QED BY <1>0, <2>1
<1>2. PICK r \in Int : r = ll - (x1 + x2) /\ Cg(x3, r)
  BY <1>0, <1>1
<1>3. PICK p12, p1r, p2r \in Int : p12 = x1 * x2 /\ p1r = x1 * r /\ p2r = x2 * r
  BY <1>0
<1>4. PICK c1, c0 \in Int : /\ c1 = 0 - ((2 * lb) + ((p12 + p1r) + p2r))
                            /\ c0 = (7 - (b * b)) + (x1 * p2r)
  BY <1>0, <1>1, <1>3
\* The cubic at t, against the line's value there.
<1>5. \A t, s \in Int :
         s = (l * t) + b =>
            ((t * (t * t)) + 7) - (s * s)
                = (((t - x1) * (t - x2)) * (t - r)) + ((c1 * t) + c0)
  <2> SUFFICES ASSUME NEW t \in Int, NEW s \in Int, s = (l * t) + b
               PROVE  ((t * (t * t)) + 7) - (s * s)
                        = (((t - x1) * (t - x2)) * (t - r)) + ((c1 * t) + c0)
    OBVIOUS
  <2>1. PICK tt, bb, lt \in Int : tt = t * t /\ bb = b * b /\ lt = l * t
    BY <1>0
  <2>2. s * s = (ll * tt) + ((2 * (lb * t)) + bb)
    BY <1>0, <1>1, <2>1
  <2>3. (t - x1) * (t - x2) = tt - ((x1 + x2) * t) + p12
    BY <1>0, <1>3, <2>1
  <2>4. PICK v, u \in Int : v = (t - x1) * (t - x2) /\ u = x1 + x2
    BY <1>0
  <2>5. v * (t - r) = ((t * tt) - (u * tt) + (p12 * t)) - ((r * tt) - ((u * r) * t) + (p12 * r))
    BY <1>3, <2>1, <2>3, <2>4
  <2>6. (u * r) * t = (p1r + p2r) * t
    BY <1>0, <1>3, <2>4
  <2>7. (r * tt) + (u * tt) = ll * tt
    BY <1>0, <1>1, <1>2, <2>1, <2>4
  <2>8. p12 * r = x1 * p2r
    BY <1>0, <1>3
  <2>9. c1 * t = 0 - ((2 * (lb * t)) + ((p12 * t) + ((p1r + p2r) * t)))
    BY <1>1, <1>3, <1>4
  <2>10. PICK e1, e2, e3, e4, e5, e6, e7, e8 \in Int :
            /\ e1 = ll * tt /\ e2 = lb * t /\ e3 = t * tt /\ e4 = u * tt
            /\ e5 = p12 * t /\ e6 = r * tt /\ e7 = (p1r + p2r) * t /\ e8 = x1 * p2r
    BY <1>0, <1>1, <1>3, <2>1, <2>4
  <2>11. s * s = e1 + ((2 * e2) + bb)
    BY <2>2, <2>10
  <2>12. v * (t - r) = ((e3 - e4) + e5) - ((e6 - e7) + e8)
    BY <2>5, <2>6, <2>8, <2>10
  <2>13. e6 + e4 = e1
    BY <2>7, <2>10
  <2>14. c1 * t = 0 - ((2 * e2) + (e5 + e7)) /\ c0 = (7 - bb) + e8
    BY <1>4, <2>1, <2>9, <2>10
  <2>15. t * (t * t) = e3
    BY <2>1, <2>10
  <2>16. PICK n1, n2, n3, n4 : n1 = t * (t * t) /\ n2 = s * s /\ n3 = v * (t - r) /\ n4 = c1 * t
    OBVIOUS
  <2>17. /\ n1 = e3 /\ n2 = e1 + ((2 * e2) + bb)
         /\ n3 = ((e3 - e4) + e5) - ((e6 - e7) + e8) /\ n4 = 0 - ((2 * e2) + (e5 + e7))
    BY <2>11, <2>12, <2>14, <2>15, <2>16
  <2>18. (n1 + 7) - n2 = n3 + (n4 + c0)
    BY <2>1, <2>10, <2>13, <2>14, <2>17
  <2> QED BY <2>4, <2>16, <2>18
\* It vanishes at both points.
<1>6. Cg((c1 * x1) + c0, 0)
  <2>1. PICK s \in Int : s = (l * x1) + b
    BY <1>0, <1>1
  <2>2. s = y1
    BY <1>0, <1>1, <2>1
  <2>3. ((x1 * (x1 * x1)) + 7) - (y1 * y1)
            = (((x1 - x1) * (x1 - x2)) * (x1 - r)) + ((c1 * x1) + c0)
    BY <1>0, <1>5, <2>1, <2>2
  <2>4. ((x1 - x1) * (x1 - x2)) * (x1 - r) = 0
    <3>1. PICK e, f \in Int : e = x1 - x2 /\ f = x1 - r
      BY <1>0
    <3>2. x1 - x1 = 0 /\ 0 * e = 0 /\ 0 * f = 0
      BY <1>0
    <3> QED BY <3>1, <3>2
  <2>5. PICK yy, xx \in Int : yy = y1 * y1 /\ xx = x1 * x1
    BY <1>0
  <2>6. PICK k, n \in Int : k = (x1 * xx) + 7 /\ n = (c1 * x1) + c0
    BY <1>0
  <2>7. n = k - yy
    BY <1>0, <2>3, <2>4, <2>5, <2>6
  <2>8. Cg(k, yy)
    BY <2>5, <2>6, CgEquiv
  <2> QED BY <2>6, <2>7, <2>8, CgZero
<1>7. Cg(c1, 0)
  <2>1. CASE x1 # x2
    <3>1. PICK s, d \in Int : s = (l * x2) + b /\ d = x2 - x1
      BY <1>0, <1>1
    <3>2. Cg(s, y2)
      <4>1. s = y1 + (l * d)
        BY <1>0, <1>1, <3>1
      <4>2. PICK ld, dy \in Int : ld = l * d /\ dy = y2 - y1
        BY <1>0, <3>1
      <4>3. Cg(ld, dy) /\ Cg(y1, y1)
        BY <1>0, <2>1, <3>1, <4>2, CgEquiv
      <4>4. Cg(y1 + ld, y1 + dy)
        BY <1>0, <4>2, <4>3, CgPlus
      <4>5. y1 + dy = y2
        BY <1>0, <4>2
      <4> QED BY <4>1, <4>2, <4>4, <4>5
    <3>3. PICK yy, ss, xx, k, n \in Int : /\ yy = y2 * y2 /\ ss = s * s /\ xx = x2 * x2
                                          /\ k = (x2 * xx) + 7 /\ n = (c1 * x2) + c0
      <4>1. PICK xx \in Int : xx = x2 * x2
        BY <1>0
      <4>2. PICK k, n \in Int : k = (x2 * xx) + 7 /\ n = (c1 * x2) + c0
        BY <1>0, <4>1
      <4> QED BY <1>0, <3>1, <4>1, <4>2
    <3>4. (((x2 - x1) * (x2 - x2)) * (x2 - r)) = 0
      <4>1. PICK f \in Int : f = x2 - r
        BY <1>0
      <4>2. x2 - x2 = 0 /\ d * 0 = 0 /\ 0 * f = 0
        BY <1>0, <3>1
      <4> QED BY <3>1, <4>1, <4>2
    <3>5. ((x2 * (x2 * x2)) + 7) - (s * s)
            = (((x2 - x1) * (x2 - x2)) * (x2 - r)) + ((c1 * x2) + c0)
      BY <1>0, <1>5, <3>1
    <3>6. n = k - ss
      BY <1>0, <3>3, <3>4, <3>5
    <3>7. Cg(k, ss)
      <4>1. Cg(ss, yy)
        BY <1>0, <3>1, <3>2, <3>3, CgTimes
      <4>2. Cg(yy, k)
        BY <3>3
      <4> QED BY <3>3, <4>1, <4>2, CgEquiv
    <3>8. Cg(n, 0)
      BY <3>3, <3>6, <3>7, CgZero
    <3>9. PICK m, u \in Int : m = (c1 * x1) + c0 /\ u = c1 * d
      BY <1>0, <3>1
    <3>10. n = m + u
      BY <1>0, <3>1, <3>3, <3>9
    <3>11. Cg(u, 0)
      BY <1>6, <3>8, <3>9, <3>10, CgZero
    <3>12. ~Cg(d, 0)
      <4>1. Cg(d, 0) => Cg(x2, x1)
        BY <1>0, <3>1, CgZero
      <4> QED BY <2>1, <4>1, CgEqual
    <3> QED BY <3>1, <3>9, <3>11, <3>12, CgFactor
  <2>2. CASE x1 = x2
    <3>1. PICK xx, ly \in Int : xx = x1 * x1 /\ ly = l * (2 * y1)
      BY <1>0
    <3>2. PICK e \in Int : e = 3 * xx /\ Cg(ly, e)
      BY <2>2, <3>1
    <3>3. c1 = e - ly
      <4>1. p12 = xx /\ p1r = p2r
        BY <2>2, <1>3, <3>1
      <4>2. PICK lx \in Int : lx = ll * x1
        BY <1>0, <1>1
      <4>3. p1r = lx - (2 * xx)
        BY <1>0, <1>2, <1>3, <2>2, <3>1, <4>2
      <4>4. PICK ly1 \in Int : ly1 = l * y1
        BY <1>0
      <4>5. lb = ly1 - lx
        BY <1>0, <1>1, <4>2, <4>4
      <4>6. ly = 2 * ly1
        BY <1>0, <3>1, <4>4
      <4> QED BY <1>4, <3>2, <4>1, <4>3, <4>5, <4>6
    <3>4. Cg(e, ly)
      BY <3>1, <3>2, CgEquiv
    <3> QED BY <3>1, <3>2, <3>3, <3>4, CgZero
  <2> QED BY <2>1, <2>2
\* So it is the product of the three factors.
<1>8. Cg(c0, 0)
  <2>1. PICK u, n \in Int : u = c1 * x1 /\ n = u + c0
    BY <1>0
  <2>2. Cg(u, 0) /\ Cg(n, 0)
    BY <1>0, <1>6, <1>7, <2>1, CgZero
  <2> QED BY <2>1, <2>2, CgZero
<1>9. PICK s, ss, rrr \in Int : s = (l * r) + b /\ ss = s * s /\ rrr = r * (r * r)
  <2>1. PICK s, rr \in Int : s = (l * r) + b /\ rr = r * r
    BY <1>0
  <2> QED BY <2>1
<1>10. Cg(rrr + 7, ss)
  <2>1. PICK u, n \in Int : u = c1 * r /\ n = u + c0
    OBVIOUS
  <2>2. ((r - x1) * (r - x2)) * (r - r) = 0
    <3>1. PICK e \in Int : e = (r - x1) * (r - x2)
      BY <1>0
    <3>2. r - r = 0 /\ e * 0 = 0
      OBVIOUS
    <3> QED BY <3>1, <3>2
  <2>3. ((r * (r * r)) + 7) - (s * s)
          = (((r - x1) * (r - x2)) * (r - r)) + ((c1 * r) + c0)
    BY <1>5, <1>9
  <2>4. n = (rrr + 7) - ss
    BY <1>9, <2>1, <2>2, <2>3
  <2>5. Cg(n, 0)
    BY <1>7, <1>8, <2>1, CgZero
  <2>6. PICK k \in Int : k = rrr + 7
    OBVIOUS
  <2> QED BY <1>9, <2>4, <2>5, <2>6, CgZero
<1>11. Cg(y3 * y3, ss)
  <2>1. PICK t, lx, lr \in Int : t = (l * (x1 - x3)) - y1 /\ lx = l * x3 /\ lr = l * r
    BY <1>0
  <2>2. t = 0 - (lx + b) /\ s = lr + b
    BY <1>0, <1>1, <1>9, <2>1
  <2>3. Cg(l, l) /\ Cg(b, b) /\ Cg(0, 0)
    BY <1>0, CgEquiv
  <2>4. Cg(lx, lr)
    BY <1>0, <1>2, <2>1, <2>3, CgTimes
  <2>5. PICK v, w \in Int : v = lx + b /\ w = 0 - s
    BY <1>9
  <2>6. Cg(v, s)
    BY <1>9, <2>1, <2>2, <2>3, <2>4, <2>5, CgPlus
  <2>7. Cg(t, w)
    <3>1. Cg(0 - v, 0 - s)
      BY <1>0, <1>9, <2>3, <2>5, <2>6, CgMinus
    <3> QED BY <2>2, <2>5, <3>1
  <2>8. Cg(y3, w)
    BY <1>0, <2>1, <2>5, <2>7, CgEquiv
  <2>9. Cg(y3 * y3, w * w)
    BY <1>0, <2>5, <2>8, CgTimes
  <2>10. w * w = ss
    BY <1>9, <2>5
  <2> QED BY <2>9, <2>10
<1>12. Cg(rrr + 7, (x3 * (x3 * x3)) + 7)
  <2>1. PICK rr, xx \in Int : rr = r * r /\ xx = x3 * x3
    BY <1>0
  <2>2. PICK xxx \in Int : xxx = x3 * xx
    BY <1>0, <2>1
  <2>3. Cg(r, x3) /\ Cg(7, 7) /\ 7 \in Int
    BY <1>0, <1>2, CgEquiv
  <2>4. Cg(rr, xx)
    BY <1>0, <2>1, <2>3, CgTimes
  <2>5. Cg(rrr, xxx)
    BY <1>0, <1>9, <2>1, <2>2, <2>3, <2>4, CgTimes
  <2>6. Cg(rrr + 7, xxx + 7)
    BY <1>9, <2>2, <2>3, <2>5, CgPlus
  <2> QED BY <2>1, <2>2, <2>6
<1>13. PICK yy, k, m \in Int : yy = y3 * y3 /\ k = (x3 * (x3 * x3)) + 7 /\ m = rrr + 7
  <2>1. PICK xx \in Int : xx = x3 * x3
    BY <1>0
  <2> QED BY <1>0, <1>9, <2>1
<1>14. Cg(yy, ss) /\ Cg(m, ss) /\ Cg(m, k)
  BY <1>10, <1>11, <1>12, <1>13
<1> QED BY <1>9, <1>13, <1>14, CgEquiv

\* The points of the curve, with the one at infinity.
Points == CurvePoints \union {NoPoint}

\* Chords and tangents stay on the curve.
LEMMA ChordTangentClosed ==
    ASSUME NEW p \in Points, NEW q \in Points
    PROVE  ChordTangent(p, q) \in Points
<1>1. CASE p = NoPoint \/ q = NoPoint
  BY <1>1 DEF ChordTangent
<1>2. CASE p # NoPoint /\ q # NoPoint /\ p.x = q.x /\ FeAdd(p.y, q.y) = 0
  BY <1>2 DEF ChordTangent, Points
<1>3. CASE p # NoPoint /\ q # NoPoint /\ ~(p.x = q.x /\ FeAdd(p.y, q.y) = 0)
  <2>1. p \in CurvePoints /\ q \in CurvePoints
    BY <1>3 DEF Points
  <2>2. PICK l, x3, y3 \in Fe : IsSum(p, q, l, x3, y3)
    BY <1>3, <2>1, ChordCase
  <2>3. /\ p.x \in Fe /\ p.y \in Fe /\ q.x \in Fe /\ q.y \in Fe
        /\ Cg(p.y * p.y, (p.x * (p.x * p.x)) + 7) /\ Cg(q.y * q.y, (q.x * (q.x * q.x)) + 7)
    BY <2>1, PointFacts
  <2>4. PICK x1, y1, x2, y2 : x1 = p.x /\ y1 = p.y /\ x2 = q.x /\ y2 = q.y
    OBVIOUS
  <2>5. /\ Cg(x3, (l * l) - (x1 + x2)) /\ Cg(y3, (l * (x1 - x3)) - y1)
        /\ IF x1 # x2 THEN Cg(l * (x2 - x1), y2 - y1)
                      ELSE Cg(l * (2 * y1), 3 * (x1 * x1))
    BY <2>2, <2>4 DEF IsSum
  <2>6. /\ x1 \in Fe /\ y1 \in Fe /\ x2 \in Fe /\ y2 \in Fe
        /\ Cg(y1 * y1, (x1 * (x1 * x1)) + 7) /\ Cg(y2 * y2, (x2 * (x2 * x2)) + 7)
    BY <2>3, <2>4
  <2>7. Cg(y3 * y3, (x3 * (x3 * x3)) + 7)
    BY <2>5, <2>6, ThirdPoint
  <2>8. Affine(x3, y3) \in CurvePoints
    BY <2>7, PointIs
  <2> QED BY <2>2, <2>8 DEF IsSum, Points
<1> QED BY <1>1, <1>2, <1>3

-----------------------------------------------------------------------------
(* Jacobian coordinates.                                                   *)

Jacobian == [X : Fe, Y : Fe, Z : Fe]
\* j represents p.
Stands(j, p) ==
    /\ j \in Jacobian
    /\ IF p = NoPoint THEN j.Z = 0
       ELSE /\ j.Z # 0 /\ Cg(j.X, p.x * (j.Z * j.Z))
            /\ Cg(j.Y, p.y * (j.Z * (j.Z * j.Z)))

\* JInfinity represents the point at infinity.
LEMMA InfinityStands == Stands(JInfinity, NoPoint)
BY FieldPrime DEF Stands, JInfinity, Jacobian, Jac, Fe

\* to_jacobian() of a point represents it.
LEMMA JacobianStands ==
    ASSUME NEW p \in CurvePoints
    PROVE  Stands(Jac(p.x, p.y, 1), p)
<1>1. p.x \in Fe /\ p.y \in Fe /\ p.x \in Int /\ p.y \in Int /\ p # NoPoint /\ 1 \in Fe
  BY PointFacts, FieldPrime DEF Fe
<1>2. 1 * 1 = 1 /\ p.x * 1 = p.x /\ p.y * 1 = p.y
  BY <1>1
<1>3. Cg(p.x, p.x) /\ Cg(p.y, p.y)
  BY <1>1, CgEquiv
<1> QED BY <1>1, <1>2, <1>3 DEF Stands, Jac, Jacobian

\* Any scale gives a representative.
LEMMA ScaledStands ==
    ASSUME NEW p \in Points, NEW z \in Scales
    PROVE  Stands(Scaled(p, z), p)
<1>1. CASE p = NoPoint
  BY <1>1, InfinityStands DEF Scaled
<1>2. CASE p # NoPoint
  <2>0. p \in CurvePoints
    BY <1>2 DEF Points
  <2>1. /\ p.x \in Int /\ p.y \in Int /\ z \in Fe /\ z \in Int /\ z # 0
        /\ Cg(z, z) /\ Cg(p.x, p.x) /\ Cg(p.y, p.y)
    BY <2>0, PointFacts, CallAssumption, FieldPrime, CgEquiv DEF Fe
  <2>2. PICK zz \in Int : zz = z * z
    BY <2>1
  <2>3. PICK zzz, xz \in Int : zzz = z * zz /\ xz = p.x * zz
    BY <2>1
  <2>4. PICK yz \in Int : yz = p.y * zzz
    BY <2>1
  <2>5. PICK a, b : a = FeSqr(z) /\ b = FeMul(z, a)
    OBVIOUS
  <2>6. a \in Int /\ Cg(a, zz)
    BY <2>1, <2>2, <2>5, FeOps
  <2>7. b \in Int
    BY <2>1, <2>5, <2>6, FeOps
  <2>8. Cg(b, zzz)
    BY <2>1, <2>2, <2>3, <2>5, <2>6, FeCg
  <2>9. PICK f, g : f = FeMul(p.x, a) /\ g = FeMul(p.y, b)
    OBVIOUS
  <2>10. f \in Fe /\ g \in Fe
    BY <2>1, <2>6, <2>7, <2>9, FeOps
  <2>11. Cg(f, xz)
    BY <2>1, <2>2, <2>3, <2>6, <2>9, FeCg
  <2>12. Cg(g, yz)
    BY <2>1, <2>3, <2>4, <2>7, <2>8, <2>9, FeCg
  <2>13. Scaled(p, z) = Jac(f, g, z)
    BY <1>2, <2>5, <2>9 DEF Scaled
  <2> QED BY <1>2, <2>1, <2>2, <2>3, <2>4, <2>10, <2>11, <2>12, <2>13 DEF Stands, Jac, Jacobian
<1> QED BY <1>1, <1>2

\* Back to affine coordinates.
LEMMA AffineOf ==
    ASSUME NEW j, NEW p \in Points, Stands(j, p)
    PROVE  /\ IsInfinity(j) <=> p = NoPoint
           /\ JToAffine(j) = IF p = NoPoint THEN Sentinel ELSE p
<1>1. CASE p = NoPoint
  BY <1>1 DEF Stands, IsInfinity, JToAffine
<1>2. CASE p # NoPoint
  <2>0. p \in CurvePoints
    BY <1>2 DEF Points
  <2>1. PICK X, Y, Z : X = j.X /\ Y = j.Y /\ Z = j.Z
    OBVIOUS
  <2>2. X \in Fe /\ Y \in Fe /\ Z \in Fe /\ Z # 0 /\ X \in Int /\ Y \in Int /\ Z \in Int
    BY <1>2, <2>1, FieldPrime DEF Stands, Jacobian
  <2>3. /\ p.x \in Fe /\ p.y \in Fe /\ p.x \in Int /\ p.y \in Int /\ p = Affine(p.x, p.y)
    BY <2>0, PointFacts
  <2>4. PICK i \in Int : i = FeInv[Z] /\ Cg(i * Z, 1)
    BY <2>2, InverseRight
  <2>5. PICK e \in Int : e = i * Z /\ Cg(e, 1)
    BY <2>2, <2>4
  <2>6. PICK zz, ii, ee \in Int : zz = Z * Z /\ ii = i * i /\ ee = e * e
    BY <2>2
  <2>7. PICK zzz, iii, eee \in Int : zzz = Z * zz /\ iii = ii * i /\ eee = e * ee
    BY <2>2
  <2>8. Cg(ee, 1) /\ Cg(eee, 1)
    <3>1. 1 * 1 = 1 /\ 1 \in Int
      OBVIOUS
    <3>2. Cg(e * e, 1 * 1)
      BY <2>5, <3>1, CgTimes
    <3>3. Cg(e * ee, 1 * 1)
      BY <2>5, <2>6, <3>1, <3>2, CgTimes
    <3> QED BY <2>6, <2>7, <3>1, <3>2, <3>3
  <2>9. PICK xz, yz \in Int : xz = p.x * zz /\ yz = p.y * zzz
    BY <2>3
  <2>10. Cg(X, xz) /\ Cg(Y, yz)
    BY <1>2, <2>1, <2>6, <2>7, <2>9 DEF Stands
  <2>11. PICK a, b : a = FeSqr(i) /\ b = FeMul(a, i)
    OBVIOUS
  <2>12. a \in Int /\ Cg(a, ii)
    BY <2>4, <2>6, <2>11, FeOps
  <2>13. b \in Int
    BY <2>4, <2>11, <2>12, FeOps
  <2>14. Cg(b, iii)
    <3>1. Cg(i, i)
      BY <2>4, CgEquiv
    <3> QED BY <2>4, <2>6, <2>7, <2>11, <2>12, <3>1, FeCg
  <2>15. PICK f, g : f = FeMul(X, a) /\ g = FeMul(Y, b)
    OBVIOUS
  <2>16. f \in Fe /\ f \in Int /\ g \in Fe /\ g \in Int
    BY <2>2, <2>12, <2>13, <2>15, FeOps
  <2>17. Cg(f, xz * ii)
    BY <2>2, <2>6, <2>9, <2>10, <2>12, <2>15, FeCg
  <2>18. Cg(g, yz * iii)
    BY <2>2, <2>7, <2>9, <2>10, <2>13, <2>14, <2>15, FeCg
  <2>19. xz * ii = p.x * ee /\ yz * iii = p.y * eee
    <3>1. zz * ii = ee
      BY <2>2, <2>5, <2>6
    <3>2. zzz * iii = eee
      BY <2>2, <2>5, <2>6, <2>7, <3>1
    <3>3. xz * ii = p.x * (zz * ii) /\ yz * iii = p.y * (zzz * iii)
      BY <2>3, <2>6, <2>7, <2>9
    <3> QED BY <3>1, <3>2, <3>3
  <2>20. Cg(p.x * ee, p.x) /\ Cg(p.y * eee, p.y)
    <3>1. Cg(p.x, p.x) /\ Cg(p.y, p.y) /\ 1 \in Int
      BY <2>3, CgEquiv
    <3>2. Cg(p.x * ee, p.x * 1) /\ Cg(p.y * eee, p.y * 1)
      BY <2>3, <2>6, <2>7, <2>8, <3>1, CgTimes
    <3>3. p.x * 1 = p.x /\ p.y * 1 = p.y
      BY <2>3
    <3> QED BY <3>2, <3>3
  <2>21. PICK u, v \in Int : u = p.x * ee /\ v = p.y * eee
    BY <2>3
  <2>22. Cg(f, p.x) /\ Cg(g, p.y)
    <3>1. Cg(f, u) /\ Cg(u, p.x) /\ Cg(g, v) /\ Cg(v, p.y)
      BY <2>17, <2>18, <2>19, <2>20, <2>21
    <3>2. PICK x, y \in Int : x = p.x /\ y = p.y
      BY <2>3
    <3>3. f \in Int /\ g \in Int
      BY <2>16
    <3>4. Cg(f, u) /\ Cg(u, x) => Cg(f, x)
      BY <3>3, CgEquiv
    <3>5. Cg(g, v) /\ Cg(v, y) => Cg(g, y)
      BY <3>3, CgEquiv
    <3> QED BY <3>1, <3>2, <3>4, <3>5
  <2>23. f = p.x /\ g = p.y
    BY <2>3, <2>16, <2>22, CgEqual
  <2>24. ~IsInfinity(j)
    BY <2>1, <2>2 DEF IsInfinity
  <2>25. JToAffine(j) = Affine(f, g)
    BY <2>1, <2>4, <2>11, <2>15, <2>24 DEF JToAffine
  <2> QED BY <1>2, <2>3, <2>23, <2>24, <2>25
<1> QED BY <1>1, <1>2

\* A product with a power of Z is zero only when the other factor is.
LEMMA ScaledNotZero ==
    ASSUME NEW a \in Int, NEW z \in Int, ~Cg(z, 0)
    PROVE  /\ Cg(a * (z * z), 0) => Cg(a, 0)
           /\ Cg(a * (z * (z * z)), 0) => Cg(a, 0)
<1>1. PICK zz \in Int : zz = z * z
  OBVIOUS
<1>2. PICK zzz \in Int : zzz = z * zz
  BY <1>1
<1>3. ~Cg(zz, 0) /\ ~Cg(zzz, 0)
  BY <1>1, <1>2, CgFactor
<1> QED BY <1>1, <1>2, <1>3, CgFactor

\* jpoint_double doubles.
LEMMA DoubleStands ==
    ASSUME NEW p \in Points, NEW j, Stands(j, p)
    PROVE  Stands(JDouble(j), ChordTangent(p, p))
<1>1. CASE p = NoPoint
  BY <1>1, InfinityStands DEF Stands, JDouble, IsInfinity, ChordTangent
<1>2. CASE p # NoPoint
  <2>0. p \in CurvePoints
    BY <1>2 DEF Points
  <2>1. /\ j.X \in Fe /\ j.Y \in Fe /\ j.Z \in Fe /\ j.Z # 0
        /\ Cg(j.X, p.x * (j.Z * j.Z)) /\ Cg(j.Y, p.y * (j.Z * (j.Z * j.Z)))
    BY <1>2 DEF Stands, Jacobian
  <2>2. j.X \in Int /\ j.Y \in Int /\ j.Z \in Int /\ ~Cg(j.Z, 0) /\ 0 \in Int /\ 0 \in Fe
    BY <2>1, FieldPrime, CgNotZero DEF Fe
  <2>3. p.x \in Fe /\ p.y \in Fe /\ p.x \in Int /\ p.y \in Int
    BY <2>0, PointFacts
  <2>4. PICK zz \in Int : zz = j.Z * j.Z
    BY <2>2
  <2>5. PICK yz \in Int : yz = p.y * (j.Z * zz)
    BY <2>2, <2>3
  <2>6. Cg(j.Y, yz)
    BY <2>1, <2>4, <2>5
  <2>7. j.Y = 0 <=> p.y = 0
    <3>1. j.Y = 0 => Cg(p.y, 0)
      <4>1. j.Y = 0 => Cg(yz, 0)
        BY <2>2, <2>6, CgEquiv
      <4> QED BY <2>2, <2>3, <2>4, <2>5, <4>1, ScaledNotZero
    <3>2. p.y = 0 => yz = 0
      <4>1. PICK n \in Int : n = j.Z * zz
        BY <2>2, <2>4
      <4>2. 0 * n = 0
        OBVIOUS
      <4> QED BY <2>5, <4>1, <4>2
    <3> QED BY <2>1, <2>2, <2>3, <2>6, <3>1, <3>2, CgEqual, CgNotZero
  <2>8. CASE p.y = 0
    <3>1. JDouble(j) = JInfinity
      BY <2>7, <2>8 DEF JDouble
    <3>2. FeAdd(0, 0) = 0
      <4>1. 0 + 0 = 0 /\ 0 % P = 0
        BY FieldPrime, ModSmall
      <4> QED BY <4>1 DEF FeAdd
    <3>3. ChordTangent(p, p) = NoPoint
      BY <1>2, <2>8, <3>2 DEF ChordTangent
    <3> QED BY <3>1, <3>3, InfinityStands
  <2>9. CASE p.y # 0
    <3>1. FeAdd(p.y, p.y) # 0
      BY <2>3, <2>9, Doubled
    <3>2. PICK l, x3, y3 \in Fe : IsSum(p, p, l, x3, y3)
      BY <2>0, <3>1, ChordCase
    <3>3. /\ ChordTangent(p, p) = Affine(x3, y3)
          /\ Cg(x3, (l * l) - (p.x + p.x)) /\ Cg(y3, (l * (p.x - x3)) - p.y)
          /\ Cg(l * (2 * p.y), 3 * (p.x * p.x))
      BY <3>2 DEF IsSum
    <3>4. PICK A, C : A = FeSqr(j.X) /\ C = FeSqr(FeSqr(j.Y))
      OBVIOUS
    <3>5. PICK D, E : D = FeMul(2, (FeSqr(FeAdd(j.X, FeSqr(j.Y))) - A) - C) /\ E = FeMul(3, A)
      OBVIOUS
    <3>6. PICK XR : XR = FeSub(FeSqr(E), 2 * D)
      OBVIOUS
    <3>7. PICK YR, ZR : YR = FeSub(E * FeSub(D, XR), 8 * C) /\ ZR = FeMul(2, j.Y * j.Z)
      OBVIOUS
    <3>8. PICK X, Y, Z, x1, y1 : X = j.X /\ Y = j.Y /\ Z = j.Z /\ x1 = p.x /\ y1 = p.y
      OBVIOUS
    <3>9. /\ X \in Fe /\ Y \in Fe /\ Z \in Fe /\ x1 \in Fe /\ y1 \in Fe
          /\ Cg(X, x1 * (Z * Z)) /\ Cg(Y, y1 * (Z * (Z * Z)))
          /\ Cg(l * (2 * y1), 3 * (x1 * x1))
          /\ Cg(x3, (l * l) - (x1 + x1)) /\ Cg(y3, (l * (x1 - x3)) - y1)
      BY <2>1, <2>3, <3>3, <3>8
    <3>10. /\ A = FeSqr(X) /\ C = FeSqr(FeSqr(Y))
           /\ D = FeMul(2, (FeSqr(FeAdd(X, FeSqr(Y))) - A) - C) /\ E = FeMul(3, A)
           /\ XR = FeSub(FeSqr(E), 2 * D)
           /\ YR = FeSub(E * FeSub(D, XR), 8 * C) /\ ZR = FeMul(2, Y * Z)
      BY <3>4, <3>5, <3>6, <3>7, <3>8
    <3>11. /\ XR \in Fe /\ YR \in Fe /\ ZR \in Fe
           /\ Cg(ZR, 2 * (y1 * ((Z * Z) * (Z * Z))))
           /\ Cg(XR, x3 * (ZR * ZR)) /\ Cg(YR, y3 * (ZR * (ZR * ZR)))
      <4>1. TangentSteps(X, Y, Z, x1, y1, l, x3, y3, A, C, D, E, XR, YR, ZR)
        BY <3>9, <3>10 DEF TangentSteps
      <4> QED BY <4>1, TangentFormula
    <3>12. ZR # 0
      <4> SUFFICES ASSUME ZR = 0 PROVE FALSE
        OBVIOUS
      <4>1. PICK w, v \in Int : w = (Z * Z) * (Z * Z) /\ v = y1 * w
        <5>1. zz * zz \in Int
          BY <2>4
        <5> QED BY <2>3, <2>4, <3>8, <5>1
      <4>2. PICK m \in Int : m = 2 * v
        BY <4>1
      <4>3. Cg(m, 0)
        BY <2>2, <3>11, <4>1, <4>2, CgEquiv
      <4>4. Cg(v, 0)
        BY <4>1, <4>2, <4>3, TwiceNotZero
      <4>5. ~Cg(w, 0)
        <5>1. ~Cg(zz, 0) /\ w = zz * zz
          BY <2>2, <2>4, <3>8, <4>1, CgFactor
        <5> QED BY <2>4, <5>1, CgFactor
      <4>6. Cg(y1, 0)
        BY <2>3, <3>8, <4>1, <4>4, <4>5, CgFactor
      <4> QED BY <2>3, <2>9, <3>8, <4>6, CgNotZero
    <3>13. JDouble(j) = Jac(XR, YR, ZR)
      <4>1. ~(j.Y = 0 \/ IsInfinity(j))
        BY <2>1, <2>7, <2>9 DEF IsInfinity
      <4> QED BY <3>4, <3>5, <3>6, <3>7, <4>1 DEF JDouble
    <3>14. Affine(x3, y3) # NoPoint
      <4>1. P \notin Fe
        BY FieldPrime DEF Fe
      <4> QED BY <4>1 DEF Affine, NoPoint
    <3>15. Affine(x3, y3).x = x3 /\ Affine(x3, y3).y = y3
      BY DEF Affine
    <3>16. Jac(XR, YR, ZR) \in Jacobian /\ Jac(XR, YR, ZR).X = XR
           /\ Jac(XR, YR, ZR).Y = YR /\ Jac(XR, YR, ZR).Z = ZR
      BY <3>11 DEF Jac, Jacobian
    <3> QED BY <3>3, <3>11, <3>12, <3>13, <3>14, <3>15, <3>16 DEF Stands
  <2> QED BY <2>8, <2>9
<1> QED BY <1>1, <1>2

\* jpoint_add adds, whatever the representatives.
LEMMA AddStands ==
    ASSUME NEW p \in Points, NEW q \in Points, NEW j, NEW k, Stands(j, p), Stands(k, q)
    PROVE  Stands(JAdd(j, k), ChordTangent(p, q))
<1>0. (IsInfinity(j) <=> p = NoPoint) /\ (IsInfinity(k) <=> q = NoPoint)
  BY AffineOf
<1>1. CASE p = NoPoint
  BY <1>0, <1>1 DEF JAdd, ChordTangent
<1>2. CASE p # NoPoint /\ q = NoPoint
  BY <1>0, <1>2 DEF JAdd, ChordTangent
<1>3. CASE p # NoPoint /\ q # NoPoint
  <2>0. p \in CurvePoints /\ q \in CurvePoints /\ ~IsInfinity(j) /\ ~IsInfinity(k)
    BY <1>0, <1>3 DEF Points
  <2>1. /\ j.X \in Fe /\ j.Y \in Fe /\ j.Z \in Fe /\ j.Z # 0
        /\ Cg(j.X, p.x * (j.Z * j.Z)) /\ Cg(j.Y, p.y * (j.Z * (j.Z * j.Z)))
        /\ k.X \in Fe /\ k.Y \in Fe /\ k.Z \in Fe /\ k.Z # 0
        /\ Cg(k.X, q.x * (k.Z * k.Z)) /\ Cg(k.Y, q.y * (k.Z * (k.Z * k.Z)))
    BY <1>3 DEF Stands, Jacobian
  <2>2. PICK X1, Y1, Z1, X2, Y2, Z2 :
           X1 = j.X /\ Y1 = j.Y /\ Z1 = j.Z /\ X2 = k.X /\ Y2 = k.Y /\ Z2 = k.Z
    OBVIOUS
  <2>3. PICK x1, y1, x2, y2 : x1 = p.x /\ y1 = p.y /\ x2 = q.x /\ y2 = q.y
    OBVIOUS
  <2>4. /\ X1 \in Fe /\ Y1 \in Fe /\ Z1 \in Fe /\ X2 \in Fe /\ Y2 \in Fe /\ Z2 \in Fe
        /\ Z1 # 0 /\ Z2 # 0
        /\ Cg(X1, x1 * (Z1 * Z1)) /\ Cg(Y1, y1 * (Z1 * (Z1 * Z1)))
        /\ Cg(X2, x2 * (Z2 * Z2)) /\ Cg(Y2, y2 * (Z2 * (Z2 * Z2)))
    BY <2>1, <2>2, <2>3
  <2>5. /\ x1 \in Fe /\ y1 \in Fe /\ x2 \in Fe /\ y2 \in Fe
        /\ x1 \in Int /\ y1 \in Int /\ x2 \in Int /\ y2 \in Int
    BY <2>0, <2>3, PointFacts
  <2>6. Z1 \in Int /\ Z2 \in Int /\ ~Cg(Z1, 0) /\ ~Cg(Z2, 0) /\ 0 \in Int /\ 0 \in Fe
    BY <2>4, FieldPrime, CgNotZero DEF Fe
  <2>7. PICK w, ww, www \in Int : w = Z1 * Z2 /\ ww = w * w /\ www = w * ww
    <3>1. PICK w \in Int : w = Z1 * Z2
      BY <2>6
    <3>2. PICK ww \in Int : ww = w * w
      OBVIOUS
    <3> QED BY <3>1, <3>2
  <2>8. ~Cg(w, 0) /\ ~Cg(ww, 0) /\ ~Cg(www, 0)
    BY <2>6, <2>7, CgFactor
  <2>9. PICK ZZ1, ZZ2 : ZZ1 = FeSqr(Z1) /\ ZZ2 = FeSqr(Z2)
    OBVIOUS
  <2>10. PICK U1, U2, S1, S2 : /\ U1 = FeMul(X1, ZZ2) /\ U2 = FeMul(X2, ZZ1)
                               /\ S1 = FeMul(Y1, FeMul(Z2, ZZ2)) /\ S2 = FeMul(Y2, FeMul(Z1, ZZ1))
    OBVIOUS
  <2>11. /\ U1 \in Fe /\ U2 \in Fe /\ S1 \in Fe /\ S2 \in Fe
         /\ U1 \in Int /\ U2 \in Int /\ S1 \in Int /\ S2 \in Int
         /\ Cg(U1, x1 * ww) /\ Cg(U2, x2 * ww) /\ Cg(S1, y1 * www) /\ Cg(S2, y2 * www)
    <3>1. Common(X1, Y1, Z1, X2, Y2, Z2, x1, y1, x2, y2, ZZ1, ZZ2, U1, U2, S1, S2, w, ww, www)
      BY <2>4, <2>5, <2>7, <2>9, <2>10 DEF Common
    <3> QED BY <3>1, Commensurate
  <2>12. PICK p1, p2, q1, q2 \in Int : p1 = x1 * ww /\ p2 = x2 * ww /\ q1 = y1 * www /\ q2 = y2 * www
    BY <2>5
  <2>13. Cg(U1, p1) /\ Cg(U2, p2) /\ Cg(S1, q1) /\ Cg(S2, q2)
    BY <2>11, <2>12
  <2>14. U1 = U2 <=> x1 = x2
    <3>1. U1 = U2 => x1 = x2
      <4> SUFFICES ASSUME U1 = U2 PROVE x1 = x2
        OBVIOUS
      <4>1. Cg(p1, p2)
        BY <2>11, <2>13, CgEquiv
      <4>2. p1 = ww * x1 /\ p2 = ww * x2
        BY <2>5, <2>12
      <4>3. Cg(x1, x2)
        BY <2>5, <2>8, <4>1, <4>2, CgCancel
      <4> QED BY <2>5, <4>3, CgEqual
    <3>2. x1 = x2 => U1 = U2
      <4> SUFFICES ASSUME x1 = x2 PROVE U1 = U2
        OBVIOUS
      <4>1. p1 = p2
        BY <2>12
      <4>2. Cg(U1, U2)
        BY <2>11, <2>13, <4>1, CgEquiv
      <4> QED BY <2>11, <4>2, CgEqual
    <3> QED BY <3>1, <3>2
  <2>15. S1 = S2 <=> y1 = y2
    <3>1. S1 = S2 => y1 = y2
      <4> SUFFICES ASSUME S1 = S2 PROVE y1 = y2
        OBVIOUS
      <4>1. Cg(q1, q2)
        BY <2>11, <2>13, CgEquiv
      <4>2. q1 = www * y1 /\ q2 = www * y2
        BY <2>5, <2>12
      <4>3. Cg(y1, y2)
        BY <2>5, <2>8, <4>1, <4>2, CgCancel
      <4> QED BY <2>5, <4>3, CgEqual
    <3>2. y1 = y2 => S1 = S2
      <4> SUFFICES ASSUME y1 = y2 PROVE S1 = S2
        OBVIOUS
      <4>1. q1 = q2
        BY <2>12
      <4>2. Cg(S1, S2)
        BY <2>11, <2>13, <4>1, CgEquiv
      <4> QED BY <2>11, <4>2, CgEqual
    <3> QED BY <3>1, <3>2
  <2>16. CASE x1 = x2 /\ y1 = y2
    <3>1. p = q
      <4>1. p = Affine(p.x, p.y) /\ q = Affine(q.x, q.y)
        BY <2>0, PointFacts
      <4> QED BY <2>3, <2>16, <4>1
    <3>2. JAdd(j, k) = JDouble(j)
      BY <2>0, <2>2, <2>9, <2>10, <2>14, <2>15, <2>16 DEF JAdd
    <3> QED BY <3>1, <3>2, DoubleStands
  <2>17. CASE x1 = x2 /\ y1 # y2
    <3>1. p # q
      BY <2>3, <2>17
    <3>2. FeAdd(p.y, q.y) = 0
      BY <2>0, <2>3, <2>17, <3>1, SameX
    <3>3. ChordTangent(p, q) = NoPoint
      BY <1>3, <2>3, <2>17, <3>2 DEF ChordTangent
    <3>4. JAdd(j, k) = JInfinity
      BY <2>0, <2>2, <2>9, <2>10, <2>14, <2>15, <2>17 DEF JAdd
    <3> QED BY <3>3, <3>4, InfinityStands
  <2>18. CASE x1 # x2
    <3>1. PICK l, x3, y3 \in Fe : IsSum(p, q, l, x3, y3)
      BY <2>0, <2>3, <2>18, ChordCase
    <3>2. /\ ChordTangent(p, q) = Affine(x3, y3)
          /\ Cg(x3, (l * l) - (x1 + x2)) /\ Cg(y3, (l * (x1 - x3)) - y1)
          /\ Cg(l * (x2 - x1), y2 - y1)
      BY <2>3, <2>18, <3>1 DEF IsSum
    <3>3. PICK H, R : H = FeSub(U2, U1) /\ R = FeMul(2, S2 - S1)
      OBVIOUS
    <3>4. PICK I : I = FeSqr(2 * H)
      OBVIOUS
    <3>5. PICK V : V = FeMul(U1, I)
      OBVIOUS
    <3>6. PICK XR : XR = FeSub(FeSqr(R), FeMul(H, I) + (2 * V))
      OBVIOUS
    <3>7. PICK YR, ZR : /\ YR = FeSub(FeMul(R, V - XR), 2 * FeMul(S1, FeMul(H, I)))
                        /\ ZR = FeMul((FeSqr(Z1 + Z2) - ZZ1) - ZZ2, H)
      OBVIOUS
    <3>8. /\ XR \in Fe /\ YR \in Fe /\ ZR \in Fe
          /\ Cg(ZR, 2 * ((x2 - x1) * ((Z1 * Z2) * ((Z1 * Z2) * (Z1 * Z2)))))
          /\ Cg(XR, x3 * (ZR * ZR)) /\ Cg(YR, y3 * (ZR * (ZR * ZR)))
      <4>1. ChordSteps(X1, Y1, Z1, X2, Y2, Z2, x1, y1, x2, y2, l, x3, y3, ZZ1, ZZ2,
                       U1, U2, S1, S2, H, I, R, V, XR, YR, ZR)
        BY <2>4, <2>5, <2>9, <2>10, <3>2, <3>3, <3>4, <3>5, <3>6, <3>7 DEF ChordSteps
      <4> QED BY <4>1, ChordFormula
    <3>9. ZR # 0
      <4> SUFFICES ASSUME ZR = 0 PROVE FALSE
        OBVIOUS
      <4>1. PICK d \in Int : d = x2 - x1
        BY <2>5
      <4>2. PICK v, m \in Int : v = d * www /\ m = 2 * v
        <5>1. PICK v \in Int : v = d * www
          BY <4>1
        <5> QED BY <5>1
      <4>3. Cg(m, 0)
        <5>1. Cg(0, m)
          BY <2>7, <3>8, <4>1, <4>2
        <5> QED BY <2>6, <4>2, <5>1, CgEquiv
      <4>4. Cg(v, 0)
        BY <4>2, <4>3, TwiceNotZero
      <4>5. Cg(d, 0)
        BY <2>8, <4>1, <4>2, <4>4, CgFactor
      <4>6. Cg(x2, x1)
        BY <2>5, <4>1, <4>5, CgZero
      <4> QED BY <2>5, <2>18, <4>6, CgEqual
    <3>10. JAdd(j, k) = Jac(XR, YR, ZR)
      BY <2>0, <2>2, <2>9, <2>10, <2>14, <2>18, <3>3, <3>4, <3>5, <3>6, <3>7 DEF JAdd
    <3>11. Affine(x3, y3) # NoPoint
      <4>1. P \notin Fe
        BY FieldPrime DEF Fe
      <4> QED BY <4>1 DEF Affine, NoPoint
    <3>12. Affine(x3, y3).x = x3 /\ Affine(x3, y3).y = y3
      BY DEF Affine
    <3>13. Jac(XR, YR, ZR) \in Jacobian /\ Jac(XR, YR, ZR).X = XR
           /\ Jac(XR, YR, ZR).Y = YR /\ Jac(XR, YR, ZR).Z = ZR
      BY <3>8 DEF Jac, Jacobian
    <3> QED BY <3>2, <3>8, <3>9, <3>10, <3>11, <3>12, <3>13 DEF Stands
  <2> QED BY <2>16, <2>17, <2>18
<1> QED BY <1>1, <1>2, <1>3

-----------------------------------------------------------------------------

\* jpoint_add returns what chords and tangents give, for every two points of
\* the curve and the one at infinity, whatever Z coordinates represent them.
THEOREM JacobianAdds ==
    ASSUME NEW p \in Points, NEW q \in Points, NEW y \in Scales, NEW z \in Scales
    PROVE  LET sum == JAdd(Scaled(p, y), Scaled(q, z))
           IN (IF IsInfinity(sum) THEN NoPoint ELSE JToAffine(sum)) = ChordTangent(p, q)
<1>1. Stands(JAdd(Scaled(p, y), Scaled(q, z)), ChordTangent(p, q))
  BY ScaledStands, AddStands
<1>2. ChordTangent(p, q) \in Points
  BY ChordTangentClosed
<1>3. PICK j, r : j = JAdd(Scaled(p, y), Scaled(q, z)) /\ r = ChordTangent(p, q)
  OBVIOUS
<1>4. /\ IsInfinity(j) <=> r = NoPoint
      /\ JToAffine(j) = IF r = NoPoint THEN Sentinel ELSE r
  BY <1>1, <1>2, <1>3, AffineOf
<1> QED BY <1>3, <1>4

\* Every call of jpoint_add returns the sum of its operands by chords and
\* tangents.
THEOREM AddsAreGroupLaw == PureSpec => []GroupLaw
<1>1. Init => GroupLaw
  BY DEF Init, GroupLaw
<1>2. GroupLaw /\ [PureNext]_vars => GroupLaw'
  <2> SUFFICES ASSUME GroupLaw, [PureNext]_vars, call'.op = "jpoint_add" PROVE GroupLaw'
    BY DEF GroupLaw
  <2>1. CASE UNCHANGED vars
    BY <2>1 DEF vars, GroupLaw
  <2>2. CASE vars' # vars
    <3>1. AddCall
      BY <2>2, WhichCall
    <3>2. PICK p, q \in Points, y, z \in Scales :
            /\ call' = [op |-> "jpoint_add", p |-> p, q |-> q, y |-> y, z |-> z]
            /\ out' = LET sum == JAdd(Scaled(p, y), Scaled(q, z))
                      IN IF IsInfinity(sum) THEN NoPoint ELSE JToAffine(sum)
      BY <3>1 DEF AddCall, Points
    <3>3. out' = ChordTangent(p, q)
      BY <3>2, JacobianAdds
    <3> QED BY <3>2, <3>3 DEF GroupLaw
  <2> QED BY <2>1, <2>2 DEF vars
<1> QED BY <1>1, <1>2, PTL DEF PureSpec

-----------------------------------------------------------------------------
(* Compressed points.                                                      *)

\* The negative of a number that is not zero has the other parity.
LEMMA Negated ==
    ASSUME NEW y \in Fe, y # 0
    PROVE  /\ FeNegate(y) \in Fe /\ FeNegate(y) # 0
           /\ FeIsOdd(FeNegate(y)) <=> ~FeIsOdd(y)
           /\ Cg(FeNegate(y) * FeNegate(y), y * y)
           /\ FeNegate(FeNegate(y)) = y
<1>1. P \in Nat /\ y \in Int /\ y > 0 /\ y < P
  BY FieldPrime DEF Fe
<1>2. PICK n \in Int : n = P - y /\ n \in 1 .. P - 1
  BY <1>1
<1>3. PICK h \in Nat : P = 4 * h + 3
  <2>1. P \div 4 \in Nat /\ P = 4 * (P \div 4) + (P % 4)
    BY <1>1, DivMod
  <2> QED BY <2>1, CurveAssumption
<1>4. PICK a, b \in Int : /\ y = 2 * a + (y % 2) /\ y % 2 \in 0 .. 1
                          /\ n = 2 * b + (n % 2) /\ n % 2 \in 0 .. 1
  <2>1. y \in Nat /\ n \in Nat /\ 2 \in Nat \ {0}
    BY <1>1, <1>2
  <2>2. /\ y \div 2 \in Nat /\ y = 2 * (y \div 2) + (y % 2) /\ y % 2 \in 0 .. 2 - 1
        /\ n \div 2 \in Nat /\ n = 2 * (n \div 2) + (n % 2) /\ n % 2 \in 0 .. 2 - 1
    BY <2>1, DivMod
  <2> QED BY <2>2
<1>5. n % 2 = 1 <=> ~(y % 2 = 1)
  BY <1>2, <1>3, <1>4
<1>6. Cg(n * n, y * y)
  <2>1. PICK nn, yy, d \in Int : nn = n * n /\ yy = y * y /\ d = P - 2 * y
    BY <1>1
  <2>2. nn - yy = P * d
    BY <1>1, <1>2, <2>1
  <2>3. Cg(P, 0)
    <3>1. Cg(P % P, P)
      BY <1>1, CgMod
    <3>2. P % P = 0
      <4>1. P = P * 1 + 0 /\ 0 \in 0 .. P - 1
        BY <1>1
      <4> QED BY <1>1, <4>1, Quotient
    <3> QED BY <1>1, <3>1, <3>2, CgEquiv
  <2>4. Cg(P * d, 0)
    BY <1>1, <2>1, <2>3, CgZero
  <2> QED BY <2>1, <2>2, <2>4, CgZero
<1>7. P - n = y
  BY <1>1, <1>2
<1> QED BY <1>1, <1>2, <1>5, <1>6, <1>7 DEF FeNegate, FeIsOdd, Fe

\* The right-hand side of the equation is in the field.
LEMMA CurveOnFe ==
    ASSUME NEW x \in Fe
    PROVE  FeAdd(FeMul(FeSqr(x), x), 7 % P) \in Fe
<1>1. x \in Int
  BY FieldPrime
<1>2. PICK a, b, s : a = FeSqr(x) /\ b = FeMul(a, x) /\ s = 7 % P
  OBVIOUS
<1>3. a \in Int /\ s \in Int
  BY <1>1, <1>2, FeOps, CgMod
<1>4. b \in Int
  BY <1>1, <1>2, <1>3, FeOps
<1> QED BY <1>2, <1>3, <1>4, FeOps

\* So is whatever the root is.
LEMMA SqrtInField == \A a \in Fe : FeSqrt[a] \in Fe
<1> SUFFICES ASSUME NEW a \in Fe PROVE FeSqrt[a] \in Fe
  OBVIOUS
<1>1. a \in 0 .. P - 1 /\ P \in Nat /\ P > 1
  BY FieldPrime DEF Fe
<1>2. (P + 1) \div 4 \in Nat /\ (P + 1) \div 4 <= P
  <2>1. P + 1 \in Nat /\ 4 \in Nat \ {0}
    BY <1>1
  <2>2. (P + 1) \div 4 \in Nat /\ P + 1 = 4 * ((P + 1) \div 4) + ((P + 1) % 4) /\ (P + 1) % 4 \in 0 .. 4 - 1
    BY <2>1, DivMod
  <2> QED BY <1>1, <2>2
<1>3. FeSqrt[a] = Powers(P)[(P + 1) \div 4][a]
  <2>1. (P + 1) \div 4 \in 0 .. P
    BY <1>1, <1>2
  <2> QED BY <2>1, PowIsPower DEF FeSqrt
<1> QED BY <1>1, <1>2, <1>3, PowersStep DEF Fe

\* decompress finds the point with an x and a parity, when x is of a point.
THEOREM DecompressFinds ==
    ASSUME NEW odd \in BOOLEAN, NEW x \in Fe
    PROVE  IF \E p \in CurvePoints : p.x = x
           THEN /\ Decompress(<<odd, x>>) \in CurvePoints
                /\ Compressed(Decompress(<<odd, x>>)) = <<odd, x>>
           ELSE Decompress(<<odd, x>>) = NoPoint
<1>1. PICK rhs, y : rhs = FeAdd(FeMul(FeSqr(x), x), 7 % P) /\ y = FeSqrt[rhs]
  OBVIOUS
<1>2. rhs \in Fe /\ y \in Fe /\ y \in Int
  BY <1>1, CurveOnFe, SqrtInField, FieldPrime
<1>3. Decompress(<<odd, x>>) =
        IF FeSqr(y) # rhs THEN NoPoint
        ELSE Affine(x, IF FeIsOdd(y) # odd THEN FeNegate(y) ELSE y)
  BY <1>1 DEF Decompress
<1>4. ASSUME NEW p \in CurvePoints, p.x = x PROVE FeSqr(y) = rhs
  <2>1. FeSqr(p.y) = rhs /\ p.y \in Fe
    BY <1>1, <1>4 DEF CurvePoints, OnCurve
  <2> QED BY <1>1, <2>1, SqrtRight
<1>5. ASSUME FeSqr(y) = rhs
      PROVE  /\ Affine(x, y) \in CurvePoints /\ y # 0
             /\ Affine(x, FeNegate(y)) \in CurvePoints
             /\ FeIsOdd(FeNegate(y)) <=> ~FeIsOdd(y)
  <2>1. Affine(x, y) \in CurvePoints
    BY <1>1, <1>2, <1>5 DEF CurvePoints, OnCurve, Affine
  <2>2. y # 0
    BY <2>1, AxesAssumption DEF Affine
  <2>3. PICK n \in Fe : n = FeNegate(y) /\ n \in Int /\ Cg(n * n, y * y) /\ (FeIsOdd(n) <=> ~FeIsOdd(y))
    BY <1>2, <2>2, Negated, FieldPrime
  <2>4. Cg(n * n, (x * (x * x)) + 7)
    <3>1. Cg(y * y, (x * (x * x)) + 7)
      BY <2>1, PointFacts DEF Affine
    <3>2. PICK xx \in Int : xx = x * x
      BY FieldPrime
    <3>3. PICK nn, yy, c \in Int : nn = n * n /\ yy = y * y /\ c = (x * xx) + 7
      BY <1>2, <2>3, <3>2, FieldPrime
    <3>4. Cg(nn, yy) /\ Cg(yy, c)
      BY <2>3, <3>1, <3>2, <3>3
    <3>5. Cg(nn, c)
      BY <3>4, CgEquiv
    <3> QED BY <3>2, <3>3, <3>5
  <2>5. Affine(x, n) \in CurvePoints
    BY <2>4, PointIs
  <2> QED BY <2>1, <2>2, <2>3, <2>5
<1>6. CASE FeSqr(y) = rhs
  <2>1. \E p \in CurvePoints : p.x = x
    BY <1>5, <1>6 DEF Affine
  <2>2. PICK s : s = (IF FeIsOdd(y) # odd THEN FeNegate(y) ELSE y)
    OBVIOUS
  <2>3. Affine(x, s) \in CurvePoints
    BY <1>5, <1>6, <2>2
  <2>4. FeIsOdd(s) = odd
    <3>1. FeIsOdd(s) \in BOOLEAN /\ FeIsOdd(y) \in BOOLEAN
      BY DEF FeIsOdd
    <3> QED BY <1>5, <1>6, <2>2, <3>1
  <2>5. Decompress(<<odd, x>>) = Affine(x, s)
    BY <1>3, <1>6, <2>2
  <2>6. Compressed(Affine(x, s)) = <<odd, x>>
    BY <2>4 DEF Compressed, Affine
  <2> QED BY <2>1, <2>3, <2>5, <2>6
<1>7. CASE FeSqr(y) # rhs
  BY <1>3, <1>4, <1>7
<1> QED BY <1>6, <1>7

\* Every call of decompress() returns the one point with that x and parity, or
\* refuses an x that no point has.
THEOREM DecompressIsRight == PureSpec => []DecompressRight
<1>1. Init => DecompressRight
  BY DEF Init, DecompressRight
<1>2. DecompressRight /\ [PureNext]_vars => DecompressRight'
  <2> SUFFICES ASSUME DecompressRight, [PureNext]_vars, call'.op = "decompress"
               PROVE DecompressRight'
    BY DEF DecompressRight
  <2>1. CASE UNCHANGED vars
    BY <2>1 DEF vars, DecompressRight
  <2>2. CASE vars' # vars
    <3>1. DecompressCall
      BY <2>2, WhichCall
    <3>2. PICK odd \in BOOLEAN, x \in Fe :
            /\ call' = [op |-> "decompress", odd |-> odd, x |-> x]
            /\ out' = Decompress(<<odd, x>>)
      BY <3>1 DEF DecompressCall
    <3>3. call'.odd = odd /\ call'.x = x
      BY <3>2
    <3> QED BY <3>2, <3>3, DecompressFinds DEF DecompressRight
  <2> QED BY <2>1, <2>2 DEF vars
<1> QED BY <1>1, <1>2, PTL DEF PureSpec

-----------------------------------------------------------------------------
(* The multiples of G.                                                     *)

Generator == Affine(Gx, Gy)

\* G is a point.
LEMMA GeneratorOnCurve == Generator \in CurvePoints
<1>1. Gx \in Fe /\ Gy \in Fe /\ Gx \in Int /\ Gy \in Int
  BY CurveAssumption, FieldPrime DEF Fe
<1>2. PICK a, b \in Int : a = Gy * Gy /\ b = ((Gx * Gx) * Gx) + 7 /\ b = (Gx * (Gx * Gx)) + 7
  <2>1. PICK xx \in Int : xx = Gx * Gx
    BY <1>1
  <2>2. xx * Gx = Gx * xx
    BY <1>1
  <2> QED BY <1>1, <2>1, <2>2
<1>3. a % P = b % P
  BY <1>2, CurveAssumption
<1>4. Cg(a, b)
  BY <1>3, FieldPrime, CongruentIsMod DEF Cg
<1> QED BY <1>1, <1>2, <1>4, PointIs DEF Generator

IsMultiples(f) ==
    f = [k \in 0 .. N |-> IF k = 0 THEN NoPoint ELSE ChordTangent(f[k - 1], Affine(Gx, Gy))]

\* Multiples is what its recursion says.
LEMMA MultiplesDefined ==
    /\ Multiples[0] = NoPoint
    /\ \A k \in 0 .. N : Multiples[k] \in Points
    /\ \A k \in 0 .. N - 1 : Multiples[k + 1] = ChordTangent(Multiples[k], Generator)
<1>0. N \in Nat /\ N > 2
  BY CurveAssumption
<1> DEFINE g == [v \in Nat \X Points |-> ChordTangent(v[2], Generator)]
<1>1. g \in [Nat \X Points -> Points]
  BY GeneratorOnCurve, ChordTangentClosed DEF Points
<1>2. PICK r : IsRecursive(r, Points, NoPoint, g)
  <2>1. NoPoint \in Points
    BY DEF Points
  <2> HIDE DEF g
  <2> QED BY <1>1, <2>1, Recursion
<1>3. \A n \in Nat : r[n] \in Points /\ r[n + 1] = ChordTangent(r[n], Generator)
  <2> SUFFICES ASSUME NEW n \in Nat
               PROVE  r[n] \in Points /\ r[n + 1] = ChordTangent(r[n], Generator)
    OBVIOUS
  <2>1. r[n] \in Points
    BY <1>2 DEF IsRecursive
  <2>2. r[n + 1] = g[<<n, r[n]>>]
    BY <1>2 DEF IsRecursive
  <2> QED BY <2>1, <2>2
<1>4. r[0] = NoPoint
  BY <1>2 DEF IsRecursive
<1> DEFINE f == [k \in 0 .. N |-> r[k]]
<1>5. IsMultiples(f)
  <2>1. ASSUME NEW k \in 0 .. N
        PROVE  r[k] = IF k = 0 THEN NoPoint ELSE ChordTangent(f[k - 1], Affine(Gx, Gy))
    <3>1. CASE k = 0
      BY <1>4, <3>1
    <3>2. CASE k # 0
      <4>1. k - 1 \in Nat /\ k - 1 \in 0 .. N /\ (k - 1) + 1 = k
        BY <1>0, <3>2
      <4>2. f[k - 1] = r[k - 1]
        BY <4>1
      <4> HIDE DEF f
      <4> QED BY <1>3, <3>2, <4>1, <4>2 DEF Generator
    <3> QED BY <3>1, <3>2
  <2>2. f = [k \in 0 .. N |->
                IF k = 0 THEN NoPoint ELSE ChordTangent(f[k - 1], Affine(Gx, Gy))]
    BY <2>1, Zenon
  <2> QED BY <2>2 DEF IsMultiples
<1>6. Multiples = CHOOSE m : IsMultiples(m)
  BY DEF Multiples, IsMultiples
<1>7. IsMultiples(Multiples)
  <2> HIDE DEF f
  <2> QED BY <1>5, <1>6
<1>8. \A k \in 0 .. N : Multiples[k] =
          IF k = 0 THEN NoPoint ELSE ChordTangent(Multiples[k - 1], Generator)
  <2>1. PICK m : m = Multiples
    OBVIOUS
  <2>2. m = [k \in 0 .. N |-> IF k = 0 THEN NoPoint ELSE ChordTangent(m[k - 1], Affine(Gx, Gy))]
    BY <1>7, <2>1 DEF IsMultiples
  <2>3. \A k \in 0 .. N : m[k] = IF k = 0 THEN NoPoint ELSE ChordTangent(m[k - 1], Affine(Gx, Gy))
    BY <2>2, Zenon
  <2> QED BY <2>1, <2>3 DEF Generator
<1>9. Multiples[0] = NoPoint
  BY <1>0, <1>8
<1>10. \A k \in 0 .. N - 1 : Multiples[k + 1] = ChordTangent(Multiples[k], Generator)
  <2> SUFFICES ASSUME NEW k \in 0 .. N - 1
               PROVE  Multiples[k + 1] = ChordTangent(Multiples[k], Generator)
    OBVIOUS
  <2>1. k + 1 \in 0 .. N /\ k + 1 # 0 /\ (k + 1) - 1 = k
    BY <1>0
  <2> QED BY <1>8, <2>1
<1>11. \A k \in 0 .. N : Multiples[k] \in Points
  <2> DEFINE T == {k \in Nat : k <= N => Multiples[k] \in Points}
  <2>1. 0 \in T
    BY <1>9 DEF Points
  <2>2. ASSUME NEW k \in Nat, k \in T
        PROVE  k + 1 \in T
    <3>1. CASE k + 1 <= N
      <4>1. k \in 0 .. N - 1 /\ Multiples[k] \in Points
        BY <1>0, <2>2, <3>1
      <4>2. Multiples[k + 1] \in Points
        BY <1>10, <4>1, GeneratorOnCurve, ChordTangentClosed DEF Points
      <4> QED BY <4>2
    <3> QED BY <3>1
  <2>3. Nat \subseteq T
    <3> HIDE DEF T
    <3> QED BY <2>1, <2>2, Induction
  <2> QED BY <1>0, <2>3
<1> QED BY <1>9, <1>10, <1>11

\* The multiple of G by any natural number.
Mult(k) == Multiples[k % N]

\* Remainders modulo N.
LEMMA ModN ==
    /\ N \in Nat \ {0} /\ N \in Nat /\ N > 2
    /\ \A k \in Int : k % N \in 0 .. N - 1 /\ k % N \in Nat
    /\ \A k \in 0 .. N - 1 : k % N = k
    /\ N % N = 0 /\ 0 % N = 0
<1>1. N \in Nat \ {0} /\ N > 2
  BY CurveAssumption
<1>2. \A k \in Int : k % N \in 0 .. N - 1
  BY <1>1, CongruentMod
<1>3. \A k \in 0 .. N - 1 : k % N = k
  BY <1>1, ModSmall
<1>4. N % N = 0
  <2>1. N = N * 1 + 0 /\ 0 \in 0 .. N - 1
    BY <1>1
  <2> QED BY <1>1, <2>1, Quotient
<1> QED BY <1>1, <1>2, <1>3, <1>4

\* Sums modulo N.
LEMMA ShiftN == \A u \in Int : \A r, s \in Int : r = u % N => (r + s) % N = (u + s) % N
<1> SUFFICES ASSUME NEW u \in Int, NEW s \in Int
             PROVE  ((u % N) + s) % N = (u + s) % N
  OBVIOUS
<1>1. N \in Nat \ {0}
  BY CurveAssumption
<1> QED BY <1>1, ModShift

\* k * G is a point unless N divides k.
LEMMA MultBasics ==
    /\ Multiples[0] = NoPoint /\ Multiples[N] = NoPoint
    /\ \A k \in 1 .. N - 1 : Multiples[k] \in CurvePoints /\ Multiples[k] # NoPoint
    /\ \A k \in Int : /\ Mult(k) \in Points
                      /\ Mult(k) = NoPoint <=> k % N = 0
                      /\ k % N # 0 => Mult(k) \in CurvePoints /\ k % N \in 1 .. N - 1
<1>1. \A k \in 0 .. N : Multiples[k] \in Points /\ (Multiples[k] = NoPoint <=> k % N = 0)
  BY MultiplesDefined, GroupAssumption
<1>2. Multiples[0] = NoPoint /\ Multiples[N] = NoPoint
  BY <1>1, ModN
<1>3. \A k \in 1 .. N - 1 : Multiples[k] \in CurvePoints /\ Multiples[k] # NoPoint
  <2> SUFFICES ASSUME NEW k \in 1 .. N - 1
               PROVE  Multiples[k] \in CurvePoints /\ Multiples[k] # NoPoint
    OBVIOUS
  <2>1. k \in 0 .. N /\ k % N = k /\ k # 0
    BY ModN
  <2> QED BY <1>1, <2>1 DEF Points
<1>4. ASSUME NEW k \in Int
      PROVE  /\ Mult(k) \in Points
             /\ Mult(k) = NoPoint <=> k % N = 0
             /\ k % N # 0 => Mult(k) \in CurvePoints /\ k % N \in 1 .. N - 1
  <2>1. PICK r \in 0 .. N - 1 : r = k % N
    BY ModN
  <2>2. r \in 0 .. N /\ r % N = r /\ (r # 0 => r \in 1 .. N - 1)
    BY ModN
  <2> QED BY <1>1, <1>3, <2>1, <2>2 DEF Mult
<1> QED BY <1>2, <1>3, <1>4

\* (k + 1) * G = k * G + G, around the end of the group too.
LEMMA MultNext == \A k \in Nat : Mult(k + 1) = ChordTangent(Mult(k), Generator)
<1> SUFFICES ASSUME NEW k \in Nat PROVE Mult(k + 1) = ChordTangent(Mult(k), Generator)
  OBVIOUS
<1>1. PICK r \in 0 .. N - 1 : r = k % N
  BY ModN
<1>2. (k + 1) % N = (r + 1) % N
  <2>1. r \in Int /\ k \in Int /\ 1 \in Int
    BY ModN
  <2> QED BY <1>1, <2>1, ShiftN
<1>3. Multiples[r + 1] = ChordTangent(Multiples[r], Generator)
  BY MultiplesDefined
<1>4. Multiples[(r + 1) % N] = Multiples[r + 1]
  <2>1. CASE r + 1 = N
    BY <2>1, ModN, MultBasics
  <2>2. CASE r + 1 # N
    <3>1. r + 1 \in 0 .. N - 1
      BY <2>2, ModN
    <3> QED BY <3>1, ModN
  <2> QED BY <2>1, <2>2
<1> QED BY <1>1, <1>2, <1>3, <1>4 DEF Mult

\* Chords and tangents add multiples of G as the integers add.
LEMMA MultSum == \A a, b \in Nat : ChordTangent(Mult(a), Mult(b)) = Mult(a + b)
<1> SUFFICES ASSUME NEW a \in Nat
             PROVE  \A b \in Nat : ChordTangent(Mult(a), Mult(b)) = Mult(a + b)
  OBVIOUS
<1> DEFINE T == {b \in Nat : ChordTangent(Mult(a), Mult(b)) = Mult(a + b)}
<1>1. 0 \in T
  <2>1. Mult(0) = NoPoint
    BY ModN, MultBasics
  <2>2. ChordTangent(Mult(a), NoPoint) = Mult(a)
    BY DEF ChordTangent
  <2>3. a + 0 = a
    OBVIOUS
  <2> QED BY <2>1, <2>2, <2>3
<1>2. ASSUME NEW b \in Nat, b \in T
      PROVE  b + 1 \in T
  <2>1. Mult(b + 1) = ChordTangent(Mult(b), Generator)
    BY MultNext
  <2>2. ChordTangent(Mult(a), ChordTangent(Mult(b), Generator))
           = ChordTangent(ChordTangent(Mult(a), Mult(b)), Generator)
    <3>1. Mult(a) \in Points /\ Mult(b) \in Points
      BY MultBasics
    <3> QED BY <3>1, GroupAssumption DEF Points, Generator
  <2>3. ChordTangent(Mult(a), Mult(b)) = Mult(a + b)
    BY <1>2
  <2>4. a + b \in Nat /\ (a + b) + 1 = a + (b + 1)
    OBVIOUS
  <2>5. ChordTangent(Mult(a + b), Generator) = Mult((a + b) + 1)
    BY <2>4, MultNext
  <2> QED BY <2>1, <2>2, <2>3, <2>4, <2>5
<1>3. Nat \subseteq T
  <2> HIDE DEF T
  <2> QED BY <1>1, <1>2, Induction
<1> QED BY <1>3

\* Points that cancel are opposite.
LEMMA CancelOpposite ==
    ASSUME NEW p \in CurvePoints, NEW q \in CurvePoints, ChordTangent(p, q) = NoPoint
    PROVE  p.x = q.x /\ q.y = FeNegate(p.y)
<1>1. p.x = q.x /\ FeAdd(p.y, q.y) = 0
  <2> SUFFICES ASSUME ~(p.x = q.x /\ FeAdd(p.y, q.y) = 0) PROVE FALSE
    OBVIOUS
  <2>1. PICK l, x3, y3 \in Fe : IsSum(p, q, l, x3, y3)
    BY ChordCase
  <2>2. Affine(x3, y3) = NoPoint
    BY <2>1 DEF IsSum
  <2>3. P \notin Fe
    BY FieldPrime DEF Fe
  <2> QED BY <2>2, <2>3 DEF Affine, NoPoint
<1>2. p.y \in 1 .. P - 1 /\ q.y \in 1 .. P - 1 /\ P \in Nat \ {0}
  BY PointFacts, AxesAssumption, FieldPrime DEF Fe
<1>3. PICK s \in Int : s = p.y + q.y /\ s > 0 /\ s < 2 * P
  BY <1>2
<1>4. s % P = 0
  BY <1>1, <1>3 DEF FeAdd
<1>5. s = P
  <2>1. CASE s < P
    <3>1. s \in 0 .. P - 1
      BY <1>2, <1>3, <2>1
    <3> QED BY <1>2, <1>3, <1>4, <3>1, ModSmall
  <2>2. CASE s > P
    <3>1. s - P \in 0 .. P - 1 /\ s = P * 1 + (s - P) /\ s \in Nat
      BY <1>2, <1>3, <2>2
    <3>2. s % P = s - P
      BY <1>2, <3>1, ModUnique
    <3> QED BY <1>2, <1>3, <1>4, <2>2, <3>2
  <2> QED BY <1>2, <1>3, <2>1, <2>2
<1> QED BY <1>1, <1>2, <1>3, <1>5 DEF FeNegate

\* The mirror of a key is a key.
LEMMA ComplementMod ==
    \A k \in 1 .. N - 1 : N - k \in 1 .. N - 1 /\ k + (N - k) = N /\ (N - k) % N = N - k /\ k % N = k
<1> SUFFICES ASSUME NEW k \in 1 .. N - 1
             PROVE N - k \in 1 .. N - 1 /\ k + (N - k) = N /\ (N - k) % N = N - k /\ k % N = k
  OBVIOUS
<1>1. N - k \in 1 .. N - 1 /\ k + (N - k) = N
  BY ModN
<1>2. N - k \in 0 .. N - 1 /\ k \in 0 .. N - 1
  BY ModN
<1>3. (N - k) % N = N - k /\ k % N = k
  BY <1>2, ModN
<1> QED BY <1>1, <1>3

\* The negative of a multiple: the same x and the other parity.
LEMMA MultOpposite ==
    ASSUME NEW k \in 1 .. N - 1
    PROVE  /\ Multiples[N - k] \in CurvePoints
           /\ Multiples[N - k].x = Multiples[k].x
           /\ Multiples[N - k].y = FeNegate(Multiples[k].y)
           /\ FeIsOdd(Multiples[N - k].y) <=> ~FeIsOdd(Multiples[k].y)
<1>1. Multiples[k] \in CurvePoints /\ Multiples[N - k] \in CurvePoints
  BY ComplementMod, MultBasics
<1>2. ChordTangent(Mult(k), Mult(N - k)) = NoPoint
  <2>1. k \in Nat /\ N - k \in Nat /\ k + (N - k) = N
    BY ModN
  <2>2. ChordTangent(Mult(k), Mult(N - k)) = Mult(N)
    BY <2>1, MultSum
  <2> QED BY <2>2, ModN, MultBasics
<1>3. Mult(k) = Multiples[k] /\ Mult(N - k) = Multiples[N - k]
  BY ComplementMod DEF Mult
<1>4. /\ Multiples[N - k].x = Multiples[k].x
      /\ Multiples[N - k].y = FeNegate(Multiples[k].y)
  BY <1>1, <1>2, <1>3, CancelOpposite
<1>5. Multiples[k].y \in Fe /\ Multiples[k].y # 0
  BY <1>1, PointFacts, AxesAssumption
<1> QED BY <1>1, <1>4, <1>5, Negated

\* Different residues give different multiples.
LEMMA MultEqual == \A j, k \in Nat : Mult(j) = Mult(k) => j % N = k % N
<1> SUFFICES ASSUME NEW j \in Nat, NEW k \in Nat, Mult(j) = Mult(k)
             PROVE  j % N = k % N
  OBVIOUS
<1>1. PICK r \in 0 .. N - 1 : r = k % N
  BY ModN
<1>2. N - r \in Nat /\ j + (N - r) \in Nat /\ k + (N - r) \in Nat
  BY ModN
<1>3. Mult(k + (N - r)) = Mult(j + (N - r))
  BY <1>2, MultSum
<1>4. (k + (N - r)) % N = 0
  <2>1. (r + (N - r)) % N = (k + (N - r)) % N
    <3>1. r \in Int /\ k \in Int /\ N - r \in Int
      BY ModN
    <3> QED BY <1>1, <3>1, ShiftN
  <2>2. r + (N - r) = N
    BY ModN
  <2> QED BY <2>1, <2>2, ModN
<1>5. (j + (N - r)) % N = 0
  BY <1>2, <1>3, <1>4, MultBasics
<1>6. PICK t \in 0 .. N - 1 : t = j % N
  BY ModN
<1>7. (t + (N - r)) % N = 0
  <2>1. t \in Int /\ j \in Int /\ N - r \in Int
    BY ModN
  <2> QED BY <1>5, <1>6, <2>1, ShiftN
<1>8. PICK s \in Int : s = t + (N - r) /\ s > 0 /\ s < 2 * N
  BY ModN
<1>9. s = N
  <2>1. CASE s < N
    <3>1. s \in 0 .. N - 1
      BY <1>8, <2>1, ModN
    <3>2. s % N = s
      BY <3>1, ModN
    <3> QED BY <1>7, <1>8, <3>2
  <2>2. CASE s > N
    <3>1. s - N \in 0 .. N - 1 /\ s = N * 1 + (s - N) /\ 1 \in Int /\ N \in Nat \ {0}
      BY <1>8, <2>2, ModN
    <3>2. s % N = s - N
      BY <3>1, ModUnique
    <3>3. s % N = 0
      BY <1>7, <1>8
    <3> QED BY <1>8, <2>2, <3>2, <3>3, ModN
  <2> QED BY <1>8, <2>1, <2>2, ModN
<1> QED BY <1>1, <1>6, <1>8, <1>9, ModN

-----------------------------------------------------------------------------
(* Affine additions.                                                       *)

\* A pair of coordinates, of a point or not, and how the kernels write a point.
Pairs == [x : Fe, y : Fe]
Aff(p) == IF p = NoPoint THEN Sentinel ELSE p

\* Points and the sentinel are pairs of field elements.
LEMMA PairFacts ==
    /\ CurvePoints \subseteq Pairs /\ Sentinel \in Pairs
    /\ \A p \in Points : Aff(p) \in Pairs
    /\ \A p \in Pairs : p.x \in Fe /\ p.y \in Fe /\ p.x \in Int /\ p.y \in Int
    /\ \A x, y \in Fe : Affine(x, y) \in Pairs
    /\ \A j \in Jacobian : /\ j.X \in Fe /\ j.Y \in Fe /\ j.Z \in Fe
                           /\ j.X \in Int /\ j.Y \in Int /\ j.Z \in Int
    /\ \A x, y, z \in Fe : Jac(x, y, z) \in Jacobian
    /\ 0 \in Fe /\ 1 \in Fe
<1>1. 0 \in Fe /\ 1 \in Fe /\ Fe \subseteq Int
  BY FieldPrime DEF Fe
<1>2. CurvePoints \subseteq Pairs /\ Sentinel \in Pairs
  BY <1>1 DEF CurvePoints, Pairs, Sentinel, Affine
<1>3. \A p \in Points : Aff(p) \in Pairs
  BY <1>2 DEF Points, Aff
<1> QED BY <1>1, <1>2, <1>3 DEF Pairs, Affine, Jacobian, Jac

\* The formulas stay in the field for any coordinates.
LEMMA DoubleTyped == \A j \in Jacobian : JDouble(j) \in Jacobian
<1> SUFFICES ASSUME NEW j \in Jacobian PROVE JDouble(j) \in Jacobian
  OBVIOUS
<1>1. j.X \in Int /\ j.Y \in Int /\ j.Z \in Int /\ 2 \in Int /\ 3 \in Int
  BY PairFacts
<1>2. CASE j.Y = 0 \/ IsInfinity(j)
  BY <1>2, InfinityStands DEF JDouble, Stands
<1>3. CASE ~(j.Y = 0 \/ IsInfinity(j))
  <2>1. PICK A, B, C : A = FeSqr(j.X) /\ B = FeSqr(j.Y) /\ C = FeSqr(B)
    OBVIOUS
  <2>2. A \in Int /\ B \in Int
    BY <1>1, <2>1, FeOps
  <2>3. C \in Int
    BY <2>1, <2>2, FeOps
  <2>4. PICK T, TT : T = FeAdd(j.X, B) /\ TT = FeSqr(T)
    OBVIOUS
  <2>5. T \in Int
    BY <1>1, <2>2, <2>4, FeOps
  <2>6. TT \in Int
    BY <2>4, <2>5, FeOps
  <2>7. PICK q \in Int : q = (TT - A) - C
    BY <2>2, <2>3, <2>6
  <2>8. PICK D, E : D = FeMul(2, q) /\ E = FeMul(3, A)
    OBVIOUS
  <2>9. D \in Int /\ E \in Int
    BY <1>1, <2>2, <2>7, <2>8, FeOps
  <2>10. PICK EE : EE = FeSqr(E)
    OBVIOUS
  <2>11. EE \in Int /\ 2 * D \in Int /\ 8 * C \in Int
    BY <2>3, <2>9, <2>10, FeOps
  <2>12. PICK XR : XR = FeSub(EE, 2 * D)
    OBVIOUS
  <2>13. XR \in Fe /\ XR \in Int
    BY <2>11, <2>12, FeOps
  <2>14. PICK W : W = FeSub(D, XR)
    OBVIOUS
  <2>15. W \in Int
    BY <2>9, <2>13, <2>14, FeOps
  <2>16. E * W \in Int /\ j.Y * j.Z \in Int
    BY <1>1, <2>9, <2>15
  <2>17. PICK YR, ZR : YR = FeSub(E * W, 8 * C) /\ ZR = FeMul(2, j.Y * j.Z)
    OBVIOUS
  <2>18. YR \in Fe /\ ZR \in Fe
    <3>1. YR \in Fe
      BY <2>11, <2>16, <2>17, FeOps
    <3>2. ZR \in Fe
      BY <1>1, <2>16, <2>17, FeOps
    <3> QED BY <3>1, <3>2
  <2>19. JDouble(j) = Jac(XR, YR, ZR)
    BY <1>3, <2>1, <2>4, <2>7, <2>8, <2>10, <2>12, <2>14, <2>17 DEF JDouble
  <2> QED BY <2>13, <2>18, <2>19, PairFacts
<1> QED BY <1>2, <1>3

\* Sums are triples of field elements, whatever triples they are of.
LEMMA AddTyped == \A j, k \in Jacobian : JAdd(j, k) \in Jacobian
<1> SUFFICES ASSUME NEW j \in Jacobian, NEW k \in Jacobian PROVE JAdd(j, k) \in Jacobian
  OBVIOUS
<1>1. /\ j.X \in Int /\ j.Y \in Int /\ j.Z \in Int /\ k.X \in Int /\ k.Y \in Int /\ k.Z \in Int
      /\ 2 \in Int
  BY PairFacts
<1>2. PICK ZZ1, ZZ2 : ZZ1 = FeSqr(j.Z) /\ ZZ2 = FeSqr(k.Z)
  OBVIOUS
<1>3. ZZ1 \in Int /\ ZZ2 \in Int
  BY <1>1, <1>2, FeOps
<1>4. PICK U1, U2, c1, c2 : /\ U1 = FeMul(j.X, ZZ2) /\ U2 = FeMul(k.X, ZZ1)
                            /\ c1 = FeMul(j.Z, ZZ1) /\ c2 = FeMul(k.Z, ZZ2)
  OBVIOUS
<1>5. U1 \in Int /\ U2 \in Int
  BY <1>1, <1>3, <1>4, FeOps
<1>6. c1 \in Int /\ c2 \in Int
  BY <1>1, <1>3, <1>4, FeOps
<1>7. PICK S1, S2, H : S1 = FeMul(j.Y, c2) /\ S2 = FeMul(k.Y, c1) /\ H = FeSub(U2, U1)
  OBVIOUS
<1>8. S1 \in Int /\ S2 \in Int
  BY <1>1, <1>6, <1>7, FeOps
<1>9. H \in Int
  BY <1>5, <1>7, FeOps
<1>10. 2 * H \in Int /\ S2 - S1 \in Int
  BY <1>8, <1>9
<1>11. PICK I, R : I = FeSqr(2 * H) /\ R = FeMul(2, S2 - S1)
  OBVIOUS
<1>12. I \in Int
  BY <1>10, <1>11, FeOps
<1>13. R \in Int
  BY <1>1, <1>10, <1>11, FeOps
<1>14. PICK V, J, RR : V = FeMul(U1, I) /\ J = FeMul(H, I) /\ RR = FeSqr(R)
  OBVIOUS
<1>15. V \in Int
  BY <1>5, <1>12, <1>14, FeOps
<1>16. J \in Int
  BY <1>9, <1>12, <1>14, FeOps
<1>17. RR \in Int
  BY <1>13, <1>14, FeOps
<1>18. PICK t \in Int : t = J + (2 * V)
  BY <1>15, <1>16
<1>19. PICK XR : XR = FeSub(RR, t)
  OBVIOUS
<1>20. XR \in Fe /\ XR \in Int
  BY <1>17, <1>18, <1>19, FeOps
<1>21. PICK v, K, L : v = V - XR /\ K = FeMul(R, v) /\ L = FeMul(S1, J)
  OBVIOUS
<1>22. v \in Int
  BY <1>15, <1>20, <1>21
<1>23. K \in Int
  BY <1>13, <1>21, <1>22, FeOps
<1>24. L \in Int
  BY <1>8, <1>16, <1>21, FeOps
<1>25. 2 * L \in Int
  BY <1>24
<1>26. PICK YR : YR = FeSub(K, 2 * L)
  OBVIOUS
<1>27. YR \in Fe
  BY <1>23, <1>25, <1>26, FeOps
<1>28. PICK z \in Int : z = j.Z + k.Z
  BY <1>1
<1>29. PICK zz : zz = FeSqr(z)
  OBVIOUS
<1>30. zz \in Int
  BY <1>28, <1>29, FeOps
<1>31. PICK d \in Int : d = (zz - ZZ1) - ZZ2
  BY <1>3, <1>30
<1>32. PICK ZR : ZR = FeMul(d, H)
  OBVIOUS
<1>33. ZR \in Fe
  BY <1>9, <1>31, <1>32, FeOps
<1>34. Jac(XR, YR, ZR) \in Jacobian
  BY <1>20, <1>27, <1>33, PairFacts
<1>35. JDouble(j) \in Jacobian /\ JInfinity \in Jacobian
  BY DoubleTyped, InfinityStands DEF Stands
<1>36. JAdd(j, k) \in {k, j, JDouble(j), JInfinity, Jac(XR, YR, ZR)}
  <2>1. CASE IsInfinity(j)
    BY <2>1 DEF JAdd
  <2>2. CASE IsInfinity(k) /\ ~IsInfinity(j)
    BY <2>2 DEF JAdd
  <2>3. CASE ~IsInfinity(j) /\ ~IsInfinity(k) /\ U1 = U2
    BY <2>3, <1>2, <1>4, <1>7 DEF JAdd
  <2>4. CASE ~IsInfinity(j) /\ ~IsInfinity(k) /\ U1 # U2
    BY <2>4, <1>2, <1>4, <1>7, <1>11, <1>14, <1>18, <1>19, <1>21, <1>26, <1>28, <1>29, <1>31, <1>32
    DEF JAdd
  <2> QED BY <2>1, <2>2, <2>3, <2>4
<1> QED BY <1>34, <1>35, <1>36

\* And their affine form is a pair.
LEMMA ToAffineTyped == \A j \in Jacobian : JToAffine(j) \in Pairs
<1> SUFFICES ASSUME NEW j \in Jacobian PROVE JToAffine(j) \in Pairs
  OBVIOUS
<1>1. j.X \in Int /\ j.Y \in Int /\ j.Z \in Fe
  BY PairFacts
<1>2. PICK i \in Int : i = FeInv[j.Z]
  BY <1>1, InverseRight
<1>3. PICK a, b : a = FeSqr(i) /\ b = FeMul(a, i)
  OBVIOUS
<1>4. a \in Int
  BY <1>2, <1>3, FeOps
<1>5. b \in Int
  BY <1>2, <1>3, <1>4, FeOps
<1>6. FeMul(j.X, a) \in Fe /\ FeMul(j.Y, b) \in Fe
  BY <1>1, <1>4, <1>5, FeOps
<1>7. JToAffine(j) \in {Sentinel, Affine(FeMul(j.X, a), FeMul(j.Y, b))}
  BY <1>2, <1>3 DEF JToAffine
<1> QED BY <1>6, <1>7, PairFacts

\* Additions of pairs give pairs.
LEMMA AffAddTyped ==
    \A p, q \in Pairs : /\ AffAddFallback(p, q) \in Pairs
                        /\ Dx(p, q) \in Fe /\ Factor(p, q) \in Fe /\ Factor(p, q) # 0
                        /\ \A inv \in Int : AffAddWithInv(p, q, inv) \in Pairs
<1> SUFFICES ASSUME NEW p \in Pairs, NEW q \in Pairs
             PROVE  /\ AffAddFallback(p, q) \in Pairs
                    /\ Dx(p, q) \in Fe /\ Factor(p, q) \in Fe /\ Factor(p, q) # 0
                    /\ \A inv \in Int : AffAddWithInv(p, q, inv) \in Pairs
  OBVIOUS
<1>1. /\ p.x \in Int /\ p.y \in Int /\ q.x \in Int /\ q.y \in Int
      /\ p.x \in Fe /\ p.y \in Fe /\ q.x \in Fe /\ q.y \in Fe
  BY PairFacts
<1>2. AffAddFallback(p, q) \in Pairs
  <2>1. ToJacobian(p) \in Jacobian /\ ToJacobian(q) \in Jacobian
    BY <1>1, PairFacts DEF ToJacobian
  <2> QED BY <2>1, AddTyped, ToAffineTyped DEF AffAddFallback
<1>3. Dx(p, q) \in Fe
  BY <1>1, FeOps DEF Dx
<1>4. Factor(p, q) \in Fe /\ Factor(p, q) # 0
  BY <1>3, PairFacts DEF Factor
<1>5. ASSUME NEW inv \in Int PROVE AffAddWithInv(p, q, inv) \in Pairs
  <2>1. PICK d, s \in Int : d = q.y - p.y /\ s = p.x + q.x
    BY <1>1
  <2>2. PICK l : l = FeMul(d, inv)
    OBVIOUS
  <2>3. l \in Int
    BY <2>2, FeOps
  <2>4. PICK ll : ll = FeSqr(l)
    OBVIOUS
  <2>5. ll \in Int
    BY <2>3, <2>4, FeOps
  <2>6. PICK x3 : x3 = FeSub(ll, s)
    OBVIOUS
  <2>7. x3 \in Fe /\ x3 \in Int
    BY <2>5, <2>6, FeOps
  <2>8. PICK e \in Int : e = p.x - x3
    BY <1>1, <2>7
  <2>9. PICK le : le = FeMul(l, e)
    OBVIOUS
  <2>10. le \in Int
    BY <2>3, <2>9, FeOps
  <2>11. FeSub(le, p.y) \in Fe
    BY <1>1, <2>10, FeOps
  <2>12. AffAddWithInv(p, q, inv) = Affine(x3, FeSub(le, p.y))
    BY <2>1, <2>2, <2>4, <2>6, <2>8, <2>9 DEF AffAddWithInv
  <2> QED BY <2>7, <2>11, <2>12, PairFacts
<1> QED BY <1>2, <1>3, <1>4, <1>5

\* The additions of the walks are chords and tangents.
LEMMA DxZero == \A p, q \in Pairs : Dx(p, q) = 0 <=> p.x = q.x
<1> SUFFICES ASSUME NEW p \in Pairs, NEW q \in Pairs PROVE Dx(p, q) = 0 <=> p.x = q.x
  OBVIOUS
<1>1. PICK x1, x2 \in Fe : x1 = p.x /\ x2 = q.x /\ x1 \in Int /\ x2 \in Int
  BY PairFacts
<1>2. PICK d, e : d = x2 - x1 /\ e = Dx(p, q)
  OBVIOUS
<1>3. d \in Int /\ e \in Fe /\ e \in Int /\ Cg(e, d)
  <2>1. e = FeSub(x2, x1)
    BY <1>1, <1>2 DEF Dx
  <2>2. d \in Int
    BY <1>1, <1>2
  <2>3. x1 \in Int /\ x2 \in Int
    BY <1>1
  <2>4. FeSub(x2, x1) \in Fe /\ FeSub(x2, x1) \in Int
    BY <2>3, FeOps
  <2>5. Cg(FeSub(x2, x1), x2 - x1)
    BY <2>3, FeCg, CgEquiv
  <2> QED BY <1>2, <2>1, <2>2, <2>4, <2>5
<1>4. e = 0 => x1 = x2
  <2>1. e = 0 => Cg(d, 0)
    BY <1>3, CgEquiv
  <2>2. Cg(d, 0) => Cg(x2, x1)
    BY <1>1, <1>2, CgZero
  <2> QED BY <1>1, <2>1, <2>2, CgEqual
<1>5. x1 = x2 => e = 0
  <2>1. x1 = x2 => d = 0
    BY <1>1, <1>2
  <2> QED BY <1>3, <2>1, PairFacts, CgEqual
<1> QED BY <1>1, <1>2, <1>4, <1>5

\* The fallback of a zero denominator is the sum.
LEMMA FallbackIs ==
    ASSUME NEW p \in CurvePoints, NEW q \in CurvePoints
    PROVE  AffAddFallback(p, q) = Aff(ChordTangent(p, q))
<1>1. Stands(ToJacobian(p), p) /\ Stands(ToJacobian(q), q)
  BY JacobianStands DEF ToJacobian
<1>2. p \in Points /\ q \in Points
  BY DEF Points
<1>3. Stands(JAdd(ToJacobian(p), ToJacobian(q)), ChordTangent(p, q))
  BY <1>1, <1>2, AddStands
<1>4. ChordTangent(p, q) \in Points
  BY <1>2, ChordTangentClosed
<1> QED BY <1>3, <1>4, AffineOf DEF AffAddFallback, Aff

\* Given the inverse, the affine formula is the sum.
LEMMA WithInvIs ==
    ASSUME NEW p \in CurvePoints, NEW q \in CurvePoints, NEW inv \in Int,
           p.x # q.x, Cg(inv * Dx(p, q), 1)
    PROVE  /\ AffAddWithInv(p, q, inv) = ChordTangent(p, q)
           /\ ChordTangent(p, q) # NoPoint
<1>1. /\ p.x \in Int /\ p.y \in Int /\ q.x \in Int /\ q.y \in Int /\ p # NoPoint /\ q # NoPoint
      /\ p.x \in Fe /\ q.x \in Fe
  BY PointFacts
<1>2. PICK d, e \in Int : d = q.x - p.x /\ e = q.y - p.y
  BY <1>1
<1>3. PICK l, g : l = LineSlope(p, q) /\ g = FeMul(e, inv)
  OBVIOUS
<1>4. l \in Fe /\ l \in Int /\ Cg(l * d, e)
  BY <1>2, <1>3, ChordSlope, FieldPrime
<1>5. g \in Fe /\ g \in Int /\ Cg(g, e * inv)
  BY <1>3, FeOps
<1>6. PICK D \in Int : D = Dx(p, q) /\ Cg(D, d)
  BY <1>1, <1>2, FeOps DEF Dx
<1>7. ~Cg(d, 0)
  <2>1. Cg(d, 0) => Cg(q.x, p.x)
    BY <1>1, <1>2, CgZero
  <2> QED BY <1>1, <2>1, CgEqual
<1>8. Cg(g * d, e)
  <2>1. PICK gd, ei, iD, id \in Int : gd = g * d /\ ei = e * inv /\ iD = inv * D /\ id = inv * d
    BY <1>5
  <2>2. Cg(d, d) /\ Cg(inv, inv) /\ Cg(e, e) /\ 1 \in Int
    BY CgEquiv
  <2>3. Cg(iD, id)
    BY <1>6, <2>1, <2>2, CgTimes
  <2>4. Cg(iD, 1)
    BY <1>6, <2>1
  <2>5. Cg(id, 1)
    BY <2>1, <2>2, <2>3, <2>4, CgEquiv
  <2>6. Cg(e * id, e * 1)
    BY <2>1, <2>2, <2>5, CgTimes
  <2>7. Cg(g * d, ei * d)
    BY <1>5, <2>1, <2>2, CgTimes
  <2>8. ei * d = e * id /\ e * 1 = e
    BY <2>1
  <2>9. PICK z \in Int : z = e * id
    BY <2>1
  <2>10. Cg(gd, z) /\ Cg(z, e)
    BY <2>1, <2>6, <2>7, <2>8, <2>9
  <2> QED BY <2>1, <2>10, CgEquiv
<1>9. g = l
  <2>1. PICK gd, ld \in Int : gd = d * g /\ ld = d * l /\ gd = g * d /\ ld = l * d
    BY <1>4, <1>5
  <2>2. Cg(gd, e) /\ Cg(ld, e)
    BY <1>4, <1>8, <2>1
  <2>3. Cg(gd, ld)
    BY <2>1, <2>2, CgEquiv
  <2>4. Cg(g, l)
    BY <1>4, <1>5, <1>7, <2>1, <2>3, CgCancel
  <2> QED BY <1>4, <1>5, <2>4, CgEqual
<1>10. AffAddWithInv(p, q, inv) = ChordTangent(p, q)
  BY <1>1, <1>2, <1>3, <1>9 DEF AffAddWithInv, ChordTangent
<1>11. ChordTangent(p, q) # NoPoint
  <2>1. p \in Pairs /\ q \in Pairs
    BY PairFacts
  <2>2. AffAddWithInv(p, q, inv) \in Pairs
    BY <2>1, AffAddTyped
  <2>3. NoPoint \notin Pairs
    BY FieldPrime DEF NoPoint, Affine, Pairs, Fe
  <2> QED BY <1>10, <2>2, <2>3
<1> QED BY <1>10, <1>11

-----------------------------------------------------------------------------
(* One inverse for a batch.                                                *)

\* The running products of the factors, and the inverses from the last down.
IsPre(f, n, ps, qs) ==
    f = [i \in 0 .. n |-> IF i = 0 THEN 1 ELSE FeMul(f[i - 1], Factor(ps[i], qs[i]))]
IsInverses(f, n, ps, qs, last) ==
    f = [i \in 0 .. n |->
            IF i = n THEN FeInv[last] ELSE FeMul(f[i + 1], Factor(ps[i + 1], qs[i + 1]))]
PreOf(n, ps, qs) == CHOOSE f : IsPre(f, n, ps, qs)
InversesOf(n, ps, qs) ==
    CHOOSE f : IsInverses(f, n, ps, qs, PreOf(n, ps, qs)[n])

\* BatchAdd in terms of its two passes.
LEMMA BatchAddIs ==
    ASSUME NEW n \in Nat, NEW ps, NEW qs, Len(ps) = n
    PROVE  BatchAdd(ps, qs) =
             [i \in 1 .. n |->
                IF Dx(ps[i], qs[i]) = 0 THEN AffAddFallback(ps[i], qs[i])
                ELSE AffAddWithInv(ps[i], qs[i],
                        FeMul(InversesOf(n, ps, qs)[i], PreOf(n, ps, qs)[i - 1]))]
BY DEF BatchAdd, InversesOf, PreOf, IsPre, IsInverses

\* The pass upwards: products of the factors, none of them zero.
LEMMA PreDefined ==
    ASSUME NEW n \in Nat, NEW ps \in [1 .. n -> Pairs], NEW qs \in [1 .. n -> Pairs]
    PROVE  /\ PreOf(n, ps, qs)[0] = 1
           /\ \A i \in 0 .. n : PreOf(n, ps, qs)[i] \in Fe /\ PreOf(n, ps, qs)[i] # 0
           /\ \A i \in 1 .. n :
                PreOf(n, ps, qs)[i] = FeMul(PreOf(n, ps, qs)[i - 1], Factor(ps[i], qs[i]))
<1> DEFINE g == [v \in Nat \X Fe |->
                    IF v[1] < n THEN FeMul(v[2], Factor(ps[v[1] + 1], qs[v[1] + 1])) ELSE v[2]]
<1>1. \A i \in 1 .. n : Factor(ps[i], qs[i]) \in Fe /\ Factor(ps[i], qs[i]) # 0
  BY AffAddTyped
<1>2. g \in [Nat \X Fe -> Fe]
  <2>1. ASSUME NEW v \in Nat \X Fe
        PROVE  (IF v[1] < n THEN FeMul(v[2], Factor(ps[v[1] + 1], qs[v[1] + 1])) ELSE v[2]) \in Fe
    <3>1. v[1] \in Nat /\ v[2] \in Fe /\ v[2] \in Int
      BY FieldPrime
    <3>2. CASE v[1] < n
      <4>1. v[1] + 1 \in 1 .. n
        BY <3>1, <3>2
      <4>2. PICK f \in Int : f = Factor(ps[v[1] + 1], qs[v[1] + 1])
        BY <1>1, <4>1, FieldPrime
      <4>3. FeMul(v[2], f) \in Fe
        BY <3>1, FeOps
      <4> QED BY <3>2, <4>2, <4>3
    <3>3. CASE ~(v[1] < n)
      BY <3>1, <3>3
    <3> QED BY <3>2, <3>3
  <2> QED BY <2>1
<1>3. PICK r : IsRecursive(r, Fe, 1, g)
  <2> HIDE DEF g
  <2> QED BY <1>2, PairFacts, Recursion
<1>4. r[0] = 1 /\ \A i \in Nat : r[i] \in Fe
  BY <1>3 DEF IsRecursive
<1>5. \A i \in 1 .. n : r[i] = FeMul(r[i - 1], Factor(ps[i], qs[i]))
  <2> SUFFICES ASSUME NEW i \in 1 .. n PROVE r[i] = FeMul(r[i - 1], Factor(ps[i], qs[i]))
    OBVIOUS
  <2>1. i - 1 \in Nat /\ (i - 1) + 1 = i /\ i - 1 < n
    OBVIOUS
  <2>2. r[(i - 1) + 1] = g[<<i - 1, r[i - 1]>>]
    <3>1. \A m \in Nat : r[m + 1] = g[<<m, r[m]>>]
      BY <1>3 DEF IsRecursive
    <3> QED BY <2>1, <3>1
  <2>3. g[<<i - 1, r[i - 1]>>] = FeMul(r[i - 1], Factor(ps[(i - 1) + 1], qs[(i - 1) + 1]))
    <3>1. <<i - 1, r[i - 1]>> \in Nat \X Fe
      BY <1>4, <2>1
    <3> QED BY <2>1, <3>1
  <2> HIDE DEF g
  <2> QED BY <2>1, <2>2, <2>3
<1> DEFINE f == [i \in 0 .. n |-> r[i]]
<1>6. IsPre(f, n, ps, qs)
  <2>1. ASSUME NEW i \in 0 .. n
        PROVE  r[i] = IF i = 0 THEN 1 ELSE FeMul(f[i - 1], Factor(ps[i], qs[i]))
    <3>1. CASE i = 0
      BY <1>4, <3>1
    <3>2. CASE i # 0
      <4>1. i \in 1 .. n /\ i - 1 \in 0 .. n
        BY <3>2
      <4>2. f[i - 1] = r[i - 1]
        BY <4>1
      <4> HIDE DEF f
      <4> QED BY <1>5, <3>2, <4>1, <4>2
    <3> QED BY <3>1, <3>2
  <2>2. f = [i \in 0 .. n |-> IF i = 0 THEN 1 ELSE FeMul(f[i - 1], Factor(ps[i], qs[i]))]
    BY <2>1, Zenon
  <2> QED BY <2>2 DEF IsPre
<1> HIDE DEF f
<1>7. PICK p : p = PreOf(n, ps, qs) /\ IsPre(p, n, ps, qs)
  BY <1>6 DEF PreOf
<1>8. \A i \in 0 .. n : p[i] = IF i = 0 THEN 1 ELSE FeMul(p[i - 1], Factor(ps[i], qs[i]))
  <2>1. p = [i \in 0 .. n |-> IF i = 0 THEN 1 ELSE FeMul(p[i - 1], Factor(ps[i], qs[i]))]
    BY <1>7 DEF IsPre
  <2> QED BY <2>1, Zenon
<1>9. p[0] = 1
  BY <1>8
<1>10. \A i \in 1 .. n : p[i] = FeMul(p[i - 1], Factor(ps[i], qs[i]))
  BY <1>8
<1>11. \A i \in 0 .. n : p[i] \in Fe /\ p[i] # 0
  <2> DEFINE T == {i \in Nat : i <= n => p[i] \in Fe /\ p[i] # 0}
  <2>1. 0 \in T
    BY <1>9, PairFacts
  <2>2. ASSUME NEW i \in Nat, i \in T
        PROVE  i + 1 \in T
    <3>1. CASE i + 1 <= n
      <4>1. i + 1 \in 1 .. n /\ (i + 1) - 1 = i /\ p[i] \in Fe /\ p[i] # 0
        BY <2>2, <3>1
      <4>2. PICK a, b \in Fe : /\ a = p[i] /\ b = Factor(ps[i + 1], qs[i + 1]) /\ b # 0 /\ a # 0
                               /\ a \in Int /\ b \in Int
        BY <1>1, <4>1, FieldPrime
      <4>3. p[i + 1] = FeMul(a, b)
        BY <1>10, <4>1, <4>2
      <4>4. PICK c, ab \in Int : c = FeMul(a, b) /\ c \in Fe /\ ab = a * b /\ Cg(c, ab)
        <5>1. FeMul(a, b) \in Int /\ FeMul(a, b) \in Fe /\ Cg(FeMul(a, b), a * b)
          BY <4>2, FeOps
        <5>2. a * b \in Int
          BY <4>2
        <5> QED BY <5>1, <5>2
      <4>5. ~Cg(a, 0) /\ ~Cg(b, 0)
        BY <4>2, CgNotZero
      <4>6. ~Cg(ab, 0)
        BY <4>2, <4>4, <4>5, CgFactor
      <4>7. c # 0
        BY <4>4, <4>6, CgEquiv
      <4> QED BY <4>3, <4>4, <4>7
    <3> QED BY <3>1
  <2>3. Nat \subseteq T
    <3> HIDE DEF T
    <3> QED BY <2>1, <2>2, Induction
  <2> QED BY <2>3
<1> QED BY <1>7, <1>9, <1>10, <1>11

\* The pass downwards: the inverse of each of those products.
LEMMA InversesDefined ==
    ASSUME NEW n \in Nat, NEW ps \in [1 .. n -> Pairs], NEW qs \in [1 .. n -> Pairs]
    PROVE  \A i \in 0 .. n : /\ InversesOf(n, ps, qs)[i] \in Fe
                             /\ Cg(InversesOf(n, ps, qs)[i] * PreOf(n, ps, qs)[i], 1)
<1>0. PICK p : p = PreOf(n, ps, qs)
  OBVIOUS
<1>a. /\ \A i \in 0 .. n : p[i] \in Fe /\ p[i] # 0 /\ p[i] \in Int
      /\ \A i \in 1 .. n : p[i] = FeMul(p[i - 1], Factor(ps[i], qs[i]))
  BY <1>0, PreDefined, FieldPrime
<1>b. PICK last \in Fe : last = FeInv[p[n]] /\ last \in Int /\ Cg(last * p[n], 1)
  <2>1. n \in 0 .. n
    OBVIOUS
  <2> QED BY <1>a, <2>1, InverseRight
<1> DEFINE g == [v \in Nat \X Fe |->
                    IF v[1] < n THEN FeMul(v[2], Factor(ps[n - v[1]], qs[n - v[1]])) ELSE v[2]]
<1>1. \A i \in 1 .. n : Factor(ps[i], qs[i]) \in Fe /\ Factor(ps[i], qs[i]) \in Int
  BY AffAddTyped, FieldPrime
<1>2. g \in [Nat \X Fe -> Fe]
  <2>1. ASSUME NEW v \in Nat \X Fe
        PROVE  (IF v[1] < n THEN FeMul(v[2], Factor(ps[n - v[1]], qs[n - v[1]])) ELSE v[2]) \in Fe
    <3>1. v[1] \in Nat /\ v[2] \in Fe /\ v[2] \in Int
      BY FieldPrime
    <3>2. CASE v[1] < n
      <4>1. n - v[1] \in 1 .. n
        BY <3>1, <3>2
      <4>2. PICK f \in Int : f = Factor(ps[n - v[1]], qs[n - v[1]])
        BY <1>1, <4>1
      <4>3. FeMul(v[2], f) \in Fe
        BY <3>1, FeOps
      <4> QED BY <3>2, <4>2, <4>3
    <3>3. CASE ~(v[1] < n)
      BY <3>1, <3>3
    <3> QED BY <3>2, <3>3
  <2> QED BY <2>1
<1>3. PICK r : IsRecursive(r, Fe, last, g)
  <2> HIDE DEF g
  <2> QED BY <1>2, Recursion
<1>4. r[0] = last /\ \A i \in Nat : r[i] \in Fe
  BY <1>3 DEF IsRecursive
<1>5. \A i \in 0 .. n - 1 : r[n - i] = FeMul(r[n - (i + 1)], Factor(ps[i + 1], qs[i + 1]))
  <2> SUFFICES ASSUME NEW i \in 0 .. n - 1
               PROVE r[n - i] = FeMul(r[n - (i + 1)], Factor(ps[i + 1], qs[i + 1]))
    OBVIOUS
  <2>1. PICK k \in Nat : k = n - (i + 1) /\ k + 1 = n - i /\ k < n /\ n - k = i + 1
    OBVIOUS
  <2>2. r[k + 1] = g[<<k, r[k]>>]
    BY <1>3 DEF IsRecursive
  <2>3. g[<<k, r[k]>>] = FeMul(r[k], Factor(ps[n - k], qs[n - k]))
    <3>1. <<k, r[k]>> \in Nat \X Fe
      BY <1>4
    <3> QED BY <2>1, <3>1
  <2> HIDE DEF g
  <2> QED BY <2>1, <2>2, <2>3
<1> DEFINE f == [i \in 0 .. n |-> r[n - i]]
<1>6. IsInverses(f, n, ps, qs, p[n])
  <2>1. ASSUME NEW i \in 0 .. n
        PROVE  r[n - i] = IF i = n THEN FeInv[p[n]]
                          ELSE FeMul(f[i + 1], Factor(ps[i + 1], qs[i + 1]))
    <3>1. CASE i = n
      <4>1. n - i = 0
        BY <3>1
      <4> QED BY <1>4, <1>b, <3>1, <4>1
    <3>2. CASE i # n
      <4>1. i \in 0 .. n - 1 /\ i + 1 \in 0 .. n
        BY <3>2
      <4>2. f[i + 1] = r[n - (i + 1)]
        BY <4>1
      <4> HIDE DEF f
      <4> QED BY <1>5, <3>2, <4>1, <4>2
    <3> QED BY <3>1, <3>2
  <2>2. f = [i \in 0 .. n |-> IF i = n THEN FeInv[p[n]]
                              ELSE FeMul(f[i + 1], Factor(ps[i + 1], qs[i + 1]))]
    BY <2>1, Zenon
  <2> QED BY <2>2 DEF IsInverses
<1> HIDE DEF f
<1>7. PICK u : u = InversesOf(n, ps, qs) /\ IsInverses(u, n, ps, qs, p[n])
  BY <1>0, <1>6 DEF InversesOf
<1>8. \A i \in 0 .. n : u[i] = IF i = n THEN FeInv[p[n]]
                               ELSE FeMul(u[i + 1], Factor(ps[i + 1], qs[i + 1]))
  <2>1. u = [i \in 0 .. n |-> IF i = n THEN FeInv[p[n]]
                              ELSE FeMul(u[i + 1], Factor(ps[i + 1], qs[i + 1]))]
    BY <1>7 DEF IsInverses
  <2> QED BY <2>1, Zenon
<1>9. u[n] = last
  <2>1. n \in 0 .. n
    OBVIOUS
  <2> QED BY <1>8, <1>b, <2>1
<1>10. \A k \in Nat : k <= n => u[n - k] \in Fe /\ Cg(u[n - k] * p[n - k], 1)
  <2> DEFINE T == {k \in Nat : k <= n => u[n - k] \in Fe /\ Cg(u[n - k] * p[n - k], 1)}
  <2>1. 0 \in T
    <3>1. n - 0 = n
      OBVIOUS
    <3> QED BY <1>9, <1>b, <3>1
  <2>2. ASSUME NEW k \in Nat, k \in T
        PROVE  k + 1 \in T
    <3> SUFFICES ASSUME k + 1 <= n
                 PROVE  u[n - (k + 1)] \in Fe /\ Cg(u[n - (k + 1)] * p[n - (k + 1)], 1)
      OBVIOUS
    <3>1. PICK i \in 0 .. n - 1 : i = n - (k + 1) /\ i + 1 = n - k /\ i \in 0 .. n /\ i + 1 \in 1 .. n
                                  /\ i # n /\ i + 1 \in 0 .. n /\ (i + 1) - 1 = i
      OBVIOUS
    <3>2. u[i + 1] \in Fe /\ Cg(u[i + 1] * p[i + 1], 1)
      BY <2>2, <3>1
    <3>3. PICK a, b, c, d \in Int : /\ a = u[i + 1] /\ b = Factor(ps[i + 1], qs[i + 1])
                                    /\ c = p[i] /\ d = p[i + 1]
      BY <1>1, <1>a, <3>1, <3>2, FieldPrime
    <3>4. u[i] = FeMul(a, b)
      BY <1>8, <3>1, <3>3
    <3>5. d = FeMul(c, b)
      BY <1>a, <3>1, <3>3
    <3>6. PICK e, ab, cb \in Int : e = FeMul(a, b) /\ ab = a * b /\ cb = c * b
      <4>1. FeMul(a, b) \in Int
        BY FeOps
      <4>2. a * b \in Int /\ c * b \in Int
        OBVIOUS
      <4> QED BY <4>1, <4>2
    <3>7. e \in Fe /\ Cg(e, ab) /\ Cg(d, cb)
      <4>1. FeMul(a, b) \in Fe
        BY FeOps
      <4>2. Cg(FeMul(a, b), a * b) /\ Cg(FeMul(c, b), c * b)
        BY FeCg, CgEquiv
      <4> QED BY <3>5, <3>6, <4>1, <4>2
    <3>8. Cg(c, c) /\ Cg(a, a)
      BY CgEquiv
    <3>9. PICK ec, abc, acb, ad \in Int : ec = e * c /\ abc = ab * c /\ acb = a * cb /\ ad = a * d
      BY <3>6
    <3>10. Cg(ec, abc) /\ Cg(ad, acb)
      BY <3>6, <3>7, <3>8, <3>9, CgTimes
    <3>11. abc = acb
      BY <3>6, <3>9
    <3>12. Cg(ad, 1)
      BY <3>2, <3>3, <3>9
    <3>13. Cg(acb, 1)
      <4>1. Cg(acb, ad)
        BY <3>9, <3>10, CgEquiv
      <4> QED BY <3>9, <3>12, <4>1, CgEquiv
    <3>14. Cg(ec, 1)
      <4>1. 1 \in Int
        OBVIOUS
      <4> QED BY <3>9, <3>10, <3>11, <3>13, <4>1, CgEquiv
    <3> QED BY <3>1, <3>3, <3>4, <3>6, <3>7, <3>9, <3>14
  <2>3. Nat \subseteq T
    <3> HIDE DEF T
    <3> QED BY <2>1, <2>2, Induction
  <2> QED BY <2>3
<1>11. ASSUME NEW i \in 0 .. n
       PROVE  u[i] \in Fe /\ Cg(u[i] * p[i], 1)
  <2>1. PICK k \in Nat : k = n - i /\ k <= n /\ n - k = i
    OBVIOUS
  <2> QED BY <1>10, <2>1
<1> QED BY <1>0, <1>7, <1>11

\* The batched additions: every lane gets the sum of its two points, whatever
\* the other lanes hold.
LEMMA BatchAdds ==
    ASSUME NEW n \in Nat, NEW ps \in [1 .. n -> Pairs], NEW qs \in [1 .. n -> Pairs], Len(ps) = n
    PROVE  /\ BatchAdd(ps, qs) \in [1 .. n -> Pairs]
           /\ \A i \in 1 .. n : ps[i] \in CurvePoints /\ qs[i] \in CurvePoints =>
                BatchAdd(ps, qs)[i] = Aff(ChordTangent(ps[i], qs[i]))
<1>1. PICK p, u : p = PreOf(n, ps, qs) /\ u = InversesOf(n, ps, qs)
  OBVIOUS
<1>2. ASSUME NEW i \in 1 .. n
      PROVE  /\ FeMul(u[i], p[i - 1]) \in Int
             /\ Dx(ps[i], qs[i]) # 0 => Cg(FeMul(u[i], p[i - 1]) * Dx(ps[i], qs[i]), 1)
  <2>1. i - 1 \in 0 .. n /\ i \in 0 .. n
    OBVIOUS
  <2>2. /\ p[i - 1] \in Int /\ p[i] \in Int /\ u[i] \in Int /\ Cg(u[i] * p[i], 1)
        /\ p[i] = FeMul(p[i - 1], Factor(ps[i], qs[i]))
    BY ZenonT(60), <1>1, <2>1, PreDefined, InversesDefined, FieldPrime
  <2>3. Dx(ps[i], qs[i]) \in Int
    BY AffAddTyped, FieldPrime
  <2>4. PICK a, b, c, d \in Int : a = u[i] /\ b = p[i - 1] /\ c = p[i] /\ d = Dx(ps[i], qs[i])
    BY <2>2, <2>3
  <2>5. PICK e, ab \in Int : e = FeMul(a, b) /\ ab = a * b /\ Cg(e, ab)
    <3>1. FeMul(a, b) \in Int
      BY FeOps
    <3>2. Cg(FeMul(a, b), a * b)
      BY FeCg, CgEquiv
    <3>3. a * b \in Int
      OBVIOUS
    <3> QED BY <3>1, <3>2, <3>3
  <2>6. ASSUME d # 0 PROVE Cg(e * d, 1)
    <3>1. c = FeMul(b, d)
      BY <2>2, <2>4, <2>6 DEF Factor
    <3>2. PICK bd, ed, abd, ac, a_bd \in Int :
             bd = b * d /\ ed = e * d /\ abd = ab * d /\ ac = a * c /\ a_bd = a * (b * d)
      BY <2>5
    <3>3. Cg(c, bd)
      BY <3>1, <3>2, FeOps
    <3>4. Cg(a, a) /\ Cg(d, d) /\ 1 \in Int
      BY CgEquiv
    <3>5. Cg(ac, a_bd)
      BY <3>2, <3>3, <3>4, CgTimes
    <3>6. Cg(ed, abd)
      BY <2>5, <3>2, <3>4, CgTimes
    <3>7. abd = a_bd
      BY <2>5, <3>2
    <3>8. Cg(ac, 1)
      BY <2>2, <2>4, <3>2
    <3>9. Cg(abd, ac)
      BY <3>2, <3>5, <3>7, CgEquiv
    <3>10. Cg(abd, 1)
      BY <3>2, <3>4, <3>8, <3>9, CgEquiv
    <3>11. Cg(ed, 1)
      BY <3>2, <3>4, <3>6, <3>10, CgEquiv
    <3> QED BY <3>2, <3>11
  <2> QED BY <2>4, <2>5, <2>6
<1>3. PICK b : b = BatchAdd(ps, qs)
  OBVIOUS
<1>4. b = [i \in 1 .. n |->
             IF Dx(ps[i], qs[i]) = 0 THEN AffAddFallback(ps[i], qs[i])
             ELSE AffAddWithInv(ps[i], qs[i], FeMul(u[i], p[i - 1]))]
  BY <1>1, <1>3, BatchAddIs
<1>5. b \in [1 .. n -> Pairs]
  <2>1. ASSUME NEW i \in 1 .. n
        PROVE  (IF Dx(ps[i], qs[i]) = 0 THEN AffAddFallback(ps[i], qs[i])
                ELSE AffAddWithInv(ps[i], qs[i], FeMul(u[i], p[i - 1]))) \in Pairs
    <3>1. ps[i] \in Pairs /\ qs[i] \in Pairs
      OBVIOUS
    <3> QED BY <1>2, <3>1, AffAddTyped
  <2> QED BY <1>4, <2>1
<1>6. ASSUME NEW i \in 1 .. n, ps[i] \in CurvePoints, qs[i] \in CurvePoints
      PROVE  b[i] = Aff(ChordTangent(ps[i], qs[i]))
  <2>1. b[i] = IF Dx(ps[i], qs[i]) = 0 THEN AffAddFallback(ps[i], qs[i])
               ELSE AffAddWithInv(ps[i], qs[i], FeMul(u[i], p[i - 1]))
    BY <1>4
  <2>2. Dx(ps[i], qs[i]) = 0 <=> ps[i].x = qs[i].x
    BY DxZero
  <2>3. CASE Dx(ps[i], qs[i]) = 0
    BY <1>6, <2>1, <2>3, FallbackIs
  <2>4. CASE Dx(ps[i], qs[i]) # 0
    <3>1. PICK inv \in Int : inv = FeMul(u[i], p[i - 1]) /\ Cg(inv * Dx(ps[i], qs[i]), 1)
      BY <1>2, <2>4
    <3>2. /\ AffAddWithInv(ps[i], qs[i], inv) = ChordTangent(ps[i], qs[i])
          /\ ChordTangent(ps[i], qs[i]) # NoPoint
      BY <1>6, <2>2, <2>4, <3>1, WithInvIs
    <3> QED BY <2>1, <2>4, <3>1, <3>2 DEF Aff
  <2> QED BY <2>3, <2>4
<1> QED BY <1>3, <1>5, <1>6

-----------------------------------------------------------------------------
(* The table of the first multiples, and a step of the walk.               *)

IsTable(f) ==
    f = [j \in 1 .. Batch |->
            IF j = 1 THEN Jac(Gx, Gy, 1) ELSE JAdd(f[j - 1], Jac(Gx, Gy, 1))]
TableJ == CHOOSE f : IsTable(f)

\* G as a triple.
LEMMA GeneratorStands ==
    /\ Generator = Mult(1) /\ Generator \in Points
    /\ Jac(Gx, Gy, 1) \in Jacobian /\ Stands(Jac(Gx, Gy, 1), Generator)
<1>1. Generator.x = Gx /\ Generator.y = Gy
  BY DEF Generator, Affine
<1>2. Stands(Jac(Gx, Gy, 1), Generator)
  BY <1>1, GeneratorOnCurve, JacobianStands
<1>3. Generator = Mult(1)
  <2>1. 0 \in Nat /\ 0 + 1 = 1 /\ Mult(0) = NoPoint
    BY ModN, MultBasics DEF Mult
  <2>2. Mult(0 + 1) = ChordTangent(Mult(0), Generator)
    BY <2>1, MultNext
  <2> QED BY <2>1, <2>2 DEF ChordTangent
<1> QED BY <1>2, <1>3, GeneratorOnCurve DEF Stands, Points

\* The table is what its recursion says.
LEMMA TableDefined ==
    /\ TableJ[1] = Jac(Gx, Gy, 1)
    /\ \A j \in 1 .. Batch : j # 1 => TableJ[j] = JAdd(TableJ[j - 1], Jac(Gx, Gy, 1))
<1>0. Batch \in Nat /\ Batch > 0
  BY CallAssumption
<1> DEFINE g == [v \in Nat \X Jacobian |-> JAdd(v[2], Jac(Gx, Gy, 1))]
<1>1. g \in [Nat \X Jacobian -> Jacobian]
  BY GeneratorStands, AddTyped
<1>2. PICK r : IsRecursive(r, Jacobian, Jac(Gx, Gy, 1), g)
  <2> HIDE DEF g
  <2> QED BY <1>1, GeneratorStands, Recursion
<1>3. \A n \in Nat : r[n + 1] = JAdd(r[n], Jac(Gx, Gy, 1))
  <2> SUFFICES ASSUME NEW n \in Nat PROVE r[n + 1] = JAdd(r[n], Jac(Gx, Gy, 1))
    OBVIOUS
  <2>1. r[n] \in Jacobian
    BY <1>2 DEF IsRecursive
  <2>2. r[n + 1] = g[<<n, r[n]>>]
    BY <1>2 DEF IsRecursive
  <2> QED BY <2>1, <2>2
<1>4. r[0] = Jac(Gx, Gy, 1)
  BY <1>2 DEF IsRecursive
<1> DEFINE f == [j \in 1 .. Batch |-> r[j - 1]]
<1>5. IsTable(f)
  <2>1. ASSUME NEW j \in 1 .. Batch
        PROVE  r[j - 1] = IF j = 1 THEN Jac(Gx, Gy, 1) ELSE JAdd(f[j - 1], Jac(Gx, Gy, 1))
    <3>1. CASE j = 1
      BY <1>4, <3>1
    <3>2. CASE j # 1
      <4>1. j - 2 \in Nat /\ j - 1 \in 1 .. Batch /\ (j - 2) + 1 = j - 1 /\ (j - 1) - 1 = j - 2
        BY <1>0, <3>2
      <4>2. f[j - 1] = r[j - 2]
        BY <4>1
      <4>3. r[(j - 2) + 1] = JAdd(r[j - 2], Jac(Gx, Gy, 1))
        BY <1>3, <4>1
      <4> HIDE DEF f
      <4> QED BY <3>2, <4>1, <4>2, <4>3
    <3> QED BY <3>1, <3>2
  <2>2. f = [j \in 1 .. Batch |->
                IF j = 1 THEN Jac(Gx, Gy, 1) ELSE JAdd(f[j - 1], Jac(Gx, Gy, 1))]
    BY <2>1, Zenon
  <2> QED BY <2>2 DEF IsTable
<1>6. IsTable(TableJ)
  <2> HIDE DEF f
  <2> QED BY <1>5 DEF TableJ
<1>7. PICK t : t = TableJ
  OBVIOUS
<1>8. t = [j \in 1 .. Batch |->
              IF j = 1 THEN Jac(Gx, Gy, 1) ELSE JAdd(t[j - 1], Jac(Gx, Gy, 1))]
  BY <1>6, <1>7 DEF IsTable
<1>9. \A j \in 1 .. Batch :
          t[j] = IF j = 1 THEN Jac(Gx, Gy, 1) ELSE JAdd(t[j - 1], Jac(Gx, Gy, 1))
  BY <1>8, Zenon
<1>10. 1 \in 1 .. Batch
  BY <1>0
<1> QED BY <1>7, <1>9, <1>10

\* table[j] is j * G.
LEMMA TableIs ==
    /\ MulTable \in [1 .. Batch -> Pairs]
    /\ \A j \in 1 .. Batch : /\ j \in Nat /\ j % N # 0
                             /\ MulTable[j] = Mult(j) /\ MulTable[j] \in CurvePoints
<1>0. Batch \in Nat /\ Batch > 0 /\ Batch < N /\ N \in Nat
  BY CallAssumption, CurveAssumption
<1>1. MulTable = [j \in 1 .. Batch |-> JToAffine(TableJ[j])]
  BY DEF MulTable, TableJ, IsTable
<1> DEFINE T == {n \in Nat : n + 1 <= Batch => Stands(TableJ[n + 1], Mult(n + 1))}
<1>2. 0 \in T
  <2>1. 0 + 1 = 1
    OBVIOUS
  <2> QED BY <2>1, TableDefined, GeneratorStands
<1>3. ASSUME NEW n \in Nat, n \in T
      PROVE  n + 1 \in T
  <2> SUFFICES ASSUME (n + 1) + 1 <= Batch
               PROVE  Stands(TableJ[(n + 1) + 1], Mult((n + 1) + 1))
    OBVIOUS
  <2>1. PICK m \in Nat : m = n + 1 /\ m + 1 \in 1 .. Batch /\ m + 1 # 1 /\ (m + 1) - 1 = m /\ m <= Batch
    BY <1>0
  <2>2. Stands(TableJ[m], Mult(m))
    BY <1>3, <2>1
  <2>3. TableJ[m + 1] = JAdd(TableJ[m], Jac(Gx, Gy, 1))
    BY <2>1, TableDefined
  <2>4. Mult(m + 1) = ChordTangent(Mult(m), Generator)
    BY MultNext
  <2>5. Mult(m) \in Points
    BY <2>1, MultBasics
  <2>6. Stands(JAdd(TableJ[m], Jac(Gx, Gy, 1)), ChordTangent(Mult(m), Generator))
    BY <2>2, <2>5, GeneratorStands, AddStands
  <2> QED BY <2>1, <2>3, <2>4, <2>6
<1>4. Nat \subseteq T
  <2> HIDE DEF T
  <2> QED BY <1>2, <1>3, Induction
<1>5. ASSUME NEW j \in 1 .. Batch
      PROVE  j \in Nat /\ j % N # 0 /\ MulTable[j] = Mult(j) /\ MulTable[j] \in CurvePoints
  <2>1. PICK n \in Nat : n = j - 1 /\ n + 1 = j /\ n + 1 <= Batch
    BY <1>0
  <2>2. Stands(TableJ[j], Mult(j))
    BY <1>4, <2>1
  <2>3. j \in Nat /\ j \in Int /\ j \in 0 .. N - 1 /\ j # 0
    BY <1>0
  <2>4. j % N # 0
    BY <2>3, ModN
  <2>5. Mult(j) \in CurvePoints /\ Mult(j) \in Points /\ Mult(j) # NoPoint
    BY <2>3, <2>4, MultBasics
  <2>6. JToAffine(TableJ[j]) = Mult(j)
    BY <2>2, <2>5, AffineOf
  <2> QED BY <1>1, <2>3, <2>4, <2>5, <2>6
<1>6. MulTable \in [1 .. Batch -> Pairs]
  BY <1>1, <1>5, PairFacts
<1> QED BY <1>5, <1>6

\* A batch is as long as it is.
LEMMA BatchLength == \A f \in [1 .. Batch -> Pairs] : Len(f) = Batch
<1>1. Batch \in Nat
  BY CallAssumption
<1> SUFFICES ASSUME NEW f \in [1 .. Batch -> Pairs] PROVE Len(f) = Batch
  OBVIOUS
<1>2. f \in Seq(Pairs)
  BY <1>1, SeqDef
<1> QED BY <1>1, <1>2, LenProperties

\* A step adds the table's multiples to its base.
LEMMA StepTyped ==
    ASSUME NEW base \in Pairs
    PROVE  /\ AffineStep(base) \in [1 .. Batch -> Pairs]
           /\ \A i \in 1 .. Batch : base \in CurvePoints =>
                AffineStep(base)[i] = Aff(ChordTangent(base, Mult(i)))
<1>0. Batch \in Nat
  BY CallAssumption
<1>1. PICK ps : ps = [i \in 1 .. Batch |-> base]
  OBVIOUS
<1>2. ps \in [1 .. Batch -> Pairs] /\ \A i \in 1 .. Batch : ps[i] = base
  BY <1>1
<1>3. Len(ps) = Batch
  BY <1>2, BatchLength
<1>4. AffineStep(base) = BatchAdd(ps, MulTable)
  BY <1>1 DEF AffineStep
<1>5. /\ BatchAdd(ps, MulTable) \in [1 .. Batch -> Pairs]
      /\ \A i \in 1 .. Batch : ps[i] \in CurvePoints /\ MulTable[i] \in CurvePoints =>
            BatchAdd(ps, MulTable)[i] = Aff(ChordTangent(ps[i], MulTable[i]))
  BY <1>0, <1>2, <1>3, TableIs, BatchAdds
<1> QED BY <1>2, <1>4, <1>5, TableIs

\* From b * G a step goes to (b + 1) * G, (b + 2) * G and so on.
LEMMA StepIs ==
    ASSUME NEW b \in Nat, b % N # 0, NEW i \in 1 .. Batch
    PROVE  AffineStep(Mult(b))[i] = Aff(Mult(b + i))
<1>1. b \in Int /\ i \in Nat
  BY CallAssumption
<1>2. Mult(b) \in CurvePoints
  BY <1>1, MultBasics
<1>3. ChordTangent(Mult(b), Mult(i)) = Mult(b + i)
  BY <1>1, MultSum
<1> QED BY <1>2, <1>3, StepTyped, PairFacts

-----------------------------------------------------------------------------
(* The walk, batch after batch.                                            *)

IsLanes(f, seed) ==
    f = [s \in 1 .. Steps |-> AffineStep(IF s = 1 THEN seed ELSE f[s - 1][Batch])]
Lanes(seed) == CHOOSE f : IsLanes(f, seed)

\* A walk's slots in terms of its batches.
LEMMA WalkPointsIs ==
    ASSUME NEW seed
    PROVE  WalkPoints(seed) =
             [ki \in 0 .. (Steps * Batch) |->
                IF ki = 0 THEN seed
                ELSE Lanes(seed)[((ki - 1) \div Batch) + 1][((ki - 1) % Batch) + 1]]
BY DEF WalkPoints, Lanes, IsLanes

\* The batches are what their recursion says.
LEMMA LanesDefined ==
    ASSUME NEW seed \in Pairs
    PROVE  /\ Lanes(seed)[1] = AffineStep(seed)
           /\ \A s \in 1 .. Steps : s # 1 => Lanes(seed)[s] = AffineStep(Lanes(seed)[s - 1][Batch])
<1>0. Batch \in Nat /\ Batch > 0 /\ Steps \in Nat /\ Steps > 0 /\ Batch \in 1 .. Batch
  BY CallAssumption
<1> DEFINE S == [1 .. Batch -> Pairs]
           g == [v \in Nat \X S |-> AffineStep(v[2][Batch])]
<1>1. g \in [Nat \X S -> S]
  <2> SUFFICES ASSUME NEW v \in Nat \X S PROVE AffineStep(v[2][Batch]) \in S
    OBVIOUS
  <2>1. v[2][Batch] \in Pairs
    BY <1>0
  <2> QED BY <2>1, StepTyped
<1>2. PICK r : IsRecursive(r, S, AffineStep(seed), g)
  <2>1. AffineStep(seed) \in S
    BY StepTyped
  <2> HIDE DEF g, S
  <2> QED BY <1>1, <2>1, Recursion
<1>3. \A n \in Nat : r[n + 1] = AffineStep(r[n][Batch])
  <2> SUFFICES ASSUME NEW n \in Nat PROVE r[n + 1] = AffineStep(r[n][Batch])
    OBVIOUS
  <2> HIDE DEF S
  <2>1. r[n] \in S
    BY <1>2 DEF IsRecursive
  <2>2. r[n + 1] = g[<<n, r[n]>>]
    BY <1>2 DEF IsRecursive
  <2> QED BY <2>1, <2>2
<1>4. r[0] = AffineStep(seed)
  BY <1>2 DEF IsRecursive
<1> HIDE DEF g, S
<1> DEFINE f == [s \in 1 .. Steps |-> r[s - 1]]
<1>5. IsLanes(f, seed)
  <2>1. ASSUME NEW s \in 1 .. Steps
        PROVE  r[s - 1] = AffineStep(IF s = 1 THEN seed ELSE f[s - 1][Batch])
    <3>1. CASE s = 1
      BY <1>4, <3>1
    <3>2. CASE s # 1
      <4>1. s - 2 \in Nat /\ s - 1 \in 1 .. Steps /\ (s - 2) + 1 = s - 1 /\ (s - 1) - 1 = s - 2
        BY <1>0, <3>2
      <4>2. f[s - 1] = r[s - 2]
        BY <4>1
      <4>3. r[(s - 2) + 1] = AffineStep(r[s - 2][Batch])
        BY <1>3, <4>1
      <4> HIDE DEF f
      <4> QED BY <3>2, <4>1, <4>2, <4>3
    <3> QED BY <3>1, <3>2
  <2>2. f = [s \in 1 .. Steps |-> AffineStep(IF s = 1 THEN seed ELSE f[s - 1][Batch])]
    BY <2>1, Zenon
  <2> QED BY <2>2 DEF IsLanes
<1>6. IsLanes(Lanes(seed), seed)
  <2> HIDE DEF f
  <2> QED BY <1>5 DEF Lanes
<1>7. PICK t : t = Lanes(seed)
  OBVIOUS
<1>8. t = [s \in 1 .. Steps |-> AffineStep(IF s = 1 THEN seed ELSE t[s - 1][Batch])]
  BY <1>6, <1>7 DEF IsLanes
<1>9. \A s \in 1 .. Steps : t[s] = AffineStep(IF s = 1 THEN seed ELSE t[s - 1][Batch])
  BY <1>8, Zenon
<1>10. 1 \in 1 .. Steps
  BY <1>0
<1> QED BY <1>7, <1>9, <1>10

\* The first batch holds the start and the Batch keys after it.
LEMMA FirstBatch ==
    ASSUME NEW start \in Nat, start % N # 0
    PROVE  \A ki \in 0 .. Batch : WalkPoints(Mult(start))[ki] = Aff(Mult(start + ki))
<1>0. Batch \in Nat /\ Batch > 0 /\ Steps \in Nat /\ Steps > 0 /\ start \in Int
  BY CallAssumption
<1>1. Mult(start) \in CurvePoints /\ Mult(start) \in Pairs /\ Mult(start) # NoPoint
  BY <1>0, MultBasics, PairFacts
<1> SUFFICES ASSUME NEW ki \in 0 .. Batch
             PROVE  WalkPoints(Mult(start))[ki] = Aff(Mult(start + ki))
  OBVIOUS
<1>2. ki \in 0 .. Steps * Batch
  <2>1. Batch <= Steps * Batch
    <3>1. 1 \in Nat /\ 1 <= Steps /\ 1 * Batch = Batch
      BY <1>0
    <3> QED BY <1>0, <3>1, TimesLeq
  <2>2. Steps * Batch \in Nat
    BY <1>0
  <2> QED BY <1>0, <2>1, <2>2
<1>3. CASE ki = 0
  <2>1. start + 0 = start
    BY <1>0
  <2> QED BY <1>1, <1>2, <1>3, <2>1, WalkPointsIs DEF Aff
<1>4. CASE ki # 0
  <2>1. ki - 1 \in 0 .. Batch - 1 /\ ki \in 1 .. Batch
    BY <1>0, <1>4
  <2>2. (ki - 1) \div Batch = 0 /\ (ki - 1) % Batch = ki - 1
    <3>1. PICK k \in Nat : k = ki - 1 /\ k \in 0 .. Batch - 1
      BY <2>1
    <3>2. Batch \in Nat \ {0} /\ 0 \in Nat /\ k = Batch * 0 + k
      BY <1>0, <3>1
    <3>3. k \div Batch = 0 /\ k % Batch = k
      BY <3>1, <3>2, Quotient
    <3> QED BY <3>1, <3>3
  <2>3. ((ki - 1) \div Batch) + 1 = 1 /\ ((ki - 1) % Batch) + 1 = ki
    BY <2>1, <2>2
  <2>4. WalkPoints(Mult(start))[ki] = Lanes(Mult(start))[1][ki]
    BY <1>2, <1>4, <2>3, WalkPointsIs
  <2>5. Lanes(Mult(start))[1] = AffineStep(Mult(start))
    BY <1>1, LanesDefined
  <2> QED BY <2>1, <2>4, <2>5, StepIs
<1> QED BY <1>3, <1>4

\* Every batch starts at a point, and holds the keys after it.
LEMMA LanesAre ==
    ASSUME NEW start \in Nat, WalkStaysFinite(start)
    PROVE  \A s \in 0 .. Steps - 1 : \A i \in 1 .. Batch :
              Lanes(Mult(start))[s + 1][i] = Aff(Mult((start + (s * Batch)) + i))
<1>0. Batch \in Nat /\ Batch > 0 /\ Steps \in Nat /\ Steps > 0 /\ start \in Int /\ Batch \in 1 .. Batch
  BY CallAssumption
<1> DEFINE Is(s) == \A i \in 1 .. Batch :
                      Lanes(Mult(start))[s + 1][i] = Aff(Mult((start + (s * Batch)) + i))
           T == {s \in Nat : s <= Steps - 1 => Is(s)}
<1>1. 0 \in T
  <2>1. 0 \in 0 .. Steps - 1 /\ 0 * Batch = 0 /\ start + (0 * Batch) = start /\ 0 + 1 = 1
    BY <1>0
  <2>2. start % N # 0
    BY <2>1 DEF WalkStaysFinite
  <2>3. Mult(start) \in Pairs
    BY <1>0, <2>2, MultBasics, PairFacts
  <2>4. Lanes(Mult(start))[1] = AffineStep(Mult(start))
    BY <2>3, LanesDefined
  <2>5. Is(0)
    BY <2>1, <2>2, <2>4, StepIs
  <2> QED BY <2>5
<1>2. ASSUME NEW s \in Nat, s \in T
      PROVE  s + 1 \in T
  <2> SUFFICES ASSUME s + 1 <= Steps - 1
               PROVE  Is(s + 1)
    OBVIOUS
  <2>1. PICK b \in Nat : b = start + (s * Batch)
    BY <1>0
  <2>2. PICK c \in Nat : c = b + Batch
    BY <1>0
  <2>3. c = start + ((s + 1) * Batch)
    <3>1. (s + 1) * Batch = (s * Batch) + Batch
      BY <1>0
    <3>2. s * Batch \in Nat
      BY <1>0
    <3> QED BY <1>0, <2>1, <2>2, <3>1, <3>2
  <2>4. s + 1 \in 0 .. Steps - 1 /\ s \in 0 .. Steps - 1 /\ (s + 1) + 1 \in 1 .. Steps
        /\ (s + 1) + 1 # 1 /\ ((s + 1) + 1) - 1 = s + 1
    BY <1>0
  <2>5. c % N # 0
    BY <2>3, <2>4 DEF WalkStaysFinite
  <2>6. Mult(c) \in CurvePoints /\ Mult(c) # NoPoint /\ Mult(c) \in Pairs
    BY <2>5, MultBasics, PairFacts
  <2>7. Lanes(Mult(start))[s + 1][Batch] = Mult(c)
    <3>1. Is(s)
      BY <1>2, <2>4
    <3>2. Lanes(Mult(start))[s + 1][Batch] = Aff(Mult(b + Batch))
      BY <1>0, <2>1, <3>1
    <3> QED BY <2>2, <2>6, <3>2 DEF Aff
  <2>8. Mult(start) \in Pairs
    <3>1. 0 \in 0 .. Steps - 1 /\ start + (0 * Batch) = start
      BY <1>0
    <3>2. start % N # 0
      BY <3>1 DEF WalkStaysFinite
    <3> QED BY <1>0, <3>2, MultBasics, PairFacts
  <2>9. Lanes(Mult(start))[(s + 1) + 1] = AffineStep(Mult(c))
    BY <2>4, <2>7, <2>8, LanesDefined
  <2> QED BY <2>3, <2>5, <2>9, StepIs
<1>3. Nat \subseteq T
  <2> HIDE DEF T
  <2> QED BY <1>1, <1>2, Induction
<1> QED BY <1>0, <1>3

\* Slot ki holds the key start + ki.
LEMMA WalkIs ==
    ASSUME NEW start \in Nat, WalkStaysFinite(start)
    PROVE  \A ki \in 0 .. Steps * Batch : WalkPoints(Mult(start))[ki] = Aff(Mult(start + ki))
<1>0. Batch \in Nat \ {0} /\ Batch \in Int /\ Steps \in Nat /\ Steps > 0 /\ start \in Int
  BY CallAssumption
<1> SUFFICES ASSUME NEW ki \in 0 .. Steps * Batch
             PROVE  WalkPoints(Mult(start))[ki] = Aff(Mult(start + ki))
  OBVIOUS
<1>1. CASE ki = 0
  <2>1. 0 \in 0 .. Steps - 1 /\ start + (0 * Batch) = start /\ start + 0 = start
    BY <1>0
  <2>2. start % N # 0
    BY <2>1 DEF WalkStaysFinite
  <2>3. Mult(start) # NoPoint
    BY <1>0, <2>2, MultBasics
  <2> QED BY <1>1, <2>1, <2>3, WalkPointsIs DEF Aff
<1>2. CASE ki # 0
  <2>1. PICK SB \in Nat : SB = Steps * Batch
    BY <1>0
  <2>2. PICK k \in Nat : k = ki - 1 /\ k < SB /\ ki = k + 1
    BY <1>2, <2>1
  <2>3. PICK s, r \in Int : s = k \div Batch /\ r = k % Batch
    BY <1>0
  <2>4. k = (Batch * s) + r /\ r \in 0 .. Batch - 1
    BY <1>0, <2>3, IntDivMod
  <2>5. s \in 0 .. Steps - 1
    <3>1. s \in Nat
      BY <1>0, <2>3, DivMod
    <3>2. ASSUME s >= Steps PROVE FALSE
      <4>1. Steps * Batch <= s * Batch
        BY <1>0, <3>1, <3>2, TimesLeq
      <4>2. PICK t \in Int : t = s * Batch /\ t = Batch * s
        BY <1>0
      <4> QED BY <2>1, <2>2, <2>4, <4>1, <4>2
    <3> QED BY <1>0, <3>1, <3>2
  <2>6. r + 1 \in 1 .. Batch
    BY <1>0, <2>4
  <2>7. WalkPoints(Mult(start))[ki] = Lanes(Mult(start))[s + 1][r + 1]
    BY <1>2, <2>2, <2>3, WalkPointsIs
  <2>8. WalkPoints(Mult(start))[ki] = Aff(Mult((start + (s * Batch)) + (r + 1)))
    BY <2>5, <2>6, <2>7, LanesAre
  <2>9. (start + (s * Batch)) + (r + 1) = start + ki
    <3>1. PICK t \in Int : t = s * Batch /\ t = Batch * s
      BY <1>0, <2>3
    <3> QED BY <1>0, <2>2, <2>3, <2>4, <3>1
  <2> QED BY <2>8, <2>9
<1> QED BY <1>1, <1>2

-----------------------------------------------------------------------------
(* Multiples by double-and-add.                                            *)

Doubling(f, k) ==
    IF k = 0 THEN JInfinity
    ELSE LET twice == JDouble(f[k \div 2])
         IN IF k % 2 = 1 THEN JAdd(twice, Jac(Gx, Gy, 1)) ELSE twice
IsJMulG(f) ==
    f = [k \in 0 .. 2 * N |->
            IF k = 0 THEN JInfinity
            ELSE LET twice == JDouble(f[k \div 2])
                 IN IF k % 2 = 1 THEN JAdd(twice, Jac(Gx, Gy, 1)) ELSE twice]

\* A number from its half and its last bit.
LEMMA Halves ==
    \A k \in Nat : k # 0 =>
        /\ k \div 2 \in Nat /\ k \div 2 < k /\ k \div 2 <= k /\ k % 2 \in {0, 1}
        /\ k = (k \div 2) + (k \div 2) + (k % 2)
<1> SUFFICES ASSUME NEW k \in Nat, k # 0
             PROVE  /\ k \div 2 \in Nat /\ k \div 2 < k /\ k \div 2 <= k /\ k % 2 \in {0, 1}
                    /\ k = (k \div 2) + (k \div 2) + (k % 2)
  OBVIOUS
<1> QED OBVIOUS

\* A step of the recursion stays in the field.
LEMMA DoublingTyped ==
    ASSUME NEW f, NEW k, f[k \div 2] \in Jacobian
    PROVE  Doubling(f, k) \in Jacobian
<1>1. JDouble(f[k \div 2]) \in Jacobian
  BY DoubleTyped
<1>2. JAdd(JDouble(f[k \div 2]), Jac(Gx, Gy, 1)) \in Jacobian
  BY <1>1, GeneratorStands, AddTyped
<1>3. JInfinity \in Jacobian
  BY InfinityStands DEF Stands
<1> QED BY <1>1, <1>2, <1>3 DEF Doubling

\* JMulG is what its recursion over halves says: iterating the recursion's
\* body from any function settles the value for k after k iterations.
LEMMA JMulGDefined ==
    \A k \in 0 .. 2 * N : JMulG[k] = Doubling(JMulG, k)
<1>0. N \in Nat /\ 2 * N \in Nat
  BY CurveAssumption
<1> DEFINE S == [0 .. 2 * N -> Jacobian]
           g == [v \in Nat \X S |-> [k \in 0 .. 2 * N |-> Doubling(v[2], k)]]
           b == [k \in 0 .. 2 * N |-> JInfinity]
<1>1. JInfinity \in Jacobian
  BY InfinityStands DEF Stands
<1>2. g \in [Nat \X S -> S]
  <2> SUFFICES ASSUME NEW v \in Nat \X S, NEW k \in 0 .. 2 * N PROVE Doubling(v[2], k) \in Jacobian
    OBVIOUS
  <2>1. CASE k = 0
    BY <1>1, <2>1 DEF Doubling
  <2>2. CASE k # 0
    <3>1. k \div 2 \in 0 .. 2 * N
      BY <1>0, <2>2, Halves
    <3>2. v[2][k \div 2] \in Jacobian
      BY <3>1
    <3> QED BY <3>2, DoublingTyped
  <2> QED BY <2>1, <2>2
<1>3. b \in S
  BY <1>1
<1>4. PICK r : IsRecursive(r, S, b, g)
  <2> HIDE DEF g, b, S
  <2> QED BY <1>2, <1>3, Recursion
<1>5. \A n \in Nat : r[n] \in S /\ r[n + 1] = [k \in 0 .. 2 * N |-> Doubling(r[n], k)]
  <2> SUFFICES ASSUME NEW n \in Nat
               PROVE  r[n] \in S /\ r[n + 1] = [k \in 0 .. 2 * N |-> Doubling(r[n], k)]
    OBVIOUS
  <2> HIDE DEF S
  <2>1. r[n] \in S
    BY <1>4 DEF IsRecursive
  <2>2. r[n + 1] = g[<<n, r[n]>>]
    BY <1>4 DEF IsRecursive
  <2> QED BY <2>1, <2>2
<1>6. r[0] = b
  BY <1>4 DEF IsRecursive
<1> DEFINE T == {n \in Nat : \A k \in 0 .. 2 * N : k <= n => r[n][k] = r[n + 1][k]}
<1>7. 0 \in T
  <2>1. 0 \in 0 .. 2 * N
    BY <1>0
  <2>2. r[0 + 1][0] = Doubling(r[0], 0)
    BY <1>5, <2>1
  <2>3. r[0][0] = JInfinity
    BY <1>6, <2>1
  <2> QED BY <1>0, <2>2, <2>3 DEF Doubling
<1>8. ASSUME NEW n \in Nat, n \in T
      PROVE  n + 1 \in T
  <2> SUFFICES ASSUME NEW k \in 0 .. 2 * N, k <= n + 1
               PROVE  r[n + 1][k] = r[(n + 1) + 1][k]
    OBVIOUS
  <2>1. r[n + 1][k] = Doubling(r[n], k) /\ r[(n + 1) + 1][k] = Doubling(r[n + 1], k)
    <3>1. n + 1 \in Nat
      OBVIOUS
    <3>2. /\ r[n + 1] = [i \in 0 .. 2 * N |-> Doubling(r[n], i)]
          /\ r[(n + 1) + 1] = [i \in 0 .. 2 * N |-> Doubling(r[n + 1], i)]
      BY <1>5, <3>1, Zenon
    <3> QED BY <3>2, Zenon
  <2>2. CASE k = 0
    BY <2>1, <2>2 DEF Doubling
  <2>3. CASE k # 0
    <3>1. k \div 2 \in 0 .. 2 * N /\ k \div 2 <= n
      BY <1>0, <2>3, Halves
    <3>2. r[n][k \div 2] = r[n + 1][k \div 2]
      BY <1>8, <3>1
    <3> QED BY <2>1, <3>2 DEF Doubling
  <2> QED BY <2>2, <2>3
<1>9. Nat \subseteq T
  <2> HIDE DEF T
  <2> QED BY <1>7, <1>8, Induction
<1>10. PICK f \in S : f = r[2 * N]
  BY <1>0, <1>5
<1>11. f = [k \in 0 .. 2 * N |-> Doubling(f, k)]
  <2>1. ASSUME NEW k \in 0 .. 2 * N PROVE f[k] = Doubling(f, k)
    <3>1. r[2 * N][k] = r[(2 * N) + 1][k]
      BY <1>0, <1>9
    <3>2. r[(2 * N) + 1][k] = Doubling(r[2 * N], k)
      BY <1>0, <1>5
    <3> QED BY <1>10, <3>1, <3>2
  <2> QED BY <1>10, <2>1
<1>12. IsJMulG(f)
  BY <1>11, Zenon DEF IsJMulG, Doubling
<1>13. JMulG = CHOOSE m : IsJMulG(m)
  BY DEF JMulG, IsJMulG
<1>14. IsJMulG(JMulG)
  BY <1>12, <1>13
<1>15. PICK t : t = JMulG
  OBVIOUS
<1>16. t = [k \in 0 .. 2 * N |-> Doubling(t, k)]
  BY <1>14, <1>15, Zenon DEF IsJMulG, Doubling
<1>17. \A k \in 0 .. 2 * N : t[k] = Doubling(t, k)
  BY <1>16, Zenon
<1> QED BY <1>15, <1>17

\* JMulG[k] stands for k * G.
LEMMA JMulGStands == \A k \in 0 .. 2 * N : Stands(JMulG[k], Mult(k))
<1>0. N \in Nat /\ 2 * N \in Nat
  BY CurveAssumption
<1> DEFINE T == {n \in Nat : \A k \in 0 .. 2 * N : k <= n => Stands(JMulG[k], Mult(k))}
<1>1. 0 \in 0 .. 2 * N /\ JMulG[0] = JInfinity /\ Mult(0) = NoPoint
  <2>1. 0 \in 0 .. 2 * N
    BY <1>0
  <2>2. JMulG[0] = Doubling(JMulG, 0)
    BY <2>1, JMulGDefined
  <2>3. Mult(0) = NoPoint
    BY ModN, MultBasics DEF Mult
  <2> QED BY <2>1, <2>2, <2>3 DEF Doubling
<1>2. 0 \in T
  <2>1. Stands(JMulG[0], Mult(0))
    BY <1>1, InfinityStands
  <2> QED BY <1>0, <2>1
<1>3. ASSUME NEW n \in Nat, n \in T
      PROVE  n + 1 \in T
  <2> SUFFICES ASSUME NEW k \in 0 .. 2 * N, k <= n + 1, k # 0
               PROVE  Stands(JMulG[k], Mult(k))
    BY <1>1, InfinityStands
  <2>1. PICK h, r \in Nat : h = k \div 2 /\ r = k % 2 /\ h < k /\ r \in {0, 1} /\ k = h + h + r
    <3>1. k \in Nat
      BY <1>0
    <3>2. k % 2 \in Nat /\ k \div 2 \in Nat
      BY <3>1, Halves
    <3> QED BY <3>1, <3>2, Halves
  <2>2. h \in 0 .. 2 * N /\ h <= n
    BY <1>0, <2>1
  <2>3. Stands(JMulG[h], Mult(h)) /\ Mult(h) \in Points
    <3>1. Stands(JMulG[h], Mult(h))
      BY <1>3, <2>2
    <3>2. h \in Int
      BY <2>1
    <3> QED BY <3>1, <3>2, MultBasics
  <2>4. PICK d : d = JDouble(JMulG[h])
    OBVIOUS
  <2>5. Stands(d, Mult(h + h))
    BY <2>1, <2>3, <2>4, DoubleStands, MultSum
  <2>6. JMulG[k] = IF r = 1 THEN JAdd(d, Jac(Gx, Gy, 1)) ELSE d
    BY <2>1, <2>4, JMulGDefined DEF Doubling
  <2>7. CASE r = 0
    <3>1. k = h + h
      BY <2>1, <2>7
    <3>2. JMulG[k] = d
      BY <2>6, <2>7
    <3> QED BY <2>5, <3>1, <3>2
  <2>8. CASE r = 1
    <3>1. h + h \in Nat /\ h + h \in Int /\ k = (h + h) + 1
      BY <2>1, <2>8
    <3>2. Mult(h + h) \in Points
      BY <3>1, MultBasics
    <3>3. Stands(JAdd(d, Jac(Gx, Gy, 1)), ChordTangent(Mult(h + h), Generator))
      BY <2>5, <3>2, GeneratorStands, AddStands
    <3> QED BY <2>6, <2>8, <3>1, <3>3, MultNext
  <2> QED BY <2>1, <2>7, <2>8
<1>4. Nat \subseteq T
  <2> HIDE DEF T
  <2> QED BY <1>2, <1>3, Induction
<1> QED BY <1>0, <1>4

\* MulG[k] is k * G, and the sentinel when N divides k.
LEMMA MulGIs ==
    \A k \in 0 .. 2 * N : k \in Nat /\ MulG[k] = Aff(Mult(k))
<1> SUFFICES ASSUME NEW k \in 0 .. 2 * N PROVE k \in Nat /\ MulG[k] = Aff(Mult(k))
  OBVIOUS
<1>1. k \in Nat /\ k \in Int
  BY CurveAssumption
<1>2. MulG[k] = JToAffine(JMulG[k])
  BY DEF MulG
<1>3. Mult(k) \in Points
  BY <1>1, MultBasics
<1> QED BY <1>1, <1>2, <1>3, JMulGStands, AffineOf DEF Aff

-----------------------------------------------------------------------------
(* What the walks emit.                                                    *)

\* The two encodings of a slot are those of the key's point and the mirror's.
LEMMA EncodingsAre ==
    ASSUME NEW k \in 1 .. N - 1
    PROVE  BothEncodings(Multiples[k]) = <<Compressed(Multiples[k]), Compressed(Multiples[N - k])>>
<1>1. PICK p, q : p = Multiples[k] /\ q = Multiples[N - k]
  OBVIOUS
<1>2. q.x = p.x /\ (FeIsOdd(q.y) <=> ~FeIsOdd(p.y))
  BY <1>1, MultOpposite
<1>3. FeIsOdd(q.y) = ~FeIsOdd(p.y)
  <2>1. FeIsOdd(q.y) \in BOOLEAN /\ FeIsOdd(p.y) \in BOOLEAN
    BY DEF FeIsOdd
  <2> QED BY <1>2, <2>1
<1> QED BY <1>1, <1>2, <1>3 DEF BothEncodings, Compressed

\* A point, and the multiple of G at a finite slot.
LEMMA FiniteAre ==
    ASSUME NEW k \in Nat, k % N # 0
    PROVE  /\ k % N \in 1 .. N - 1 /\ Mult(k) = Multiples[k % N] /\ Aff(Mult(k)) = Multiples[k % N]
           /\ Multiples[k % N] \in CurvePoints
<1>1. k \in Int
  OBVIOUS
<1> QED BY <1>1, MultBasics DEF Mult, Aff

\* Every slot of a walk holds the encodings of its key's point and of the
\* mirror's, whatever other points its batch meets.
THEOREM WalksEmitKeys == PureSpec => []WalkEmitsKeys
<1>1. Init => WalkEmitsKeys
  BY DEF Init, WalkEmitsKeys
<1>2. WalkEmitsKeys /\ [PureNext]_vars => WalkEmitsKeys'
  <2> SUFFICES ASSUME WalkEmitsKeys, [PureNext]_vars, call'.op = "walk", WalkStaysFinite(call'.start),
                      NEW ki \in 0 .. Steps * Batch, (call'.start + ki) % N # 0
               PROVE  out'[ki] = <<Compressed(Multiples[(call'.start + ki) % N]),
                                   Compressed(Multiples[N - ((call'.start + ki) % N)])>>
    BY DEF WalkEmitsKeys
  <2>1. CASE UNCHANGED vars
    BY <2>1 DEF vars, WalkEmitsKeys
  <2>2. CASE vars' # vars
    <3>1. WalkCall
      BY <2>2, WhichCall
    <3>2. PICK start \in 1 .. N - 1 :
            /\ call' = [op |-> "walk", start |-> start]
            /\ out' = LET points == WalkPoints(MulG[start])
                      IN [i \in DOMAIN points |-> BothEncodings(points[i])]
      BY <3>1 DEF WalkCall
    <3>3. start \in Nat /\ start \in 0 .. 2 * N /\ start % N # 0 /\ ki \in Nat /\ call'.start = start
      <4>1. start \in Nat /\ start \in 0 .. 2 * N /\ start # 0 /\ start \in 0 .. N - 1
        BY CurveAssumption
      <4>2. ki \in Nat
        BY CallAssumption
      <4> QED BY <3>2, <4>1, <4>2, ModN
    <3>4. MulG[start] = Mult(start)
      BY <3>3, MulGIs, FiniteAre
    <3>5. WalkPoints(MulG[start])[ki] = Aff(Mult(start + ki))
      BY <3>2, <3>3, <3>4, WalkIs
    <3>6. DOMAIN WalkPoints(MulG[start]) = 0 .. (Steps * Batch)
      BY WalkPointsIs
    <3>7. out'[ki] = BothEncodings(Aff(Mult(start + ki)))
      BY <3>2, <3>5, <3>6
    <3>8. PICK k \in Nat : k = start + ki
      BY <3>3
    <3>9. k % N \in 1 .. N - 1 /\ Aff(Mult(k)) = Multiples[k % N]
      BY <3>3, <3>8, FiniteAre
    <3> QED BY <3>3, <3>7, <3>8, <3>9, EncodingsAre
  <2> QED BY <2>1, <2>2 DEF vars
<1> QED BY <1>1, <1>2, PTL DEF PureSpec

-----------------------------------------------------------------------------
(* What Kangaroo and KangarooRef assume of the formulas.                   *)

\* A point is determined by its compressed form.
LEMMA CompressedOne ==
    ASSUME NEW p \in CurvePoints, NEW q \in CurvePoints, Compressed(p) = Compressed(q)
    PROVE  p = q
<1>1. p.x = q.x /\ FeIsOdd(p.y) = FeIsOdd(q.y)
  BY DEF Compressed
<1>2. CASE p = q
  BY <1>2
<1>3. CASE p # q
  <2>1. FeAdd(p.y, q.y) = 0
    BY <1>1, <1>3, SameX
  <2>2. p # NoPoint /\ q # NoPoint
    BY PointFacts
  <2>3. ChordTangent(p, q) = NoPoint
    BY <1>1, <2>1, <2>2, Zenon DEF ChordTangent
  <2>4. q.y = FeNegate(p.y)
    BY <2>3, CancelOpposite
  <2>5. p.y \in Fe /\ p.y # 0
    BY PointFacts, AxesAssumption
  <2> QED BY <1>1, <2>4, <2>5, Negated
<1> QED BY <1>2, <1>3

\* Decompression undoes compression.
LEMMA DecompressBack ==
    ASSUME NEW p \in CurvePoints
    PROVE  Decompress(Compressed(p)) = p
<1>1. PICK odd, x : odd = FeIsOdd(p.y) /\ x = p.x
  OBVIOUS
<1>2. odd \in BOOLEAN /\ x \in Fe
  BY <1>1, PointFacts DEF FeIsOdd
<1>3. Compressed(p) = <<odd, x>>
  BY <1>1 DEF Compressed
<1>4. /\ Decompress(<<odd, x>>) \in CurvePoints
      /\ Compressed(Decompress(<<odd, x>>)) = <<odd, x>>
  BY <1>1, <1>2, DecompressFinds
<1> QED BY <1>3, <1>4, CompressedOne

\* One step of a walk that pays for its own inverse is the sum.
LEMMA AffAddIs ==
    ASSUME NEW p \in CurvePoints, NEW q \in CurvePoints
    PROVE  AffAdd(p, q) = Aff(ChordTangent(p, q))
<1>1. p \in Pairs /\ q \in Pairs
  BY PairFacts
<1>2. CASE Dx(p, q) = 0
  BY <1>2, FallbackIs DEF AffAdd
<1>3. CASE Dx(p, q) # 0
  <2>1. PICK d : d = Dx(p, q)
    OBVIOUS
  <2>2. d \in Fe /\ d # 0
    BY <1>1, <1>3, <2>1, AffAddTyped
  <2>3. FeInv[d] \in Fe /\ Cg(FeInv[d] * d, 1)
    BY <2>2, InverseRight, FieldPrime DEF Fe
  <2>4. FeInv[d] \in Int
    BY <2>3, FieldPrime
  <2>5. p.x # q.x
    BY <1>1, <1>3, DxZero
  <2>6. /\ AffAddWithInv(p, q, FeInv[d]) = ChordTangent(p, q)
        /\ ChordTangent(p, q) # NoPoint
    BY <2>1, <2>3, <2>4, <2>5, WithInvIs
  <2> QED BY <1>3, <2>1, <2>6 DEF AffAdd, Aff
<1> QED BY <1>2, <1>3

\* A key's point.
LEMMA MulGPoint ==
    \A k \in 1 .. N - 1 :
        /\ k \in Nat /\ k \in Int /\ k \in 0 .. N - 1 /\ k % N = k /\ k % N # 0
        /\ MulG[k] = Mult(k) /\ Mult(k) = Multiples[k]
        /\ Mult(k) \in CurvePoints /\ Mult(k) # NoPoint
<1> SUFFICES ASSUME NEW k \in 1 .. N - 1
             PROVE  /\ k \in Nat /\ k \in Int /\ k \in 0 .. N - 1 /\ k % N = k /\ k % N # 0
                    /\ MulG[k] = Mult(k) /\ Mult(k) = Multiples[k]
                    /\ Mult(k) \in CurvePoints /\ Mult(k) # NoPoint
  OBVIOUS
<1>1. k \in Nat /\ k \in Int /\ k \in 0 .. N - 1 /\ k # 0 /\ k \in 0 .. 2 * N
  BY CurveAssumption
<1>2. k % N = k
  BY <1>1, ModN
<1> QED BY <1>1, <1>2, MulGIs, MultBasics DEF Mult, Aff

\* MulG of a reduced scalar.
LEMMA MulGMod ==
    \A k \in Nat : k % N \in 0 .. N - 1 /\ MulG[k % N] = Aff(Mult(k))
<1> SUFFICES ASSUME NEW k \in Nat PROVE k % N \in 0 .. N - 1 /\ MulG[k % N] = Aff(Mult(k))
  OBVIOUS
<1>1. k % N \in 0 .. N - 1
  BY ModN
<1>2. PICK r \in 0 .. N - 1 : r = k % N
  BY <1>1
<1>3. r % N = r /\ r \in 0 .. 2 * N
  BY <1>2, ModN
<1>4. Mult(r) = Mult(k)
  BY <1>2, <1>3 DEF Mult
<1> QED BY <1>2, <1>3, <1>4, MulGIs

\* On every curve where chords and tangents add associatively, and G has order N,
\* the formulas the kernels add points with obey the laws the walks rely on.
THEOREM FormulasObeyLaws == GroupLaws
<1>1. MulG[0] = Sentinel
  <2>1. 0 \in 0 .. 2 * N /\ Mult(0) = NoPoint
    BY ModN, MultBasics DEF Mult
  <2> QED BY <2>1, MulGIs DEF Aff
<1>2. ASSUME NEW k \in 1 .. N - 1 PROVE MulG[k] \in CurvePoints \ {Sentinel}
  <2>1. MulG[k] \in CurvePoints
    BY MulGPoint
  <2>2. MulG[k].x # 0
    BY <2>1, AxesAssumption
  <2> QED BY <2>1, <2>2 DEF Sentinel, Affine
<1>3. ASSUME NEW j \in 1 .. N - 1, NEW k \in 1 .. N - 1
      PROVE  /\ AffAdd(MulG[j], MulG[k]) = MulG[(j + k) % N]
             /\ AffAddFallback(MulG[j], MulG[k]) = MulG[(j + k) % N]
             /\ MulG[j].x = MulG[k].x => k = j \/ k = N - j
  <2>1. PICK p, q : p = MulG[j] /\ q = MulG[k]
    OBVIOUS
  <2>2. /\ p = Mult(j) /\ q = Mult(k) /\ p \in CurvePoints /\ q \in CurvePoints
        /\ j \in Nat /\ k \in Nat /\ j % N = j /\ k % N = k /\ p # NoPoint /\ q # NoPoint
    BY <2>1, MulGPoint
  <2>3. ChordTangent(p, q) = Mult(j + k) /\ j + k \in Nat
    BY <2>2, MultSum
  <2>4. MulG[(j + k) % N] = Aff(ChordTangent(p, q))
    BY <2>3, MulGMod
  <2>5. ASSUME p.x = q.x PROVE k = j \/ k = N - j
    <3>1. CASE p = q
      BY <2>2, <3>1, MultEqual
    <3>2. CASE FeAdd(p.y, q.y) = 0
      <4>1. ChordTangent(p, q) = NoPoint
        BY <2>2, <2>5, <3>2, Zenon DEF ChordTangent
      <4>2. PICK s \in Nat : s = j + k
        BY <2>3
      <4>3. s % N = 0
        BY <2>3, <4>1, <4>2, MultBasics
      <4>4. N \in Nat /\ N > 0 /\ -N <= s /\ s < 2 * N /\ s \in Int
        BY <4>2, ModN
      <4>5. s % N = IF s < 0 THEN s + N ELSE IF s < N THEN s ELSE s - N
        BY <4>4, ModNear
      <4> QED BY <4>2, <4>3, <4>4, <4>5
    <3> QED BY <2>2, <2>5, <3>1, <3>2, SameX
  <2> QED BY <2>1, <2>2, <2>4, <2>5, AffAddIs, FallbackIs
<1>4. ASSUME NEW j \in 1 .. N - 1, NEW k \in 1 .. N
      PROVE  SumIs(JAdd(ToJacobian(Decompress(Compressed(MulG[j]))), JMulG[k]), j + k)
  <2>1. /\ MulG[j] = Mult(j) /\ Mult(j) \in CurvePoints /\ j \in Nat
    BY MulGPoint
  <2>2. k \in 0 .. 2 * N /\ k \in Nat /\ k \in Int
    BY ModN
  <2>3. PICK p : p = Mult(j)
    OBVIOUS
  <2>4. Decompress(Compressed(MulG[j])) = p
    BY <2>1, <2>3, DecompressBack
  <2>5. Stands(ToJacobian(p), p) /\ p \in Points
    BY <2>1, <2>3, JacobianStands DEF ToJacobian, Points
  <2>6. Stands(JMulG[k], Mult(k)) /\ Mult(k) \in Points
    BY <2>2, JMulGStands, MultBasics
  <2>7. PICK sum : sum = JAdd(ToJacobian(p), JMulG[k])
    OBVIOUS
  <2>8. Stands(sum, Mult(j + k))
    BY <2>1, <2>2, <2>3, <2>5, <2>6, <2>7, AddStands, MultSum
  <2>9. j + k \in Nat /\ j + k \in Int
    BY <2>1, <2>2
  <2>10. Mult(j + k) \in Points /\ (Mult(j + k) = NoPoint <=> (j + k) % N = 0)
    BY <2>9, MultBasics
  <2>11. /\ IsInfinity(sum) <=> Mult(j + k) = NoPoint
         /\ JToAffine(sum) = Aff(Mult(j + k))
    BY <2>8, <2>10, AffineOf DEF Aff
  <2>12. MulG[(j + k) % N] = Aff(Mult(j + k))
    BY <2>9, MulGMod
  <2> QED BY <2>4, <2>7, <2>10, <2>11, <2>12 DEF SumIs
<1>5. ASSUME NEW k \in 1 .. N - 1
      PROVE  /\ FeIsOdd(MulG[k].y) => Canon(MulG[k]) = MulG[N - k]
             /\ FeIsOdd(MulG[N - k].y) <=> ~FeIsOdd(MulG[k].y)
  <2>1. N - k \in 1 .. N - 1
    BY ComplementMod
  <2>2. PICK p, q : p = MulG[k] /\ q = MulG[N - k]
    OBVIOUS
  <2>3. p = Multiples[k] /\ q = Multiples[N - k] /\ q \in CurvePoints
    BY <2>1, <2>2, MulGPoint
  <2>4. q.x = p.x /\ q.y = FeNegate(p.y) /\ (FeIsOdd(q.y) <=> ~FeIsOdd(p.y))
    BY <2>3, MultOpposite
  <2>5. q = Affine(q.x, q.y)
    BY <2>3, PointFacts
  <2>6. FeIsOdd(p.y) => Canon(p) = q
    BY <2>4, <2>5 DEF Canon
  <2> QED BY <2>2, <2>4, <2>6
<1> QED BY <1>1, <1>2, <1>3, <1>4, <1>5 DEF GroupLaws

-----------------------------------------------------------------------------
(* The scans.                                                              *)

\* No slot for the point at infinity is taken for a key.
LEMMA NeverSentinel ==
    ASSUME NEW priv \in 1 .. N - 1, NEW k \in Nat, Aff(Mult(k)).x = Mult(priv).x
    PROVE  Mult(k) \in CurvePoints /\ Mult(k) # NoPoint /\ Aff(Mult(k)) = Mult(k) /\ k % N # 0
<1>1. Mult(priv) \in CurvePoints /\ Mult(priv).x # 0
  BY MulGPoint, AxesAssumption
<1>2. Sentinel.x = 0
  BY DEF Sentinel, Affine
<1>3. k \in Int
  OBVIOUS
<1>4. Mult(k) # NoPoint
  BY <1>1, <1>2 DEF Aff
<1> QED BY <1>3, <1>4, MultBasics DEF Aff

\* A slot with the target's encoding holds the key.
LEMMA SameKey ==
    ASSUME NEW priv \in 1 .. N - 1, NEW k \in Nat,
           Compressed(Aff(Mult(k))) = Compressed(Mult(priv))
    PROVE  k % N = priv
<1>1. Aff(Mult(k)).x = Mult(priv).x
  BY DEF Compressed
<1>2. Mult(k) \in CurvePoints /\ Aff(Mult(k)) = Mult(k)
  BY <1>1, NeverSentinel
<1>3. Mult(priv) \in CurvePoints /\ priv \in Nat /\ priv % N = priv
  BY MulGPoint
<1>4. Mult(k) = Mult(priv)
  BY <1>2, <1>3, CompressedOne
<1> QED BY <1>3, <1>4, MultEqual

\* A slot with the target's encoding and the other prefix holds the mirror.
LEMMA MirrorKey ==
    ASSUME NEW priv \in 1 .. N - 1, NEW k \in Nat,
           <<~FeIsOdd(Aff(Mult(k)).y), Aff(Mult(k)).x>> = Compressed(Mult(priv))
    PROVE  k % N = N - priv
<1>1. Aff(Mult(k)).x = Mult(priv).x
  BY DEF Compressed
<1>2. Aff(Mult(k)) = Mult(k) /\ k % N # 0
  BY <1>1, NeverSentinel
<1>3. PICK r \in 1 .. N - 1 : r = k % N
  BY <1>2, FiniteAre
<1>4. Aff(Mult(k)) = Multiples[r]
  BY <1>2, <1>3, FiniteAre
<1>5. BothEncodings(Multiples[r]) = <<Compressed(Multiples[r]), Compressed(Multiples[N - r])>>
  BY EncodingsAre
<1>6. Compressed(Multiples[N - r]) = Compressed(Mult(priv))
  BY <1>4, <1>5 DEF BothEncodings
<1>7. PICK m \in 1 .. N - 1 : m = N - r
  BY ComplementMod
<1>8. m \in Nat /\ Mult(m) = Multiples[m] /\ Mult(m) \in CurvePoints /\ Mult(m) # NoPoint /\ m % N = m
  BY MulGPoint
<1>9. Compressed(Aff(Mult(m))) = Compressed(Mult(priv))
  BY <1>6, <1>7, <1>8 DEF Aff
<1>10. m = priv
  BY <1>8, <1>9, SameKey
<1> QED BY <1>3, <1>7, <1>10, ModN

SidesOf(seed, target, neg, ki) ==
    {side \in IF neg THEN {0, 1} ELSE {0} :
        BothEncodings(WalkPoints(seed)[ki])[side + 1] = target}
HitsOf(seed, target, neg) ==
    {i \in DOMAIN HashOrder : SidesOf(seed, target, neg, HashOrder[i]) # {}}
LeastOf(S) == CHOOSE i \in S : \A j \in S : i <= j

\* The least of a nonempty set of naturals.
LEMMA LeastOfIs ==
    ASSUME NEW S, S \subseteq Nat, S # {}
    PROVE  LeastOf(S) \in S /\ \A j \in S : LeastOf(S) <= j
BY LeastExists DEF LeastOf

\* FirstHit in those terms.
LEMMA FirstHitIs ==
    ASSUME NEW lane, NEW seed, NEW low, NEW target, NEW neg
    PROVE  FirstHit(lane, seed, low, target, neg) =
             LET first == LeastOf(HitsOf(seed, target, neg))
             IN IF HitsOf(seed, target, neg) = {} THEN NotFound
                ELSE Hit(lane, (low + HashOrder[first]) % LowWords,
                         LeastOf(SidesOf(seed, target, neg, HashOrder[first])))
BY Zenon DEF FirstHit, HitsOf, SidesOf, LeastOf

\* The slots of the first batch come first, from its last one down; a scan gets
\* to slot Back before it leaves them.
LEMMA HashIs ==
    /\ DOMAIN HashOrder \subseteq Nat
    /\ 2 + (Batch - Back) \in DOMAIN HashOrder /\ HashOrder[2 + (Batch - Back)] = Back
    /\ \A i \in DOMAIN HashOrder : i <= 2 + (Batch - Back) => HashOrder[i] \in 0 .. Batch
<1>0. /\ Batch \in Nat \ {0} /\ Steps \in Nat /\ Steps > 0 /\ Back \in Nat /\ Back > 0 /\ Back < Batch
      /\ Batch \in Nat
  BY CallAssumption, PureAssumption
<1>1. PICK SB \in Nat : SB = Steps * Batch /\ Batch <= SB
  <2>1. 1 \in Nat /\ 1 <= Steps /\ 1 * Batch = Batch /\ Steps * Batch \in Nat
    BY <1>0
  <2>2. Batch <= Steps * Batch
    BY <1>0, <2>1, TimesLeq
  <2> QED BY <2>1, <2>2
<1>2. DOMAIN HashOrder = 1 .. 1 + SB
  BY <1>1 DEF HashOrder
<1>3. ASSUME NEW i \in 2 .. Batch + 1
      PROVE  i \in DOMAIN HashOrder /\ HashOrder[i] = Batch - (i - 2)
  <2>1. PICK k \in Nat : k = i - 2 /\ k \in 0 .. Batch - 1
    BY <1>0
  <2>2. 0 \in Nat /\ k = Batch * 0 + k
    BY <1>0
  <2>3. k \div Batch = 0 /\ k % Batch = k
    BY <1>0, <2>1, <2>2, Quotient
  <2>4. i \in 1 .. 1 + SB /\ i # 1 /\ (0 + 1) * Batch = Batch
    BY <1>0, <1>1
  <2>5. i \in 1 .. 1 + (Steps * Batch)
    BY <1>1, <2>4
  <2>6. HashOrder[i] = LET s == (i - 2) \div Batch IN (s + 1) * Batch - ((i - 2) % Batch)
    BY <2>4, <2>5 DEF HashOrder
  <2> QED BY <1>2, <2>1, <2>3, <2>4, <2>6
<1>4. PICK b \in 2 .. Batch + 1 : b = 2 + (Batch - Back) /\ Batch - (b - 2) = Back
  BY <1>0
<1>5. ASSUME NEW i \in DOMAIN HashOrder, i <= b PROVE HashOrder[i] \in 0 .. Batch
  <2>1. CASE i = 1
    <3>1. 1 \in 1 .. 1 + (Steps * Batch)
      BY <1>1
    <3>2. HashOrder[1] = 0
      BY <3>1 DEF HashOrder
    <3> QED BY <1>0, <2>1, <3>2
  <2>2. CASE i # 1
    <3>1. i \in 2 .. Batch + 1
      BY <1>0, <1>2, <1>5, <2>2
    <3>2. HashOrder[i] = Batch - (i - 2)
      BY <1>3, <3>1
    <3> QED BY <1>0, <3>1, <3>2
  <2> QED BY <2>1, <2>2
<1>6. DOMAIN HashOrder \subseteq Nat
  BY <1>2
<1> QED BY <1>3, <1>4, <1>5, <1>6

\* The low word of a k with (n - k) * G = priv * G.
IsMirror(priv, key) == \E k \in {N - priv, 2 * N - priv} : key = k % LowWords
\* What the thread with the start point finds.
FindsKey(priv, r) ==
    /\ r.found
    /\ \/ r.side = 0 /\ r.key = priv % LowWords
       \/ r.side = 1 /\ IsMirror(priv, r.key)

\* The thread with the start point finds the key: its hits begin within the
\* first batch, at slot 0 or in Back .. Batch, and each is the key or its mirror.
LEMMA OwnThread ==
    ASSUME NEW priv \in 1 .. N - 1, NEW neg \in BOOLEAN, priv > Back
    PROVE  FindsKey(priv, FirstHit(0, MulG[ScanStart(priv)], ScanStart(priv) % LowWords,
                                   Compressed(MulG[priv]), neg))
<1>0. /\ Back \in Nat /\ Batch \in Nat /\ Batch < N /\ Back < Batch /\ N \in Nat
      /\ Words \in Nat /\ Words > N /\ LowWords \in Nat \ {0}
  BY CallAssumption, PureAssumption, CurveAssumption
<1>1. PICK start \in Nat : start = priv - Back /\ start \in 1 .. N - 1
  BY <1>0
<1>2. ScanStart(priv) = start
  <2>1. start \in 0 .. Words - 1 /\ Words \in Nat \ {0}
    BY <1>0, <1>1
  <2> QED BY <1>1, <2>1, ModSmall DEF ScanStart
<1>3. MulG[start] = Mult(start) /\ start % N # 0 /\ MulG[priv] = Mult(priv)
  BY <1>1, MulGPoint
<1>4. PICK points, target, seed :
        points = WalkPoints(Mult(start)) /\ target = Compressed(Mult(priv)) /\ seed = Mult(start)
  OBVIOUS
<1>5. \A ki \in 0 .. Batch : start + ki \in Nat /\ points[ki] = Aff(Mult(start + ki))
  BY <1>0, <1>1, <1>3, <1>4, FirstBatch
<1>6. 0 \in SidesOf(seed, target, neg, Back)
  <2>1. start + Back = priv /\ Back \in 0 .. Batch
    BY <1>0, <1>1
  <2>2. points[Back] = Aff(Mult(priv))
    BY <1>5, <2>1
  <2>3. points[Back] = Mult(priv)
    BY <2>2, MulGPoint DEF Aff
  <2>4. BothEncodings(points[Back])[0 + 1] = target
    BY <1>4, <2>3 DEF BothEncodings
  <2> QED BY <1>4, <2>4 DEF SidesOf
<1>7. PICK hits, first : hits = HitsOf(seed, target, neg) /\ first = LeastOf(hits)
  OBVIOUS
<1>8. /\ hits # {} /\ first \in hits /\ first \in DOMAIN HashOrder
      /\ SidesOf(seed, target, neg, HashOrder[first]) # {}
      /\ HashOrder[first] \in 0 .. Batch
  <2>1. 2 + (Batch - Back) \in hits /\ hits \subseteq Nat
    BY <1>6, <1>7, HashIs DEF HitsOf
  <2>2. first \in hits /\ first <= 2 + (Batch - Back)
    BY <1>7, <2>1, LeastOfIs
  <2>3. first \in DOMAIN HashOrder /\ SidesOf(seed, target, neg, HashOrder[first]) # {}
    BY <1>7, <2>2 DEF HitsOf
  <2> QED BY <2>1, <2>2, <2>3, HashIs
<1>9. PICK ki \in 0 .. Batch : ki = HashOrder[first]
  BY <1>8
<1>9a. PICK side : side = LeastOf(SidesOf(seed, target, neg, HashOrder[first]))
  OBVIOUS
<1>10. side \in {0, 1} /\ BothEncodings(points[ki])[side + 1] = target
  <2>1. SidesOf(seed, target, neg, ki) \subseteq Nat
    BY DEF SidesOf
  <2>2. side \in SidesOf(seed, target, neg, ki)
    BY <1>8, <1>9, <1>9a, <2>1, LeastOfIs
  <2> QED BY <1>4, <2>2 DEF SidesOf
<1>11. PICK k \in Nat : k = start + ki /\ points[ki] = Aff(Mult(k))
  BY <1>5
<1>12. PICK key : key = ((start % LowWords) + ki) % LowWords
  OBVIOUS
<1>13. key = k % LowWords
  <2>1. start \in Int /\ ki \in Int
    BY <1>0
  <2> QED BY <1>0, <1>11, <1>12, <2>1, ModShift
<1>14. FirstHit(0, MulG[ScanStart(priv)], ScanStart(priv) % LowWords, Compressed(MulG[priv]), neg)
          = Hit(0, key, side)
  BY <1>2, <1>3, <1>4, <1>7, <1>8, <1>9, <1>9a, <1>12, FirstHitIs
<1>15. CASE side = 0
  <2>1. Compressed(Aff(Mult(k))) = Compressed(Mult(priv))
    BY <1>4, <1>10, <1>11, <1>15 DEF BothEncodings
  <2>2. k % N = priv
    BY <2>1, SameKey
  <2>3. priv % N = priv
    BY MulGPoint
  <2>4. k = priv
    <3>1. k \in Int /\ priv \in Int /\ k - priv < N /\ priv - k < N /\ N \in Nat \ {0}
      BY <1>0, <1>1, <1>11
    <3> QED BY <2>2, <2>3, <3>1, ModEqual
  <2> QED BY <1>13, <1>14, <1>15, <2>4 DEF FindsKey, Hit
<1>16. CASE side = 1
  <2>1. <<~FeIsOdd(Aff(Mult(k)).y), Aff(Mult(k)).x>> = Compressed(Mult(priv))
    BY <1>4, <1>10, <1>11, <1>16 DEF BothEncodings
  <2>2. k % N = N - priv
    BY <2>1, MirrorKey
  <2>3. k \in {N - priv, 2 * N - priv}
    <3>1. N > 0 /\ -N <= k /\ k < 2 * N /\ k \in Int
      BY <1>0, <1>1, <1>11
    <3>2. k % N = IF k < 0 THEN k + N ELSE IF k < N THEN k ELSE k - N
      BY <1>0, <3>1, ModNear
    <3> QED BY <1>0, <2>2, <3>2
  <2>4. FindsKey(priv, Hit(0, key, side))
    BY <1>13, <1>16, <2>3 DEF FindsKey, IsMirror, Hit
  <2> QED BY <1>14, <2>4
<1> QED BY <1>10, <1>15, <1>16

\* The keys a window tries, around the end of the words' range too: only the
\* one looked for is congruent to it.
LEMMA WindowKeys ==
    ASSUME NEW priv \in 1 .. N - 1, NEW idx \in 0 .. 2 * Window
    PROVE  LET k == (((priv - Window) % Words) + idx) % Words
           IN /\ k \in 0 .. 2 * N
              /\ idx = Window => k = priv
              /\ k % N = priv => k = priv
<1>0. /\ N \in Nat /\ N > 2 /\ Words \in Nat \ {0} /\ Words > N /\ Words <= 2 * N
      /\ Window \in Nat /\ Words - N > Window /\ Window < N
      /\ priv \in Int /\ idx \in Int /\ N \in Nat \ {0}
  <2>1. N \in Nat /\ N > 2
    BY CurveAssumption
  <2>2. PICK h \in Nat : h = (N - 1) \div 2 /\ h < N
    <3>1. N - 1 \in Nat /\ 2 \in Nat \ {0}
      BY <2>1
    <3>2. (N - 1) \div 2 \in Nat /\ N - 1 = 2 * ((N - 1) \div 2) + ((N - 1) % 2) /\ (N - 1) % 2 \in 0 .. 1
      <4>1. 2 - 1 = 1
        OBVIOUS
      <4> QED BY <3>1, <4>1, DivMod
    <3> QED BY <2>1, <3>2
  <2>3. Window \in 1 .. h
    BY <2>2, PureAssumption
  <2>4. Words \in N + 1 .. 2 * N /\ Words - N > Window
    BY PureAssumption
  <2> QED BY <2>1, <2>2, <2>3, <2>4
<1>1. PICK v \in Int : v = (priv - Window) + idx
  BY <1>0
<1>2. PICK k \in Int : k = (((priv - Window) % Words) + idx) % Words /\ k = v % Words
  <2>1. priv - Window \in Int
    BY <1>0
  <2>2. (((priv - Window) % Words) + idx) % Words = v % Words
    BY <1>0, <1>1, <2>1, ModShift
  <2>3. v % Words \in Int
    BY <1>0, IntDivMod
  <2> QED BY <2>2, <2>3
<1>3. k = IF v < 0 THEN v + Words ELSE IF v < Words THEN v ELSE v - Words
  <2>1. Words \in Nat /\ Words > 0 /\ -Words <= v /\ v < 2 * Words
    BY <1>0, <1>1
  <2> QED BY <1>2, <2>1, ModNear
<1>4. v < Words /\ -Window < v
  BY <1>0, <1>1
<1>5. k \in 0 .. 2 * N
  BY <1>0, <1>3, <1>4
<1>6. ASSUME k % N = priv PROVE k = priv
  <2>1. CASE v < 0
    <3>1. k = v + Words /\ k > N /\ k < 2 * N
      BY <1>0, <1>1, <1>3, <1>4, <2>1
    <3>2. k % N = k - N
      <4>1. N > 0 /\ -N <= k /\ k < 2 * N /\ ~(k < 0) /\ ~(k < N)
        BY <1>0, <3>1
      <4>2. k % N = IF k < 0 THEN k + N ELSE IF k < N THEN k ELSE k - N
        BY <1>0, <4>1, ModNear
      <4> QED BY <4>1, <4>2
    <3>3. v + Words = priv + N
      BY <1>0, <1>6, <3>1, <3>2
    <3>4. (idx - Window) + Words = N
      BY <1>0, <1>1, <3>3
    <3>5. idx - Window >= -Window
      BY <1>0
    <3> QED BY <1>0, <3>4, <3>5
  <2>2. CASE ~(v < 0)
    <3>1. k = v
      BY <1>3, <1>4, <2>2
    <3>2. k - priv < N /\ priv - k < N
      BY <1>0, <1>1, <3>1
    <3>3. priv % N = priv
      BY MulGPoint
    <3> QED BY <1>0, <1>6, <3>2, <3>3, ModEqual
  <2> QED BY <2>1, <2>2
<1>7. idx = Window => k = priv
  BY <1>0, <1>1, <1>3
<1> QED BY <1>2, <1>5, <1>6, <1>7

\* The reference scan tries the key, and no other that matches.
LEMMA RefScanFinds ==
    ASSUME RefScanCall
    PROVE  \E priv \in 1 .. N - 1 :
              call' = [op |-> "ref_scan", priv |-> priv] /\ out' = Judged(Hit(0, priv, 0), priv)
<1>1. PICK priv \in 1 .. N - 1 :
        LET base == (priv - Window) % Words
            tried == {(base + idx) % Words : idx \in 0 .. 2 * Window}
            hits == {k \in tried : Compressed(MulG[k]) = Compressed(MulG[priv])}
        IN /\ call' = [op |-> "ref_scan", priv |-> priv]
           /\ \E hit \in IF hits = {} THEN {NotFound} ELSE {Hit(0, k, 0) : k \in hits} :
                out' = Judged(hit, priv)
  BY DEF RefScanCall
<1>2. PICK tried, hits :
        /\ tried = {(((priv - Window) % Words) + idx) % Words : idx \in 0 .. 2 * Window}
        /\ hits = {k \in tried : Compressed(MulG[k]) = Compressed(MulG[priv])}
  OBVIOUS
<1>3. priv \in tried
  <2>1. Window \in 0 .. 2 * Window
    BY PureAssumption, ModN
  <2> QED BY <1>2, <2>1, WindowKeys
<1>4. ASSUME NEW k \in hits PROVE k = priv
  <2>1. k \in tried /\ Compressed(MulG[k]) = Compressed(MulG[priv])
    BY <1>2
  <2>2. k \in 0 .. 2 * N /\ (k % N = priv => k = priv)
    BY <1>2, <2>1, WindowKeys
  <2>3. MulG[k] = Aff(Mult(k)) /\ k \in Nat /\ MulG[priv] = Mult(priv)
    BY <2>2, MulGIs, MulGPoint
  <2>4. k % N = priv
    BY <2>1, <2>3, SameKey
  <2> QED BY <2>2, <2>4
<1>5. hits = {priv}
  BY <1>2, <1>3, <1>4
<1>6. PICK hit \in IF hits = {} THEN {NotFound} ELSE {Hit(0, k, 0) : k \in hits} :
        out' = Judged(hit, priv)
  BY <1>1, <1>2
<1>7. hit = Hit(0, priv, 0)
  BY <1>5, <1>6
<1> QED BY <1>1, <1>6, <1>7

\* A report of a stray thread names its lane.
LEMMA OtherThread ==
    ASSUME NEW seed, NEW low, NEW target, NEW neg, FirstHit(1, seed, low, target, neg).found
    PROVE  FirstHit(1, seed, low, target, neg).lane = 1
<1>1. ~NotFound.found
  BY DEF NotFound
<1>2. PICK r : r = FirstHit(1, seed, low, target, neg)
  OBVIOUS
<1>3. PICK k, side : r = NotFound \/ r = Hit(1, k, side)
  BY <1>2, FirstHitIs, Zenon
<1>4. r = Hit(1, k, side)
  BY <1>1, <1>2, <1>3
<1> QED BY <1>2, <1>4 DEF Hit

\* What a scan of a key above BACK reports: what its own thread finds, or a
\* stray one.
LEMMA ScanReports ==
    ASSUME ScanCall, call'.priv > Back
    PROVE  \E hit : /\ out' = Judged(hit, call'.priv % LowWords)
                    /\ hit.found
                    /\ FindsKey(call'.priv, hit) \/ hit.lane = 1
<1>1. PICK priv \in 1 .. N - 1, neg \in BOOLEAN :
        LET target == Compressed(MulG[priv])
            own == FirstHit(0, MulG[ScanStart(priv)], ScanStart(priv) % LowWords, target, neg)
        IN \E stray \in Strays, low \in StrayLows :
            LET other == FirstHit(1, stray, low, target, neg)
            IN /\ call' = [op |-> "scan", priv |-> priv, neg |-> neg]
               /\ \E hit \in IF own.found \/ other.found THEN {r \in {own, other} : r.found}
                                                         ELSE {NotFound} :
                    out' = Judged(hit, priv % LowWords)
  BY DEF ScanCall
<1>2. PICK own :
        own = FirstHit(0, MulG[ScanStart(priv)], ScanStart(priv) % LowWords,
                       Compressed(MulG[priv]), neg)
  OBVIOUS
<1>3. PICK stray \in Strays, low \in StrayLows :
        LET other == FirstHit(1, stray, low, Compressed(MulG[priv]), neg)
        IN /\ call' = [op |-> "scan", priv |-> priv, neg |-> neg]
           /\ \E hit \in IF own.found \/ other.found THEN {r \in {own, other} : r.found}
                                                     ELSE {NotFound} :
                out' = Judged(hit, priv % LowWords)
  BY <1>1, <1>2
<1>4. PICK other : other = FirstHit(1, stray, low, Compressed(MulG[priv]), neg)
  OBVIOUS
<1>5. PICK hit \in IF own.found \/ other.found THEN {r \in {own, other} : r.found}
                                               ELSE {NotFound} :
        out' = Judged(hit, priv % LowWords)
  BY <1>3, <1>4
<1>6. call'.priv = priv /\ priv > Back
  BY <1>3
<1>7. FindsKey(priv, own)
  BY <1>2, <1>6, OwnThread
<1>8. own.found
  BY <1>7 DEF FindsKey
<1>9. hit \in {own, other} /\ hit.found
  BY <1>5, <1>8
<1>10. hit = own \/ hit.lane = 1
  BY <1>4, <1>9, OtherThread
<1> QED BY <1>5, <1>6, <1>7, <1>9, <1>10

\* The verdict on such a report.
LEMMA ScanVerdict ==
    ASSUME NEW priv, NEW want, want = priv % LowWords,
           NEW hit, hit.found, FindsKey(priv, hit) \/ hit.lane = 1,
           NEW o, o = Judged(hit, want)
    PROVE  /\ o.verdict # "NOT FOUND"
           /\ o.verdict = "FOUND-BUT-MISMATCH" =>
                 o.hit.lane # 0 \/ (o.hit.side = 1 /\ IsMirror(priv, o.hit.key))
<1>1. o.hit = hit /\ o.verdict = Verdict(hit, want)
  BY DEF Judged
<1>2. o.verdict = IF hit.key = want THEN "FOUND" ELSE "FOUND-BUT-MISMATCH"
  BY <1>1 DEF Verdict
<1>3. o.verdict # "NOT FOUND"
  BY <1>2
<1>4. ASSUME o.verdict = "FOUND-BUT-MISMATCH"
      PROVE  hit.lane # 0 \/ (hit.side = 1 /\ IsMirror(priv, hit.key))
  <2>1. hit.key # want
    BY <1>2, <1>4
  <2> QED BY <2>1 DEF FindsKey
<1> QED BY <1>1, <1>3, <1>4

\* ScanFindsKey, for every batch, window and memory behind the start point: the
\* reference scan finds every key; the fast scan of a key above BACK always
\* reports something, and what it reports is the key, or its own thread's
\* mirror of it, or a stray thread's find.
THEOREM ScansFindKey == PureSpec => []ScanFindsKey
<1>1. Init => ScanFindsKey
  BY DEF Init, ScanFindsKey
<1>2. ScanFindsKey /\ [PureNext]_vars => ScanFindsKey'
  <2> SUFFICES ASSUME ScanFindsKey, [PureNext]_vars PROVE ScanFindsKey'
    OBVIOUS
  <2>1. CASE UNCHANGED vars
    BY <2>1 DEF vars, ScanFindsKey
  <2>2. CASE vars' # vars
    <3>1. ASSUME call'.op = "ref_scan" PROVE out' = Judged(Hit(0, call'.priv, 0), call'.priv)
      <4>1. RefScanCall
        BY <2>2, <3>1, WhichCall
      <4>2. PICK priv \in 1 .. N - 1 :
              call' = [op |-> "ref_scan", priv |-> priv] /\ out' = Judged(Hit(0, priv, 0), priv)
        BY <4>1, RefScanFinds
      <4> QED BY <4>2
    <3>2. ASSUME call'.op = "scan", call'.priv > Back
          PROVE  /\ out'.verdict # "NOT FOUND"
                 /\ out'.verdict = "FOUND-BUT-MISMATCH" =>
                      \/ out'.hit.lane # 0
                      \/ /\ out'.hit.side = 1
                         /\ \E k \in {N - call'.priv, 2 * N - call'.priv} :
                                out'.hit.key = k % LowWords
      <4>1. ScanCall
        BY <2>2, <3>2, WhichCall
      <4>2. PICK priv : priv = call'.priv
        OBVIOUS
      <4>3. PICK hit : /\ out' = Judged(hit, priv % LowWords)
                       /\ hit.found
                       /\ FindsKey(priv, hit) \/ hit.lane = 1
        BY <3>2, <4>1, <4>2, ScanReports
      <4>4. PICK o : o = out'
        OBVIOUS
      <4>5. PICK want : want = priv % LowWords
        OBVIOUS
      <4>6. /\ o.verdict # "NOT FOUND"
            /\ o.verdict = "FOUND-BUT-MISMATCH" =>
                  o.hit.lane # 0 \/ (o.hit.side = 1 /\ IsMirror(priv, o.hit.key))
        BY <4>3, <4>4, <4>5, ScanVerdict
      <4>7. IsMirror(priv, o.hit.key) =>
              \E k \in {N - call'.priv, 2 * N - call'.priv} : out'.hit.key = k % LowWords
        BY <4>2, <4>4 DEF IsMirror
      <4> QED BY <4>4, <4>6, <4>7
    <3> QED BY <3>1, <3>2 DEF ScanFindsKey
  <2> QED BY <2>1, <2>2 DEF vars
<1> QED BY <1>1, <1>2, PTL DEF PureSpec

-----------------------------------------------------------------------------
(* Fractions, and the powers of two that stand for exp.                    *)

Positive == Nat \ {0}

IsTwoTo(f) == f = [n \in Nat |-> IF n = 0 THEN 1 ELSE 2 * f[n - 1]]

\* TwoTo is what its recursion says.
LEMMA TwoToIs ==
    /\ TwoTo[0] = 1
    /\ \A n \in Nat : TwoTo[n] \in Positive /\ TwoTo[n + 1] = 2 * TwoTo[n]
<1> DEFINE g == [v \in Nat \X Positive |-> 2 * v[2]]
<1>1. g \in [Nat \X Positive -> Positive] /\ 1 \in Positive
  BY DEF Positive
<1>2. PICK r : IsRecursive(r, Positive, 1, g)
  <2> HIDE DEF g
  <2> QED BY <1>1, Recursion
<1>3. \A n \in Nat : r[n] \in Positive /\ r[n + 1] = 2 * r[n]
  <2> SUFFICES ASSUME NEW n \in Nat PROVE r[n] \in Positive /\ r[n + 1] = 2 * r[n]
    OBVIOUS
  <2>1. r[n] \in Positive
    BY <1>2 DEF IsRecursive
  <2>2. r[n + 1] = g[<<n, r[n]>>]
    BY <1>2 DEF IsRecursive
  <2> QED BY <2>1, <2>2
<1>4. r[0] = 1 /\ r \in [Nat -> Positive]
  BY <1>2 DEF IsRecursive
<1>5. IsTwoTo(r)
  <2>1. ASSUME NEW n \in Nat PROVE r[n] = IF n = 0 THEN 1 ELSE 2 * r[n - 1]
    <3>1. CASE n = 0
      BY <1>4, <3>1
    <3>2. CASE n # 0
      <4>1. n - 1 \in Nat /\ (n - 1) + 1 = n
        BY <3>2
      <4>2. r[(n - 1) + 1] = 2 * r[n - 1]
        BY <1>3, <4>1
      <4> QED BY <3>2, <4>1, <4>2
    <3> QED BY <3>1, <3>2
  <2>2. r = [n \in Nat |-> IF n = 0 THEN 1 ELSE 2 * r[n - 1]]
    BY <1>4, <2>1
  <2> QED BY <2>2 DEF IsTwoTo
<1>6. TwoTo = CHOOSE f : IsTwoTo(f)
  BY DEF TwoTo, IsTwoTo
<1>7. IsTwoTo(TwoTo)
  BY <1>5, <1>6
<1>8. PICK t : t = TwoTo
  OBVIOUS
<1>9. t = [n \in Nat |-> IF n = 0 THEN 1 ELSE 2 * t[n - 1]]
  BY <1>7, <1>8 DEF IsTwoTo
<1>10. \A n \in Nat : t[n] = IF n = 0 THEN 1 ELSE 2 * t[n - 1]
  BY <1>9, Zenon
<1>11. t[0] = 1
  BY <1>10
<1>12. \A n \in Nat : t[n + 1] = 2 * t[n]
  <2> SUFFICES ASSUME NEW n \in Nat PROVE t[n + 1] = 2 * t[n]
    OBVIOUS
  <2>1. n + 1 \in Nat /\ n + 1 # 0 /\ (n + 1) - 1 = n
    OBVIOUS
  <2> QED BY <1>10, <2>1
<1> DEFINE T == {n \in Nat : t[n] \in Positive}
<1>13. Nat \subseteq T
  <2>1. 0 \in T
    BY <1>1, <1>11
  <2>2. ASSUME NEW n \in Nat, n \in T PROVE n + 1 \in T
    BY <1>12, <2>2 DEF Positive
  <2> HIDE DEF T
  <2> QED BY <2>1, <2>2, Induction
<1> QED BY <1>8, <1>11, <1>12, <1>13

\* And it grows.
LEMMA TwoToGrows ==
    ASSUME NEW m \in Nat, NEW n \in Nat, m <= n
    PROVE  TwoTo[m] <= TwoTo[n] /\ (m < n => TwoTo[m] < TwoTo[n])
<1> DEFINE T == {d \in Nat : /\ TwoTo[m] <= TwoTo[m + d]
                             /\ d # 0 => TwoTo[m] < TwoTo[m + d]}
<1>1. 0 \in T
  <2>1. m + 0 = m /\ TwoTo[m] \in Nat
    BY TwoToIs DEF Positive
  <2> QED BY <2>1
<1>2. ASSUME NEW d \in Nat, d \in T PROVE d + 1 \in T
  <2>1. PICK k \in Nat : k = m + d /\ k + 1 = m + (d + 1)
    OBVIOUS
  <2>2. PICK a, b, c \in Positive : a = TwoTo[m] /\ b = TwoTo[k] /\ c = TwoTo[k + 1]
    BY TwoToIs
  <2>3. a <= b /\ c = 2 * b
    BY <1>2, <2>1, <2>2, TwoToIs
  <2>4. a < c
    BY <2>2, <2>3 DEF Positive
  <2> QED BY <2>1, <2>2, <2>4 DEF Positive
<1>3. Nat \subseteq T
  <2> HIDE DEF T
  <2> QED BY <1>1, <1>2, Induction
<1>4. PICK d \in Nat : d = n - m /\ m + d = n
  OBVIOUS
<1> QED BY <1>3, <1>4

\* Products of positive numbers grow with their factors.
LEMMA ProductGrows ==
    ASSUME NEW a \in Positive, NEW b \in Positive, NEW c \in Positive, NEW d \in Positive,
           a <= b, c <= d
    PROVE  /\ a * c <= b * d /\ a * c \in Positive /\ b * d \in Positive
           /\ a < b \/ c < d => a * c < b * d
<1>0. a \in Nat /\ b \in Nat /\ c \in Nat /\ d \in Nat /\ a > 0 /\ b > 0 /\ c > 0 /\ d > 0
  BY DEF Positive
<1>1. PICK e, f \in Nat : b = a + e /\ d = c + f
  <2>1. b - a \in Nat /\ d - c \in Nat /\ b = a + (b - a) /\ d = c + (d - c)
    BY <1>0
  <2> QED BY <2>1
<1>2. PICK ac, ed, af \in Nat : ac = a * c /\ ed = e * d /\ af = a * f
  BY <1>0
<1>3. b * d = ac + af + ed
  <2>1. (a + e) * d = (a * d) + ed
    BY <1>0, <1>2
  <2>2. a * (c + f) = ac + af
    BY <1>0, <1>2
  <2> QED BY <1>0, <1>1, <1>2, <2>1, <2>2
<1>4. ac > 0
  BY <1>0, <1>2
<1>5. e > 0 => ed > 0
  BY <1>0, <1>2
<1>6. f > 0 => af > 0
  BY <1>0, <1>2
<1>7. PICK bd \in Nat : bd = b * d
  BY <1>0
<1>8. bd = ac + af + ed
  BY <1>3, <1>7
<1>9. ac <= bd /\ (a < b \/ c < d => ac < bd)
  BY <1>0, <1>1, <1>2, <1>4, <1>5, <1>6, <1>7, <1>8
<1> QED BY <1>2, <1>4, <1>7, <1>9 DEF Positive

Fractions == Nat \X Positive

\* Fractions are ordered.
LEMMA LessOrder ==
    ASSUME NEW u \in Fractions, NEW v \in Fractions, NEW w \in Fractions
    PROVE  /\ Less(u, v) => ~Less(v, u)
           /\ ~Less(u, v) /\ ~Less(v, w) => ~Less(u, w)
<1>1. PICK a, c, e \in Nat, b, d, f \in Positive :
        a = u[1] /\ b = u[2] /\ c = v[1] /\ d = v[2] /\ e = w[1] /\ f = w[2]
  BY DEF Fractions
<1>2. b \in Nat /\ d \in Nat /\ f \in Nat /\ b > 0 /\ d > 0 /\ f > 0
  BY DEF Positive
<1>3. Less(u, v) => ~Less(v, u)
  <2>1. PICK x, y \in Nat : x = a * d /\ y = c * b
    BY <1>2
  <2> QED BY <1>1, <2>1 DEF Less
<1>4. ASSUME ~Less(u, v), ~Less(v, w) PROVE ~Less(u, w)
  <2>1. PICK ad, cb, cf, ed, af, eb \in Nat :
          ad = a * d /\ cb = c * b /\ cf = c * f /\ ed = e * d /\ af = a * f /\ eb = e * b
    BY <1>2
  <2>2. cb <= ad /\ ed <= cf
    BY <1>1, <1>4, <2>1 DEF Less
  <2>3. cb * f <= ad * f /\ ed * b <= cf * b
    BY <1>2, <2>1, <2>2, TimesLeq
  <2>4. cb * f = cf * b
    BY <1>2, <2>1
  <2>5. ed * b = d * eb /\ ad * f = d * af
    BY <1>2, <2>1
  <2>6. d * eb <= d * af
    <3>1. PICK x, y, z \in Nat : x = d * eb /\ y = d * af /\ z = cb * f
      BY <1>2, <2>1
    <3> QED BY <2>3, <2>4, <2>5, <3>1
  <2>7. eb <= af
    <3> SUFFICES ASSUME af < eb PROVE FALSE
      BY <2>1
    <3>1. PICK t \in Nat : t > 0 /\ eb = af + t
      <4>1. eb - af \in Nat /\ eb - af > 0 /\ eb = af + (eb - af)
        BY <2>1
      <4> QED BY <4>1
    <3>2. d * eb = (d * af) + (d * t)
      BY <1>2, <3>1
    <3>3. PICK x, y \in Nat : x = d * af /\ y = d * t /\ y > 0
      BY <1>2, <3>1
    <3> QED BY <2>6, <3>2, <3>3
  <2> QED BY <1>1, <2>1, <2>7 DEF Less
<1> QED BY <1>3, <1>4

-----------------------------------------------------------------------------
(* The best candidate.                                                     *)

\* c comes before d in the ranking.
Before(c, d) == ~Less(c[2], d[2]) /\ (Less(d[2], c[2]) \/ c[1] <= d[1])
Ranked == Nat \X Fractions

\* The ranking is total and transitive.
LEMMA BeforeOrder ==
    ASSUME NEW c \in Ranked, NEW d \in Ranked, NEW e \in Ranked
    PROVE  /\ Before(c, c)
           /\ Before(c, d) \/ Before(d, c)
           /\ Before(c, d) /\ Before(d, e) => Before(c, e)
<1>1. PICK x, y, z \in Nat, u, v, w \in Fractions :
        x = c[1] /\ y = d[1] /\ z = e[1] /\ u = c[2] /\ v = d[2] /\ w = e[2]
  BY DEF Ranked
<1>2. /\ Less(u, v) => ~Less(v, u)
      /\ Less(u, u) => ~Less(u, u)
      /\ ~Less(u, v) /\ ~Less(v, w) => ~Less(u, w)
      /\ ~Less(w, u) /\ ~Less(u, v) => ~Less(w, v)
      /\ ~Less(v, w) /\ ~Less(w, u) => ~Less(v, u)
  BY LessOrder
<1>3. x <= x /\ (x <= y \/ y <= x) /\ (x <= y /\ y <= z => x <= z)
  OBVIOUS
<1> QED BY <1>1, <1>2, <1>3 DEF Before

\* A set of candidates with different names has a best one, and Best picks it.
LEMMA BestIs ==
    ASSUME NEW S, S \subseteq Ranked, S # {}, NEW b \in Nat, \A c \in S : c[1] <= b,
           \A c, d \in S : c[1] = d[1] => c = d
    PROVE  Best(S) \in S /\ \A d \in S : ~Less(Best(S)[2], d[2])
<1> DEFINE Upto(n) == {c \in S : c[1] <= n}
           Has(n) == \E c \in Upto(n) : \A d \in Upto(n) : Before(c, d)
           T == {n \in Nat : Upto(n) # {} => Has(n)}
<1>0. \A c \in S : c[1] \in Nat /\ c \in Ranked
  BY DEF Ranked
<1>1. 0 \in T
  <2> SUFFICES ASSUME NEW c \in Upto(0) PROVE Has(0)
    OBVIOUS
  <2>1. c[1] = 0 /\ c \in S
    BY <1>0
  <2>2. ASSUME NEW d \in Upto(0) PROVE Before(c, d)
    <3>1. d[1] = 0 /\ d \in S
      BY <1>0
    <3>2. d = c
      BY <2>1, <3>1
    <3> QED BY <1>0, <2>1, <3>2, BeforeOrder
  <2> QED BY <2>2
<1>2. ASSUME NEW n \in Nat, n \in T, Upto(n + 1) # {}
      PROVE  Has(n + 1)
  <2>1. CASE \E c \in S : c[1] = n + 1
    <3>1. PICK c \in S : c[1] = n + 1
      BY <2>1
    <3>2. \A d \in Upto(n + 1) : d = c \/ d \in Upto(n)
      <4> SUFFICES ASSUME NEW d \in Upto(n + 1), d # c PROVE d \in Upto(n)
        OBVIOUS
      <4>1. d \in S /\ d[1] <= n + 1 /\ d[1] \in Nat
        BY <1>0
      <4>2. d[1] # n + 1
        BY <3>1, <4>1
      <4> QED BY <4>1, <4>2
    <3>3. c \in Upto(n + 1) /\ Before(c, c)
      BY <1>0, <3>1, BeforeOrder
    <3>4. CASE Upto(n) = {}
      BY <3>2, <3>3, <3>4
    <3>5. CASE Upto(n) # {}
      <4>1. PICK a \in Upto(n) : \A d \in Upto(n) : Before(a, d)
        BY <1>2, <3>5
      <4>2. a \in Upto(n + 1) /\ a \in Ranked /\ c \in Ranked
        BY <1>0, <3>1
      <4>3. CASE Before(a, c)
        BY <3>2, <4>1, <4>2, <4>3
      <4>4. CASE Before(c, a)
        <5>1. \A d \in Upto(n) : d \in Ranked /\ Before(c, d)
          BY <1>0, <4>1, <4>2, <4>4, BeforeOrder
        <5> QED BY <3>2, <3>3, <5>1
      <4> QED BY <4>2, <4>3, <4>4, BeforeOrder
    <3> QED BY <3>4, <3>5
  <2>2. CASE ~\E c \in S : c[1] = n + 1
    <3>1. Upto(n + 1) = Upto(n)
      BY <1>0, <2>2
    <3> QED BY <1>2, <3>1
  <2> QED BY <2>1, <2>2
<1>3. Nat \subseteq T
  <2>1. ASSUME NEW n \in Nat, n \in T PROVE n + 1 \in T
    BY <1>2, <2>1
  <2> HIDE DEF T
  <2> QED BY <1>1, <2>1, Induction
<1>4. Upto(b) = S
  OBVIOUS
<1>5. \E c \in S : \A d \in S : Before(c, d)
  <2> HIDE DEF Upto
  <2> QED BY <1>3, <1>4
<1>6. Best(S) = CHOOSE c \in S : \A d \in S : Before(c, d)
  BY DEF Best, Before
<1>7. Best(S) \in S /\ \A d \in S : Before(Best(S), d)
  BY <1>5, <1>6
<1> QED BY <1>7 DEF Before

-----------------------------------------------------------------------------
(* The arms and their indices.                                             *)

BruteArm == [name : Nat, range_size : Nat, prize : Nat, contention : Nat, hazard : Nat,
             sweep_rate : {1}]
KangarooArm == [name : Nat, interval_bits : {0, 2}, prize : {1}, contention : Nat,
                alpha : Positive, beta : Positive, dp_yield : {1}]

\* The arms that the calls enumerate.
LEMMA BruteTyped ==
    ASSUME NEW name \in Nat, NEW arm \in BruteArms(name)
    PROVE  arm \in BruteArm /\ arm.name = name
BY PureAssumption DEF BruteArms, BruteArm

\* The same of the kangaroo arms, updated or not.
LEMMA KangarooTyped ==
    ASSUME NEW name \in Nat, NEW arm \in KangarooArms(name)
    PROVE  arm \in KangarooArm /\ arm.name = name
<1>1. ASSUME NEW bits \in {0, 2}, NEW x \in Intensities
      PROVE  /\ NewKangaroo(name, bits, x) \in KangarooArm
             /\ NewKangaroo(name, bits, x).name = name
             /\ \A r \in DPRates : /\ Update(NewKangaroo(name, bits, x), r) \in KangarooArm
                                   /\ Update(NewKangaroo(name, bits, x), r).name = name
  <2>1. x \in Nat /\ DPRates \subseteq Nat
    BY PureAssumption
  <2>2. PICK k : k = NewKangaroo(name, bits, x)
    OBVIOUS
  <2>3. k \in KangarooArm /\ k.name = name
    BY <2>1, <2>2 DEF NewKangaroo, KangarooArm, Positive
  <2>4. ASSUME NEW r \in DPRates PROVE Update(k, r) \in KangarooArm /\ Update(k, r).name = name
    <3>1. r \in Nat /\ k.alpha + r \in Positive /\ k.beta + 1 \in Positive
      BY <2>1, <2>3 DEF KangarooArm, Positive
    <3> QED BY <2>3, <3>1 DEF Update, KangarooArm
  <2> QED BY <2>2, <2>3, <2>4
<1> DEFINE fresh == {NewKangaroo(name, bits, x) : bits \in {0, 2}, x \in Intensities}
<1>3. \/ arm \in fresh
      \/ \E a \in fresh, r \in DPRates : arm = Update(a, r)
  BY DEF KangarooArms
<1>4. \A a \in fresh : /\ a \in KangarooArm /\ a.name = name
                       /\ \A r \in DPRates : Update(a, r) \in KangarooArm /\ Update(a, r).name = name
  <2> SUFFICES ASSUME NEW a \in fresh
               PROVE  /\ a \in KangarooArm /\ a.name = name
                      /\ \A r \in DPRates : Update(a, r) \in KangarooArm /\ Update(a, r).name = name
    OBVIOUS
  <2>1. PICK bits \in {0, 2}, x \in Intensities : a = NewKangaroo(name, bits, x)
    OBVIOUS
  <2> QED BY <1>1, <2>1
<1> HIDE DEF fresh
<1> QED BY <1>3, <1>4

\* The index of a brute-force arm.
LEMMA BruteIndexIs ==
    ASSUME NEW arm \in BruteArm, arm.range_size # 0
    PROVE  /\ BruteIndex(arm) = <<arm.prize, arm.range_size * TwoTo[arm.contention]>>
           /\ BruteIndex(arm) \in Fractions
<1>1. /\ arm.prize \in Nat /\ arm.range_size \in Positive /\ arm.contention \in Nat
      /\ TwoTo[arm.contention] \in Positive
  BY TwoToIs DEF BruteArm, Positive
<1>2. PICK p \in Nat, s, t \in Positive :
        p = arm.prize /\ s = arm.range_size /\ t = TwoTo[arm.contention]
  BY <1>1
<1>3. p * 1 = p /\ s * t \in Positive
  BY DEF Positive
<1>4. BruteIndex(arm) = <<p * 1, s * t>>
  BY <1>2 DEF BruteIndex, Times, Shrinkage, Exp
<1> QED BY <1>2, <1>3, <1>4 DEF Fractions

\* An arm at least as good as another, and better in one respect, has the
\* higher index when there is a prize.
LEMMA BetterBruteHigher ==
    ASSUME NEW x \in BruteArm, NEW c \in BruteArm, x.range_size # 0, c.range_size # 0,
           c.prize > 0, BetterBrute(x, c)
    PROVE  Less(BruteIndex(c), BruteIndex(x))
<1>1. /\ x.prize \in Positive /\ c.prize \in Positive /\ c.prize <= x.prize
      /\ x.range_size \in Positive /\ c.range_size \in Positive /\ x.range_size <= c.range_size
      /\ x.contention \in Nat /\ c.contention \in Nat /\ x.contention <= c.contention
      /\ x.range_size < c.range_size \/ x.contention < c.contention \/ x.prize > c.prize
  BY DEF BetterBrute, BruteArm, Positive
<1>2. PICK px, pc, rx, rc, tx, tc \in Positive :
        /\ px = x.prize /\ pc = c.prize /\ rx = x.range_size /\ rc = c.range_size
        /\ tx = TwoTo[x.contention] /\ tc = TwoTo[c.contention]
  BY <1>1, TwoToIs
<1>3. tx <= tc /\ (x.contention < c.contention => tx < tc)
  BY <1>1, <1>2, TwoToGrows
<1>4. PICK dx, dc : dx = rx * tx /\ dc = rc * tc
  OBVIOUS
<1>5. /\ dx \in Positive /\ dc \in Positive /\ dx <= dc
      /\ rx < rc \/ tx < tc => dx < dc
  BY <1>1, <1>2, <1>3, <1>4, ProductGrows
<1>6. pc * dx < px * dc
  <2>1. pc < px \/ dx < dc
    BY <1>1, <1>2, <1>3, <1>5
  <2> QED BY <1>1, <1>2, <1>5, <2>1, ProductGrows
<1>7. BruteIndex(x) = <<px, dx>> /\ BruteIndex(c) = <<pc, dc>>
  BY <1>2, <1>4, BruteIndexIs
<1> QED BY <1>6, <1>7 DEF Less

\* And stop-loss leaves it when it leaves the other.
LEMMA BetterBruteSurvives ==
    ASSUME NEW x \in BruteArm, NEW c \in BruteArm, x.range_size # 0, c.range_size # 0,
           BetterBrute(x, c), NEW cost \in Nat, Losing(x, 1, cost)
    PROVE  Losing(c, 1, cost)
<1>1. /\ x.prize \in Nat /\ c.prize \in Nat /\ c.prize <= x.prize
      /\ x.range_size \in Positive /\ c.range_size \in Positive /\ x.range_size <= c.range_size
      /\ x.hazard \in Nat /\ c.hazard \in Nat /\ x.hazard <= c.hazard
      /\ x.sweep_rate = 1 /\ c.sweep_rate = 1
  BY DEF BetterBrute, BruteArm, Positive
<1>2. PICK px, pc \in Nat, rx, rc, tx, tc \in Positive :
        /\ px = x.prize /\ pc = c.prize /\ rx = x.range_size /\ rc = c.range_size
        /\ tx = TwoTo[x.hazard] /\ tc = TwoTo[c.hazard]
  BY <1>1, TwoToIs
<1>3. tx <= tc
  BY <1>1, <1>2, TwoToGrows
<1>4. x.hazard * 1 = x.hazard /\ c.hazard * 1 = c.hazard /\ cost * 1 = cost
  BY <1>1
<1>5. PSolve(x, 1) = <<1, rx>> /\ PSolve(c, 1) = <<1, rc>>
  <2>1. 1 * 1 = 1
    OBVIOUS
  <2>2. rx \in Nat /\ rx > 0 /\ rc \in Nat /\ rc > 0
    BY DEF Positive
  <2> QED BY <1>1, <1>2, <2>1, <2>2 DEF PSolve
<1>6. PICK dx, dc : dx = rx * tx /\ dc = rc * tc
  OBVIOUS
<1>7. dx \in Positive /\ dc \in Positive /\ dx <= dc
  BY <1>1, <1>2, <1>3, <1>6, ProductGrows
<1>8. /\ Losing(x, 1, cost) <=> px < cost * dx
      /\ Losing(c, 1, cost) <=> pc < cost * dc
  <2>1. \A arm, p, r, t : arm.prize = p /\ PSolve(arm, 1) = <<1, r>> /\ Exp(arm.hazard * 1) = <<1, t>> =>
          (Losing(arm, 1, cost) <=> ((1 * p) * 1) * 1 < (cost * 1) * ((r * 1) * t))
    BY DEF Losing, Less, Times
  <2>2. Exp(x.hazard * 1) = <<1, tx>> /\ Exp(c.hazard * 1) = <<1, tc>>
    BY <1>2, <1>4 DEF Exp
  <2>3. /\ Losing(x, 1, cost) <=> ((1 * px) * 1) * 1 < (cost * 1) * ((rx * 1) * tx)
        /\ Losing(c, 1, cost) <=> ((1 * pc) * 1) * 1 < (cost * 1) * ((rc * 1) * tc)
    BY <1>2, <1>5, <2>1, <2>2
  <2>4. ((1 * px) * 1) * 1 = px /\ ((1 * pc) * 1) * 1 = pc /\ rx * 1 = rx /\ rc * 1 = rc
    BY DEF Positive
  <2> QED BY <1>4, <1>6, <2>3, <2>4
<1>9. cost * dx <= cost * dc
  <2>1. dx \in Nat /\ dc \in Nat
    BY <1>7 DEF Positive
  <2>2. dx * cost <= dc * cost
    BY <1>7, <2>1, TimesLeq
  <2> QED BY <2>1, <2>2, Commute
<1>10. PICK u, v \in Nat : u = cost * dx /\ v = cost * dc
  BY <1>7 DEF Positive
<1> QED BY <1>1, <1>2, <1>8, <1>9, <1>10

\* The index of a kangaroo arm.
LEMMA KangarooIndexIs ==
    ASSUME NEW arm \in KangarooArm
    PROVE  /\ GittinsIndex(arm) = <<10 * arm.alpha,
                TwoTo[arm.contention] * ((17 * TwoTo[arm.interval_bits \div 2]) * arm.beta)>>
           /\ GittinsIndex(arm) \in Fractions /\ 10 * arm.alpha > 0
<1>1. /\ arm.alpha \in Positive /\ arm.beta \in Positive /\ arm.contention \in Nat
      /\ arm.interval_bits \in {0, 2} /\ arm.prize = 1 /\ arm.dp_yield = 1
  BY DEF KangarooArm
<1>2. arm.interval_bits \div 2 \in Nat
  BY <1>1
<1>3. PICK a, b, t, h \in Positive :
        /\ a = arm.alpha /\ b = arm.beta /\ t = TwoTo[arm.contention]
        /\ h = TwoTo[arm.interval_bits \div 2]
  BY <1>1, <1>2, TwoToIs
<1>4. Rate(arm) = <<a * 1, b>> /\ a * 1 = a /\ a > 0
  BY <1>1, <1>3 DEF Rate, Positive
<1>5. Times(<<arm.prize, 1>>, Shrinkage(arm.contention)) = <<1 * 1, 1 * t>>
  BY <1>1, <1>3 DEF Times, Shrinkage, Exp
<1>6. Over(GroupOps(arm), Rate(arm)) = <<(17 * h) * b, 10 * a>>
  BY <1>3, <1>4 DEF Over, GroupOps
<1>7. GittinsIndex(arm) = <<(1 * 1) * (10 * a), (1 * t) * ((17 * h) * b)>>
  <2>1. PICK u, v : u = Times(<<arm.prize, 1>>, Shrinkage(arm.contention))
                    /\ v = Over(GroupOps(arm), Rate(arm))
    OBVIOUS
  <2>2. ~(Rate(arm)[1] <= 0)
    BY <1>4 DEF Positive
  <2>3. GittinsIndex(arm) = Over(u, v)
    BY <2>1, <2>2 DEF GittinsIndex
  <2>4. u = <<1 * 1, 1 * t>> /\ v = <<(17 * h) * b, 10 * a>>
    BY <1>5, <1>6, <2>1
  <2> QED BY <2>3, <2>4 DEF Over
<1>8. 17 * h \in Positive /\ 10 * a \in Positive
  BY DEF Positive
<1>9. (17 * h) * b \in Positive
  BY <1>8 DEF Positive
<1>10. PICK e, f \in Positive : e = 10 * a /\ f = (17 * h) * b
  BY <1>8, <1>9
<1>11. (1 * 1) * e = e /\ (1 * t) * f = t * f /\ t * f \in Positive
  BY DEF Positive
<1>12. GittinsIndex(arm) = <<e, t * f>>
  BY <1>7, <1>10, <1>11
<1> QED BY <1>3, <1>10, <1>11, <1>12 DEF Fractions, Positive

\* A better kangaroo arm has the higher index.
LEMMA BetterKangHigher ==
    ASSUME NEW x \in KangarooArm, NEW c \in KangarooArm, BetterKang(x, c)
    PROVE  Less(GittinsIndex(c), GittinsIndex(x))
<1>1. /\ x.alpha \in Positive /\ x.beta \in Positive /\ c.alpha \in Positive /\ c.beta \in Positive
      /\ x.contention \in Nat /\ c.contention \in Nat /\ x.contention <= c.contention
      /\ x.interval_bits \in {0, 2} /\ c.interval_bits \in {0, 2} /\ x.interval_bits <= c.interval_bits
  BY DEF BetterKang, KangarooArm
<1>2. /\ x.interval_bits \div 2 \in Nat /\ c.interval_bits \div 2 \in Nat
      /\ x.interval_bits \div 2 <= c.interval_bits \div 2
      /\ x.interval_bits < c.interval_bits => x.interval_bits \div 2 < c.interval_bits \div 2
  BY <1>1
<1>3. PICK ax, bx, ac, bc, tx, tc, hx, hc \in Positive :
        /\ ax = x.alpha /\ bx = x.beta /\ ac = c.alpha /\ bc = c.beta
        /\ tx = TwoTo[x.contention] /\ tc = TwoTo[c.contention]
        /\ hx = TwoTo[x.interval_bits \div 2] /\ hc = TwoTo[c.interval_bits \div 2]
  BY <1>1, <1>2, TwoToIs
<1>4. /\ tx <= tc /\ (x.contention < c.contention => tx < tc)
      /\ hx <= hc /\ (x.interval_bits < c.interval_bits => hx < hc)
  BY <1>1, <1>2, <1>3, TwoToGrows
<1>5. PICK ab, ba, thx, thc : ab = ac * bx /\ ba = ax * bc /\ thx = tx * hx /\ thc = tc * hc
  OBVIOUS
<1>6. ab \in Positive /\ ba \in Positive
  BY <1>5, ProductGrows DEF Positive
<1>7. /\ thx \in Positive /\ thc \in Positive /\ thx <= thc
      /\ tx < tc \/ hx < hc => thx < thc
  BY <1>4, <1>5, ProductGrows
<1>8. ab <= ba /\ (ab < ba \/ thx < thc)
  <2>1. x.alpha * c.beta >= c.alpha * x.beta
        /\ (x.interval_bits < c.interval_bits \/ x.contention < c.contention
              \/ x.alpha * c.beta > c.alpha * x.beta)
    BY DEF BetterKang
  <2>2. ba >= ab /\ (x.interval_bits < c.interval_bits \/ x.contention < c.contention \/ ba > ab)
    BY <1>3, <1>5, <2>1
  <2> QED BY <1>4, <1>6, <1>7, <2>2 DEF Positive
<1>9. PICK l, r \in Nat : l = ab * thx /\ r = ba * thc /\ l < r
  <2>1. ab * thx < ba * thc /\ ab * thx \in Positive /\ ba * thc \in Positive
    BY <1>6, <1>7, <1>8, ProductGrows
  <2> QED BY <2>1 DEF Positive
<1>10. \A a, t, h, b \in Int : (10 * a) * (t * ((17 * h) * b)) = 170 * ((a * b) * (t * h))
  OBVIOUS
<1>11. (10 * ac) * (tx * ((17 * hx) * bx)) = 170 * l
  BY <1>5, <1>9, <1>10 DEF Positive
<1>12. (10 * ax) * (tc * ((17 * hc) * bc)) = 170 * r
  BY <1>5, <1>9, <1>10 DEF Positive
<1>13. /\ GittinsIndex(x) = <<10 * ax, tx * ((17 * hx) * bx)>>
       /\ GittinsIndex(c) = <<10 * ac, tc * ((17 * hc) * bc)>>
  BY <1>3, KangarooIndexIs
<1>14. 170 * l < 170 * r
  BY <1>9
<1> QED BY <1>11, <1>12, <1>13, <1>14 DEF Less

-----------------------------------------------------------------------------
(* The answer.                                                             *)

\* What allocate() is given: no two arms of one name.
Arms(brute, kang) ==
    /\ brute \subseteq BruteArm /\ kang \subseteq KangarooArm
    /\ \A x \in brute \union kang : x.name \in 1 .. 4
    /\ \A x, y \in brute \union kang : x.name = y.name => x = y
    /\ \A x \in brute : x.name <= 2
    /\ \A x \in kang : x.name > 2

\* The candidates of a call, one for each name.
LEMMA CandidatesRanked ==
    ASSUME NEW brute, NEW kang, Arms(brute, kang), \A x \in brute : x.range_size # 0,
           NEW cost \in Nat
    PROVE  LET cands == Candidates(brute, kang, 1, cost)
           IN /\ cands \subseteq Ranked
              /\ \A c \in cands : c[1] <= 4 /\ c[1] > 0
              /\ \A c, d \in cands : c[1] = d[1] => c = d
<1>1. PICK cands, left :
        /\ left = Survivors(brute, 1, cost)
        /\ cands = {<<arm.name, BruteIndex(arm)>> : arm \in left}
                     \union {<<arm.name, GittinsIndex(arm)>> : arm \in kang}
        /\ cands = Candidates(brute, kang, 1, cost)
  BY DEF Candidates
<1>2. left \subseteq brute
  BY <1>1 DEF Survivors
<1>3. ASSUME NEW c \in cands
      PROVE  /\ c \in Ranked /\ c[1] <= 4 /\ c[1] > 0
             /\ \/ \E x \in brute : c = <<x.name, BruteIndex(x)>>
                \/ \E x \in kang : c = <<x.name, GittinsIndex(x)>>
  <2>1. CASE \E x \in left : c = <<x.name, BruteIndex(x)>>
    <3>1. PICK x \in brute : c = <<x.name, BruteIndex(x)>>
      BY <1>2, <2>1
    <3>2. x \in BruteArm /\ x.name \in 1 .. 4 /\ x.range_size # 0
      BY DEF Arms
    <3>3. BruteIndex(x) \in Fractions
      BY <3>2, BruteIndexIs
    <3> QED BY <3>1, <3>2, <3>3 DEF Ranked
  <2>2. CASE \E x \in kang : c = <<x.name, GittinsIndex(x)>>
    <3>1. PICK x \in kang : c = <<x.name, GittinsIndex(x)>>
      BY <2>2
    <3>2. x \in KangarooArm /\ x.name \in 1 .. 4
      BY DEF Arms
    <3>3. GittinsIndex(x) \in Fractions
      BY <3>2, KangarooIndexIs
    <3> QED BY <3>1, <3>2, <3>3 DEF Ranked
  <2> QED BY <1>1, <2>1, <2>2
<1>4. ASSUME NEW c \in cands, NEW d \in cands, c[1] = d[1] PROVE c = d
  <2>1. CASE \E x \in brute, y \in brute : c = <<x.name, BruteIndex(x)>> /\ d = <<y.name, BruteIndex(y)>>
    BY <1>4, <2>1 DEF Arms
  <2>2. CASE \E x \in kang, y \in kang : c = <<x.name, GittinsIndex(x)>> /\ d = <<y.name, GittinsIndex(y)>>
    BY <1>4, <2>2 DEF Arms
  <2>3. CASE \E x \in brute, y \in kang : c[1] = x.name /\ d[1] = y.name
    <3>1. PICK x \in brute, y \in kang : c[1] = x.name /\ d[1] = y.name
      BY <2>3
    <3>2. x.name \in 1 .. 4 /\ y.name \in 1 .. 4
      BY DEF Arms
    <3>3. x.name <= 2 /\ y.name > 2
      BY DEF Arms
    <3>4. x.name = y.name
      BY <1>4, <3>1
    <3>5. PICK m, n \in Int : m = x.name /\ n = y.name
      BY <3>2
    <3> QED BY <3>3, <3>4, <3>5
  <2>4. CASE \E x \in kang, y \in brute : c[1] = x.name /\ d[1] = y.name
    <3>1. PICK x \in kang, y \in brute : c[1] = x.name /\ d[1] = y.name
      BY <2>4
    <3>2. x.name \in 1 .. 4 /\ y.name \in 1 .. 4
      BY DEF Arms
    <3>3. x.name > 2 /\ y.name <= 2
      BY DEF Arms
    <3>4. x.name = y.name
      BY <1>4, <3>1
    <3>5. PICK m, n \in Int : m = x.name /\ n = y.name
      BY <3>2
    <3> QED BY <3>3, <3>4, <3>5
  <2> QED BY <1>3, <2>1, <2>2, <2>3, <2>4
<1> QED BY <1>1, <1>3, <1>4

\* The arm of a name, and none better of its kind.
FundsWell(brute, kang, name) ==
    LET chosen == CHOOSE arm \in brute \union kang : arm.name = name
    IN IF chosen \in brute THEN \A x \in brute : ~BetterBrute(x, chosen)
                           ELSE \A x \in kang : ~BetterKang(x, chosen)

\* Nothing better is left behind by the arm with the best index.
LEMMA BestFundsWell ==
    ASSUME NEW brute, NEW kang, Arms(brute, kang), \A x \in brute : x.range_size # 0,
           NEW cost \in Nat, NEW best, best = Best(Candidates(brute, kang, 1, cost)),
           Candidates(brute, kang, 1, cost) # {}, ~(best[2][1] <= 0)
    PROVE  best[1] \in Nat /\ best[1] > 0 /\ FundsWell(brute, kang, best[1])
<1>1. PICK cands, left :
        /\ left = Survivors(brute, 1, cost)
        /\ cands = {<<arm.name, BruteIndex(arm)>> : arm \in left}
                     \union {<<arm.name, GittinsIndex(arm)>> : arm \in kang}
        /\ cands = Candidates(brute, kang, 1, cost)
  BY DEF Candidates
<1>2. /\ cands \subseteq Ranked
      /\ \A c \in cands : c[1] <= 4 /\ c[1] > 0
      /\ \A c, d \in cands : c[1] = d[1] => c = d
  BY <1>1, CandidatesRanked
<1>3. best \in cands /\ \A d \in cands : ~Less(best[2], d[2])
  <2>1. 4 \in Nat /\ cands # {}
    BY <1>1
  <2> QED BY <1>1, <1>2, <2>1, BestIs
<1>4. best[1] \in Nat /\ best[1] > 0
  BY <1>2, <1>3 DEF Ranked
<1>5. PICK chosen : chosen = CHOOSE arm \in brute \union kang : arm.name = best[1]
  OBVIOUS
<1>6. ASSUME NEW a \in brute \union kang, a.name = best[1] PROVE chosen = a
  BY <1>5, <1>6 DEF Arms
<1>7. \A x \in brute : x \notin kang
  <2> SUFFICES ASSUME NEW x \in brute, x \in kang PROVE FALSE
    OBVIOUS
  <2>1. x.name \in 1 .. 4 /\ x.name <= 2 /\ x.name > 2
    BY DEF Arms
  <2> QED BY <2>1
<1>8. CASE \E a \in left : best = <<a.name, BruteIndex(a)>>
  <2>1. PICK a \in left : best = <<a.name, BruteIndex(a)>>
    BY <1>8
  <2>2. a \in brute /\ ~(cost > 0 /\ Losing(a, 1, cost))
    BY <1>1 DEF Survivors
  <2>3. chosen = a
    BY <1>6, <2>1, <2>2
  <2>4. a \in BruteArm /\ a.range_size # 0
    BY <2>2 DEF Arms
  <2>5. a.prize > 0
    <3>1. best[2][1] = a.prize
      BY <2>1, <2>4, BruteIndexIs
    <3>2. a.prize \in Nat
      BY <2>4 DEF BruteArm
    <3> QED BY <3>1, <3>2
  <2>6. ASSUME NEW x \in brute, BetterBrute(x, a) PROVE FALSE
    <3>1. x \in BruteArm /\ x.range_size # 0
      BY DEF Arms
    <3>2. ~(cost > 0 /\ Losing(x, 1, cost))
      BY <2>2, <2>4, <2>6, <3>1, BetterBruteSurvives
    <3>3. x \in left
      BY <1>1, <3>2 DEF Survivors
    <3>4. Less(BruteIndex(a), BruteIndex(x))
      BY <2>4, <2>5, <2>6, <3>1, BetterBruteHigher
    <3>5. PICK d : d = <<x.name, BruteIndex(x)>>
      OBVIOUS
    <3>6. d \in cands /\ d[2] = BruteIndex(x) /\ best[2] = BruteIndex(a)
      BY <1>1, <2>1, <3>3, <3>5
    <3> QED BY <1>3, <3>4, <3>6
  <2> QED BY <1>4, <1>5, <2>2, <2>3, <2>6 DEF FundsWell
<1>9. CASE \E a \in kang : best = <<a.name, GittinsIndex(a)>>
  <2>1. PICK a \in kang : best = <<a.name, GittinsIndex(a)>>
    BY <1>9
  <2>2. chosen = a /\ a \notin brute
    BY <1>6, <1>7, <2>1
  <2>3. ASSUME NEW x \in kang, BetterKang(x, a) PROVE FALSE
    <3>1. x \in KangarooArm /\ a \in KangarooArm
      BY DEF Arms
    <3>2. Less(GittinsIndex(a), GittinsIndex(x))
      BY <2>3, <3>1, BetterKangHigher
    <3>3. PICK d : d = <<x.name, GittinsIndex(x)>>
      OBVIOUS
    <3>4. d \in cands /\ d[2] = GittinsIndex(x) /\ best[2] = GittinsIndex(a)
      BY <1>1, <2>1, <3>3
    <3> QED BY <1>3, <3>2, <3>4
  <2> QED BY <1>4, <1>5, <2>2, <2>3 DEF FundsWell
<1> QED BY <1>1, <1>3, <1>8, <1>9

\* What allocate() answers, for every set of arms and every cost.
THEOREM AllocateFunds ==
    ASSUME NEW brute, NEW kang, Arms(brute, kang), NEW stop \in BOOLEAN, NEW cost \in Nat,
           NEW answer, answer = Allocate(brute, kang, stop, 1, cost)
    PROVE  /\ stop => answer = None
           /\ answer = Raised <=> ~stop /\ \E arm \in brute : arm.range_size = 0
           /\ answer \notin {None, Raised} => FundsWell(brute, kang, answer)
<1>1. PICK cands : cands = Candidates(brute, kang, 1, cost)
  OBVIOUS
<1>2. \A arm \in brute : arm.range_size <= 0 <=> arm.range_size = 0
  BY DEF Arms, BruteArm
<1>3. None # Raised
  BY DEF None, Raised
<1>4. CASE stop
  <2>1. answer = None
    BY <1>4 DEF Allocate
  <2> QED BY <1>3, <1>4, <2>1
<1>5. CASE ~stop /\ \E arm \in brute : arm.range_size <= 0
  <2>1. answer = Raised
    BY <1>5, Zenon DEF Allocate
  <2> QED BY <1>2, <1>5, <2>1
<1>6. CASE ~stop /\ ~\E arm \in brute : arm.range_size <= 0
  <2>1. answer = IF cands = {} \/ Best(cands)[2][1] <= 0 THEN None ELSE Best(cands)[1]
    BY <1>1, <1>6, Zenon DEF Allocate
  <2>2. \A x \in brute : x.range_size # 0
    BY <1>2, <1>6
  <2>3. CASE cands = {} \/ Best(cands)[2][1] <= 0
    <3>1. answer = None
      BY <2>1, <2>3
    <3> QED BY <1>2, <1>3, <1>6, <3>1
  <2>4. CASE ~(cands = {} \/ Best(cands)[2][1] <= 0)
    <3>1. answer = Best(cands)[1]
      BY <2>1, <2>4
    <3>2. answer \in Nat /\ answer > 0 /\ FundsWell(brute, kang, answer)
      BY <1>1, <2>2, <2>4, <3>1, BestFundsWell
    <3>3. answer # Raised
      BY <3>2 DEF Raised
    <3> QED BY <1>2, <1>6, <3>2, <3>3
  <2> QED BY <2>3, <2>4
<1> QED BY <1>4, <1>5, <1>6

\* The arms of a call have different names.
LEMMA CallArms ==
    ASSUME NEW one \in BruteArms(1), NEW two \in BruteArms(2), NEW kang \in KangarooSets
    PROVE  Arms({one, two}, kang)
<1>1. /\ one \in BruteArm /\ one.name = 1
      /\ two \in BruteArm /\ two.name = 2
  BY BruteTyped
<1>2. \A k \in KangarooArms(3) : k \in KangarooArm /\ k.name = 3
  BY KangarooTyped
<1>3. \A k \in KangarooArms(4) : k \in KangarooArm /\ k.name = 4
  BY KangarooTyped
<1>4. CASE kang = {}
  BY <1>1, <1>4 DEF Arms
<1>5. CASE \E k3 \in KangarooArms(3) : kang = {k3}
  <2>1. PICK k3 \in KangarooArms(3) : kang = {k3}
    BY <1>5
  <2> QED BY <1>1, <1>2, <2>1 DEF Arms
<1>6. CASE \E k3 \in KangarooArms(3), k4 \in KangarooArms(4) : kang = {k3, k4}
  <2>1. PICK k3 \in KangarooArms(3), k4 \in KangarooArms(4) : kang = {k3, k4}
    BY <1>6
  <2> QED BY <1>1, <1>2, <1>3, <2>1 DEF Arms
<1>7. \/ kang = {}
      \/ \E k3 \in KangarooArms(3) : kang = {k3}
      \/ \E k3 \in KangarooArms(3), k4 \in KangarooArms(4) : kang = {k3, k4}
  BY DEF KangarooSets
<1> QED BY <1>4, <1>5, <1>6, <1>7

\* allocate() funds no arm while a better one of its kind is at hand, for every
\* range, prize, contention, hazard, rate and cost.
THEOREM AllocatesWell == PureSpec => []NeverFundsWorseArm
<1>1. Init => NeverFundsWorseArm
  BY DEF Init, NeverFundsWorseArm
<1>2. NeverFundsWorseArm /\ [PureNext]_vars => NeverFundsWorseArm'
  <2> SUFFICES ASSUME NeverFundsWorseArm, [PureNext]_vars, call'.op = "allocate"
               PROVE  NeverFundsWorseArm'
    BY DEF NeverFundsWorseArm
  <2>1. CASE UNCHANGED vars
    BY <2>1 DEF vars, NeverFundsWorseArm, ArmNamed
  <2>2. CASE vars' # vars
    <3>1. AllocateCall
      BY <2>2, WhichCall
    <3>2. PICK one \in BruteArms(1), two \in BruteArms(2),
               kang \in KangarooSets,
               stop \in BOOLEAN, cost \in Costs :
            /\ call' = [op |-> "allocate", brute |-> {one, two}, kang |-> kang, stop |-> stop,
                        cost |-> cost]
            /\ out' = Allocate({one, two}, kang, stop, 1, cost)
      BY <3>1 DEF AllocateCall
    <3>3. PICK brute : brute = {one, two}
      OBVIOUS
    <3>4. call'.brute = brute /\ call'.kang = kang /\ call'.stop = stop
      BY <3>2, <3>3
    <3>5. Arms(brute, kang)
      BY <3>3, CallArms
    <3>6. cost \in Nat
      BY PureAssumption
    <3>7. /\ stop => out' = None
          /\ out' = Raised <=> ~stop /\ \E arm \in brute : arm.range_size = 0
          /\ out' \notin {None, Raised} => FundsWell(brute, kang, out')
      BY <3>2, <3>3, <3>5, <3>6, AllocateFunds
    <3>8. NeverFundsWorseArm' <=>
            (call'.op = "allocate" =>
                /\ call'.stop => out' = None
                /\ out' = Raised <=> ~call'.stop /\ \E arm \in call'.brute : arm.range_size = 0
                /\ out' \notin {None, Raised} => FundsWell(call'.brute, call'.kang, out'))
      BY DEF NeverFundsWorseArm, ArmNamed, FundsWell
    <3> QED BY <3>4, <3>7, <3>8
  <2> QED BY <2>1, <2>2 DEF vars
<1> QED BY <1>1, <1>2, PTL DEF PureSpec

=============================================================================
