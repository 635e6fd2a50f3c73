----------------------------- MODULE MCPureCalls ----------------------------
(***************************************************************************)
(* The field on four limbs of two bits, Modulus 256 and Prime 249, for     *)
(* every pair of operands; the curve over F_43, a group of prime order 31, *)
(* with scalars that wrap at 48; behind the scan's one start point, every  *)
(* point of the curve and others of each x; two brute-force arms and up to *)
(* two kangaroo arms; the toy's ec_mul on its own curve and two others.    *)
(***************************************************************************)
EXTENDS PureCalls

ThreeCurves == {Curve(5, 4, 1), Curve(7, 0, 3), Curve(3, 2, 1)}
Memory == CurvePoints \union [x : Fe, y : {0, 1, 5}]
BothSigns == -11 .. 11

=============================================================================
