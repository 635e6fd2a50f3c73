----------------------------- MODULE MCKangaroo -----------------------------
(***************************************************************************)
(* The search on the curve y^2 = x^3 + 7 over F_211, a group of prime      *)
(* order 199, for every key of an interval of seven and for its neighbours  *)
(* on both sides.                                                          *)
(***************************************************************************)
EXTENDS Kangaroo

FourJumps == <<2, 3, 5, 4>>
KeysAround == (Lo - 1) .. (Lo + W + 1)

=============================================================================
