----------------------------- MODULE MCDPIngest -----------------------------
(***************************************************************************)
(* One connection that carries heartbeats and three batches: tame points,  *)
(* wild points and points of a kind the store refuses, with walks on both  *)
(* sides of the negation map.                                              *)
(***************************************************************************)
EXTENDS DPIngest

Walk(kind, s, dist) == [kind |-> kind, side |-> s, dist |-> dist]

\* With key 3 the tame points at 5 and 2 meet the wild ones at 3 + 2 and at
\* -3 + 1, and 5 is hit twice by tame walks that stand at 5 and at -5.
Batches ==
    "tames" :> <<Walk("tame", 1, 5), Walk("tame", 1, 2), Walk("tame", 1, -5)>> @@
    "wilds" :> <<Walk("wild", 1, 1), Walk("wild", 1, 2), Walk("wild", -1, 1)>> @@
    "mixed" :> <<Walk("wild", -1, 1), Walk("lost", 1, 0), Walk("tame", 1, 4)>>

AllXs == 0 .. 5
AllDists == {-5, 0, 1, 2, 4, 5}

AllMessages == {"hb", "tames", "wilds", "mixed", "bye"}
PayloadLens == [m \in AllMessages |-> IF m = "tames" THEN 2 ELSE 1]

=============================================================================
