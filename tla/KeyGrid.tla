------------------------------- MODULE KeyGrid -------------------------------
(***************************************************************************)
(* The fixed integer grid on which a RangeRegistry leases the keyspace     *)
(* [lo, hi): block k holds the keys from lo + k*size up to, not including, *)
(* lo + (k+1)*size, the last block being cut short at hi.  The loop that   *)
(* builds the grid is modelled in GridLoop, which shows that it computes   *)
(* these closed forms; every other module uses the closed forms.           *)
(***************************************************************************)
EXTENDS Integers

\* Block k exists iff the loop is still below hi when it reaches block k.
BlocksOf(first, end, step) == {k \in 0 .. (end - first) : first + k * step < end}

LoOf(first, step, k) == first + k * step

HiOf(first, end, step, k) ==
    IF first + (k + 1) * step < end THEN first + (k + 1) * step ELSE end

\* Two half-open intervals [aLo, aHi) and [bLo, bHi) share a key.
Overlap(aLo, aHi, bLo, bHi) == aLo < bHi /\ bLo < aHi

=============================================================================
