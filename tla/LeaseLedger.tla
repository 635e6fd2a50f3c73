----------------------------- MODULE LeaseLedger -----------------------------
(***************************************************************************)
(* What the registry promises to the rest of the program, without its      *)
(* tables, references and lazy reclaim: a ledger of who holds which block  *)
(* right now.  A hold ends the moment its deadline passes, whether or not  *)
(* any code has noticed; RangeRegistry, which notices only when one of its *)
(* methods runs, implements this ledger.                                   *)
(***************************************************************************)
EXTENDS Integers

CONSTANTS Blocks,  \* block indices
          Workers  \* worker ids

VARIABLES
    holder,  \* the id of the lease that holds a block, 0 if none does
    issued,  \* how many leases have been granted; their ids are 1 .. issued
    owner,   \* the worker every lease was granted to
    done     \* the blocks reported swept

vars == <<holder, issued, owner, done>>

Nobody == 0

Init ==
    /\ holder = [b \in Blocks |-> Nobody]
    /\ issued = 0
    /\ owner = [i \in {} |-> 0]
    /\ done = {}

\* A block that may be granted.
Open(b) == holder[b] = Nobody /\ b \notin done

\* The lowest open block goes to w under the next id.
Grant(b, w) ==
    /\ Open(b)
    /\ \A c \in Blocks : c < b => ~Open(c)
    /\ issued' = issued + 1
    /\ owner' = [i \in 1 .. issued' |-> IF i = issued' THEN w ELSE owner[i]]
    /\ holder' = [holder EXCEPT ![b] = issued']
    /\ UNCHANGED done

\* Any set of holds ends: their deadlines pass, or their worker leaves.
Lapse(B) ==
    /\ holder' = [b \in Blocks |-> IF b \in B THEN Nobody ELSE holder[b]]
    /\ UNCHANGED <<issued, owner, done>>

\* The holder reports its block swept.
Finish(b) ==
    /\ holder[b] # Nobody
    /\ holder' = [holder EXCEPT ![b] = Nobody]
    /\ done' = done \cup {b}
    /\ UNCHANGED <<issued, owner>>

Next ==
    \/ \E b \in Blocks, w \in Workers : Grant(b, w)
    \/ \E B \in SUBSET Blocks : Lapse(B)
    \/ \E b \in Blocks : Finish(b)

Spec == Init /\ [][Next]_vars

=============================================================================
