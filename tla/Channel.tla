------------------------------- MODULE Channel -------------------------------
(***************************************************************************)
(* What one direction of a connection promises its two ends: messages come *)
(* out in the order in which they went in, each at most once, and while    *)
(* the byte stream is intact none is left out.  A damaged stream may lose  *)
(* messages, never invent, repeat or reorder them.                         *)
(***************************************************************************)
EXTENDS Naturals, Sequences

VARIABLES posted,     \* how many messages have been put in; they are numbered
          delivered,  \* the numbers of those taken out
          intact,     \* no byte has been lost
          open        \* the reader has not given up

vars == <<posted, delivered, intact, open>>

Init == posted = 0 /\ delivered = <<>> /\ intact = TRUE /\ open = TRUE

LastOut == IF delivered = <<>> THEN 0 ELSE delivered[Len(delivered)]

Post ==
    /\ posted' = posted + 1
    /\ UNCHANGED <<delivered, intact, open>>

Deliver ==
    /\ open
    /\ \E i \in LastOut + 1 .. posted :
          /\ intact => i = LastOut + 1
          /\ delivered' = Append(delivered, i)
    /\ open' \in BOOLEAN
    /\ UNCHANGED <<posted, intact>>

Damage ==
    /\ intact' = FALSE
    /\ UNCHANGED <<posted, delivered, open>>

Shut ==
    /\ open' = FALSE
    /\ UNCHANGED <<posted, delivered, intact>>

Next == Post \/ Deliver \/ Damage \/ Shut

Spec == Init /\ [][Next]_vars

=============================================================================
