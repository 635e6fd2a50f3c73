------------------------------ MODULE Allocator ------------------------------
(***************************************************************************)
(* orchestrator/coordinator/allocator.py: which arm to fund in an epoch.   *)
(* The coordinator only ever halts it; the rest is for a caller to feed    *)
(* and ask.                                                                *)
(*                                                                         *)
(* A float is a fraction <<numerator, denominator>> with a positive        *)
(* denominator, compared exactly.  exp(-x) is 2^-x: of exp, all that is    *)
(* used is that it is positive and decreasing, with exp(0) = 1.            *)
(* sqrt(2^b) is 2^(b/2), for even b.                                       *)
(***************************************************************************)
EXTENDS Integers, Sequences

Less(u, v) == u[1] * v[2] < v[1] * u[2]
Times(u, v) == <<u[1] * v[1], u[2] * v[2]>>
Over(u, v) == <<u[1] * v[2], u[2] * v[1]>>

TwoTo[n \in Nat] == IF n = 0 THEN 1 ELSE 2 * TwoTo[n - 1]
Exp(x) == <<1, TwoTo[x]>>
Shrinkage(contention) == Exp(contention)

---------------------------------------------------------------------------
(* Brute-force arms: records of name, range_size, prize, contention,       *)
(* hazard, sweep_rate.                                                     *)

\* Mutant: contention is left out.
BruteIndex_Uncontended(arm) == <<arm.prize, arm.range_size>>
BruteIndex(arm) == Times(<<arm.prize, arm.range_size>>, Shrinkage(arm.contention))

\* Whether expected_value is negative: reward < cost.
PSolve(arm, budget) ==
    LET keys == arm.sweep_rate * budget
    IN IF keys < arm.range_size THEN <<keys, arm.range_size>> ELSE <<1, 1>>
Losing(arm, budget, cost) ==
    Less(Times(Times(PSolve(arm, budget), <<arm.prize, 1>>), Exp(arm.hazard * budget)),
         <<cost * budget, 1>>)

\* The arms that the stop-loss of rank_brute_force leaves.
Survivors(arms, budget, cost) == {arm \in arms : ~(cost > 0 /\ Losing(arm, budget, cost))}

---------------------------------------------------------------------------
(* Kangaroo arms: records of name, interval_bits, prize, contention, alpha *)
(* and beta (fractions), dp_yield.                                         *)

\* update_from_dp_rate, for an epoch of exposure 1.
Update(arm, rate) ==
    [arm EXCEPT !.alpha = @ + rate, !.beta = @ + 1]

\* c = 1.7
GroupOps(arm) == <<17 * TwoTo[arm.interval_bits \div 2], 10>>
Rate(arm) == <<arm.alpha * arm.dp_yield, arm.beta>>
\* gittins_index: prize * shrinkage / time to collision, and 0 when that is
\* infinite for want of a rate.
GittinsIndex(arm) ==
    IF Rate(arm)[1] <= 0 THEN <<0, 1>>
    ELSE Over(Times(<<arm.prize, 1>>, Shrinkage(arm.contention)),
              Over(GroupOps(arm), Rate(arm)))

---------------------------------------------------------------------------
\* An arm's name is a positive number; the other answers are None and ValueError.
None == 0
Raised == -1

Candidates(brute, kang, budget, cost) ==
    {<<arm.name, BruteIndex(arm)>> : arm \in Survivors(brute, budget, cost)}
        \union {<<arm.name, GittinsIndex(arm)>> : arm \in kang}

\* The first of the candidates by descending index, ties by name.
Best(cands) == CHOOSE c \in cands : \A d \in cands :
    ~Less(c[2], d[2]) /\ (Less(d[2], c[2]) \/ c[1] <= d[1])

\* allocate: the name of the arm to fund.  A brute-force arm with nothing left
\* to sweep raises, whatever the other arms are.
Allocate(brute, kang, isHalted, budget, cost) ==
    LET cands == Candidates(brute, kang, budget, cost)
    IN CASE isHalted -> None
         [] ~isHalted /\ \E arm \in brute : arm.range_size <= 0 -> Raised
         [] OTHER -> IF cands = {} \/ Best(cands)[2][1] <= 0 THEN None ELSE Best(cands)[1]

=============================================================================
