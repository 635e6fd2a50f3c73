------------------------------ MODULE Kangaroo ------------------------------
(***************************************************************************)
(* kernels/kangaroo/kangaroo.cu: the search for the key of a public key    *)
(* known to lie in [Lo, Lo + W], by two herds of walks on the GPU and a    *)
(* host that joins their distinguished points.                             *)
(*                                                                         *)
(* A launch runs every kangaroo for the same number of steps; the threads  *)
(* interleave, so Step is one step of one kangaroo, and the order of the   *)
(* reports in the buffer is theirs.  The host looks at the buffer after    *)
(* the launch, one entry an action.                                        *)
(*                                                                         *)
(* The two builds of the file (with and without NEGMAP) share the host and *)
(* differ in the walk: `build` says which one runs.  Points are those of   *)
(* SmallCurve, so an addition that meets a doubling, an inverse pair or    *)
(* the sentinel (0,0) does what the kernel's formula does there.           *)
(*                                                                         *)
(* Integers (keys and distances) keep their sign and never reach 2^63 at   *)
(* the sizes modelled here.                                                *)
(***************************************************************************)
EXTENDS SmallCurve, FiniteSets

CONSTANTS Builds,       \* of {"base", "negmap"}
          Lo, W,        \* the interval [Lo, Lo + W]
          Keys,         \* the keys whose public keys are searched for
          Herd,         \* M_t = M_w (the code never goes below 64)
          JumpScalars,  \* jscal: K_JUMPS jump scalars, a sequence
          Limb,         \* 2^32: what the kernels look at of an x is its low limb
          DPMask,       \* dp_mask + 1
          Cap,          \* KANG_CAP: the report buffer's capacity
          Steps,        \* steps_per_round
          Rounds        \* launches the budget allows

\* main() refuses hi <= lo; jump scalars are in [1, 2*mean].  The distances,
\* from start points below W or Herd, stay below half of the group's order, as
\* they do in the real group.
ASSUME KangarooAssumption ==
    /\ Builds \subseteq {"base", "negmap"}
    /\ Lo \in Nat /\ W \in Nat \ {0} /\ Lo + W < N
    /\ Keys \subseteq 1 .. N - 1
    /\ Herd \in Nat \ {0} /\ DPMask \in Nat \ {0}
    /\ Limb \in Nat \ {0} /\ Limb % Len(JumpScalars) = 0 /\ Limb % DPMask = 0
    /\ JumpScalars \in Seq(1 .. W) \ {<<>>} /\ Len(JumpScalars) % 2 = 0
    /\ \A i \in DOMAIN JumpScalars :
        2 * (2 * W + Herd + Steps * Rounds * JumpScalars[i]) < N
    /\ Cap \in Nat /\ Steps \in Nat \ {0} /\ Rounds \in Nat

ASSUME GroupAssumption == GroupLaws

VARIABLES
    build,     \* which build of the file
    key,       \* the key behind Q: the code never sees it
    pc,        \* "init", "launch", "walk", "join", "verify", "done"
    round,     \* launches so far: total_steps / steps_per_round
    px,              \* every kangaroo's point in global memory, between launches
    pt, dist, sgn,   \* its thread's copy of the point, the distance and the sign
    prev1, prev2,    \* low limbs one and two steps ago, within a launch
    left,      \* steps every kangaroo has left in this launch
    dpcount,   \* d_dpcount: reports attempted in this launch
    buf,       \* the report buffer, as far as it is written
    tameMap, wildMap,  \* the host's tables: x to [w, a]
    cand,      \* found_cand
    result     \* "running", or how the program ended

vars == <<build, key, pc, round, px, pt, dist, sgn, prev1, prev2, left, dpcount,
          buf, tameMap, wildMap, cand, result>>
fixed == <<build, key>>
herd == <<px, pt, dist, sgn, prev1, prev2, left>>
tables == <<tameMap, wildMap>>

Tame == 1 .. Herd
Wild == Herd + 1 .. 2 * Herd
Kangaroos == Tame \union Wild
K == Len(JumpScalars)

Low(p) == p.x % Limb
\* prev1 and prev2 before there is a point to remember: 0xFFFFFFFF, which a
\* point may have as well.
NoX == Limb - 1
NoCand == -1

NegMap == build = "negmap"
Distinguished(p) == Low(p) % DPMask = 0

Q == MulG[key]
\* k_init_global reads the public key, and Q' = Q - lo*G by the host's n - lo.
QPrime == [k \in Keys |->
    JAdd(ToJacobian(Decompress(Compressed(MulG[k]))), JMulG[N - Lo])]
QpIsInf == IsInfinity(QPrime[key])

Jump == [i \in 0 .. K - 1 |-> MulG[JumpScalars[i + 1]]]
JumpIndex(p) == Low(p) % K
Alternate(i) == IF i % 2 = 0 THEN i + 1 ELSE i - 1     \* i ^ 1

---------------------------------------------------------------------------
\* The start points: tame ones at multiples of G spread over the interval,
\* wild ones at Q' plus such multiples.  The remaining branch of an offset 0
\* keeps Q' itself.
Stride == IF W \div Herd < 1 THEN 1 ELSE W \div Herd
Offset(j) == Stride \div 2 + j * Stride
StartDist(g) ==
    IF g \in Tame
    THEN IF Offset(g - 1) = 0 THEN 1 ELSE Offset(g - 1)
    ELSE Offset(g - Herd - 1)
StartPoints == [k \in Keys |-> [g \in Kangaroos |->
    LET Qp == JToAffine(QPrime[k])
        off == StartDist(g)
    IN IF g \in Tame THEN MulG[off]
       ELSE IF off = 0 THEN Qp
       ELSE JToAffine(JAdd(ToJacobian(Qp), ToJacobian(MulG[off])))]]
StartPoint(g) == StartPoints[key][g]
StartSign(g) == IF g \in Tame THEN 0 ELSE 1

\* With the negation map every point is kept with an even y; negating it
\* negates the logarithm sgn * d' + dist.
Flips(p) == NegMap /\ FeIsOdd(p.y)
\* Mutant: the point is folded, its logarithm is not.
Signed_Never(p, v) == v
Signed(p, v) == IF Flips(p) THEN -v ELSE v
Folded(p) == IF NegMap THEN Canon(p) ELSE p

Init ==
    /\ build \in Builds
    /\ key \in Keys
    /\ pc = "init"
    /\ round = 0
    /\ px = [g \in Kangaroos |-> Sentinel]
    /\ pt = px
    /\ dist = [g \in Kangaroos |-> 0]
    /\ sgn = [g \in Kangaroos |-> 0]
    /\ prev1 = [g \in Kangaroos |-> NoX]
    /\ prev2 = [g \in Kangaroos |-> NoX]
    /\ left = [g \in Kangaroos |-> 0]
    /\ dpcount = 0
    /\ buf = <<>>
    /\ tameMap = <<>>
    /\ wildMap = <<>>
    /\ cand = NoCand
    /\ result = "running"

\* Q' = O, which the affine walk cannot hold, means that the key is lo.
ShortCircuit ==
    /\ pc = "init"
    /\ QpIsInf
    /\ cand' = Lo
    /\ pc' = "verify"
    /\ UNCHANGED <<fixed, round, herd, dpcount, buf, tables, result>>

Setup ==
    /\ pc = "init"
    /\ ~QpIsInf
    /\ px' = [g \in Kangaroos |-> Folded(StartPoint(g))]
    /\ dist' = [g \in Kangaroos |-> Signed(StartPoint(g), StartDist(g))]
    /\ sgn' = [g \in Kangaroos |-> Signed(StartPoint(g), StartSign(g))]
    /\ pc' = "launch"
    /\ UNCHANGED <<fixed, round, pt, prev1, prev2, left, dpcount, buf, tables, cand, result>>

\* `while (total_steps < budget && !solved)`: the launch resets the report
\* index, and the walk starts with no memory of the points before.
Launch ==
    /\ pc = "launch"
    /\ round < Rounds
    /\ dpcount' = 0
    /\ buf' = <<>>
    /\ prev1' = [g \in Kangaroos |-> NoX]
    /\ prev2' = [g \in Kangaroos |-> NoX]
    /\ pt' = px
    /\ left' = [g \in Kangaroos |-> Steps]
    /\ pc' = "walk"
    /\ UNCHANGED <<fixed, round, px, dist, sgn, tables, cand, result>>

OutOfBudget ==
    /\ pc = "launch"
    /\ round >= Rounds
    /\ result' = "no collision"
    /\ pc' = "done"
    /\ UNCHANGED <<fixed, round, herd, dpcount, buf, tables, cand>>

\* A kangaroo that is back where it was two steps ago takes the other jump of
\* the pair.
Escapes(g) == NegMap /\ Low(pt[g]) = prev2[g]
NextJump(g) == IF Escapes(g) THEN Alternate(JumpIndex(pt[g])) ELSE JumpIndex(pt[g])
Landing(g) == AffAdd(pt[g], Jump[NextJump(g)])

\* Mutant: the buffer's last slot is never used.
Report_OneShort(g, p, w, a) ==
    IF Distinguished(p)
    THEN /\ dpcount' = dpcount + 1
         /\ buf' = IF dpcount + 1 < Cap
                   THEN Append(buf, [x |-> p.x, w |-> w, a |-> a, tame |-> g \in Tame])
                   ELSE buf
    ELSE UNCHANGED <<dpcount, buf>>

Report(g, p, w, a) ==
    IF Distinguished(p)
    THEN /\ dpcount' = dpcount + 1
         /\ buf' = IF dpcount < Cap
                   THEN Append(buf, [x |-> p.x, w |-> w, a |-> a, tame |-> g \in Tame])
                   ELSE buf
    ELSE UNCHANGED <<dpcount, buf>>

Step(g) ==
    /\ pc = "walk"
    /\ left[g] > 0
    /\ LET i == NextJump(g)
           R == Landing(g)
           w == Signed(R, dist[g] + JumpScalars[i + 1])
           a == Signed(R, sgn[g])
       IN /\ pt' = [pt EXCEPT ![g] = Folded(R)]
          /\ dist' = [dist EXCEPT ![g] = w]
          /\ sgn' = [sgn EXCEPT ![g] = a]
          /\ Report(g, R, w, a)
    /\ prev2' = [prev2 EXCEPT ![g] = prev1[g]]
    /\ prev1' = [prev1 EXCEPT ![g] = Low(pt[g])]
    /\ left' = [left EXCEPT ![g] = @ - 1]
    /\ UNCHANGED <<fixed, pc, round, px, tables, cand, result>>

\* cudaDeviceSynchronize(); the budget is charged whether or not anything was
\* reported.
Synchronize ==
    /\ pc = "walk"
    /\ \A g \in Kangaroos : left[g] = 0
    /\ px' = pt
    /\ round' = round + 1
    /\ pc' = "join"
    /\ UNCHANGED <<fixed, pt, dist, sgn, prev1, prev2, left, dpcount, buf, tables, cand, result>>

\* Mutant: the distance between the two, whatever the signs.
TryPair_Unsigned(t, w) ==
    LET dprimes == {d \in 0 .. W : d = t.w - w.w \/ d = w.w - t.w}
    IN IF dprimes # {} THEN Lo + CHOOSE d \in dprimes : TRUE ELSE NoCand
\* try_pair: the d' in 0 .. W at which the two logarithms agree, or NoCand.
\* The division is exact or refused.
TryPair(t, w) ==
    LET da == t.a - w.a
        dprimes == {d \in 0 .. W : da * d = w.w - t.w}
    IN IF da # 0 /\ dprimes # {} THEN Lo + CHOOSE d \in dprimes : TRUE ELSE NoCand

\* `if (map.find(key) == map.end()) map[key] = ...`
Keep(map, r) ==
    IF r.x \in DOMAIN map THEN map
    ELSE [x \in DOMAIN map \union {r.x} |-> IF x = r.x THEN [w |-> r.w, a |-> r.a] ELSE map[x]]

\* Mutant: only tame reports look for a partner.
Match_TameOnly(r) ==
    IF r.tame /\ r.x \in DOMAIN wildMap THEN TryPair(r, wildMap[r.x]) ELSE NoCand
\* One report: first against the other herd's table, and into its own table
\* when that gives no key in range.
Match(r) ==
    IF r.tame
    THEN IF r.x \in DOMAIN wildMap THEN TryPair(r, wildMap[r.x]) ELSE NoCand
    ELSE IF r.x \in DOMAIN tameMap THEN TryPair(tameMap[r.x], r) ELSE NoCand

Join ==
    /\ pc = "join"
    /\ buf # <<>>
    /\ LET r == Head(buf) IN
       IF Match(r) # NoCand
       THEN /\ cand' = Match(r)
            /\ pc' = "verify"
            /\ UNCHANGED tables
       ELSE /\ tameMap' = IF r.tame THEN Keep(tameMap, r) ELSE tameMap
            /\ wildMap' = IF r.tame THEN wildMap ELSE Keep(wildMap, r)
            /\ UNCHANGED <<cand, pc>>
    /\ buf' = Tail(buf)
    /\ UNCHANGED <<fixed, round, herd, dpcount, result>>

NextRound ==
    /\ pc = "join"
    /\ buf = <<>>
    /\ pc' = "launch"
    /\ UNCHANGED <<fixed, round, herd, dpcount, buf, tables, cand, result>>

\* k_verify and the end of main(): a wrong candidate ends the program as well.
Verify ==
    /\ pc = "verify"
    /\ result' = IF ~IsInfinity(JMulG[cand]) /\ Compressed(MulG[cand]) = Compressed(Q)
                 THEN "solved" ELSE "wrong candidate"
    /\ pc' = "done"
    /\ UNCHANGED <<fixed, round, herd, dpcount, buf, tables, cand>>

Next ==
    \/ ShortCircuit \/ Setup \/ Launch \/ OutOfBudget
    \/ \E g \in Kangaroos : Step(g)
    \/ Synchronize \/ Join \/ NextRound \/ Verify

Spec == Init /\ [][Next]_vars

---------------------------------------------------------------------------
InRange == key \in Lo .. Lo + W
TableOf(g) == IF g \in Tame THEN tameMap ELSE wildMap

\* The point that a sign and a distance stand for: (a * d' + w) * G.
LogPoint(a, w) == MulG[(a * (key - Lo) + w) % N]

\* A kangaroo on the curve, or at the sentinel, stands on the point its sign
\* and distance name, through doublings, negations and escapes.
Bookkeeping ==
    pc \in {"walk", "join"} => \A g \in Kangaroos :
        OnCurve(pt[g]) \/ pt[g] = Sentinel => pt[g] = LogPoint(sgn[g], dist[g])

\* The first pair whose distances give a key in range ends the search, with no
\* second chance when that key is wrong; so it has to be the right one.  With
\* the negation map it is also when the key lies outside the interval: there is
\* none then.  Without it a key far outside may put a tame and a wild kangaroo
\* on opposite points, whose x is the same.
CandidateIsKey == cand # NoCand /\ (InRange \/ NegMap) => cand = key

\* The search does not go on over a collision it already has: no x is in both
\* tables while the key is in range.
NoMissedCollision ==
    InRange => DOMAIN tameMap \intersect DOMAIN wildMap = {}

\* A distinguished point on which a launch ends is in its herd's table before
\* the next launch, unless the buffer was full.
ReportsReachTables ==
    pc = "launch" /\ round > 0 /\ dpcount <= Cap =>
        \A g \in Kangaroos : Distinguished(px[g]) => px[g].x \in DOMAIN TableOf(g)

=============================================================================
