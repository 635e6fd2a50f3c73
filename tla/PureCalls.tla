------------------------------ MODULE PureCalls ------------------------------
(***************************************************************************)
(* The calls of KernelCalls, and three more of code that keeps no state    *)
(* between calls: the scans of secp256k1_ref.cu and secp256k1_fast.cu, the *)
(* allocator's allocate() and the toy quantum ECDLP.                       *)
(***************************************************************************)
EXTENDS KernelCalls, ShorToy, Allocator

CONSTANTS Words,     \* 2^256: scalars wrap there
          LowWords,  \* 2^64: what a scan reports of a key
          Back,      \* BACK of the fast mode_scan
          Window,    \* WINDOW of the reference mode_scan
          Strays,    \* points that stray threads read from memory, on the curve or not
          StrayLows, \* key values that they read
          Ranges, Prizes, Intensities, \* attributes of the arms
          DPRates,   \* observed rates, one per epoch
          Costs,     \* cost_per_second
          MulCurves, \* curves on which ec_mul is called
          MulScalars

\* Words is beyond the group's order by more than a window, as 2^256 is; a
\* scan has the key in its first batch.
ASSUME PureAssumption ==
    /\ Words \in N + 1 .. 2 * N /\ Words - N > Window /\ LowWords \in 1 .. Words
    /\ Back \in 1 .. Batch - 1 /\ Window \in 1 .. (N - 1) \div 2
    /\ Strays \subseteq [x : Fe, y : Fe] /\ StrayLows \subseteq 0 .. LowWords - 1
    /\ Ranges \subseteq Nat /\ Prizes \subseteq Nat /\ Intensities \subseteq Nat
    /\ DPRates \subseteq Nat /\ Costs \subseteq Nat
    /\ \A cv \in MulCurves : NonSingular(cv)
    /\ MulScalars \subseteq Int

---------------------------------------------------------------------------
(* The scans look for the key behind a compressed point: the hash of it is *)
(* as good as the point.                                                   *)

NotFound == [found |-> FALSE, lane |-> 0, key |-> 0, side |-> 0]
Hit(lane, k, side) == [found |-> TRUE, lane |-> lane, key |-> k, side |-> side]

\* The slots in the order a thread hashes them: the start, then every batch
\* from its last point to its first.
HashOrder ==
    [i \in 1 .. 1 + Steps * Batch |->
        IF i = 1 THEN 0
        ELSE LET s == (i - 2) \div Batch IN (s + 1) * Batch - ((i - 2) % Batch)]
\* What a thread of kfast_scan would report first, if anything; with the
\* negation map a point counts for its mirror key too, and the report names the
\* walk's key, not the mirror.
FirstHit(lane, seed, low, target, neg) ==
    LET points == WalkPoints(seed)
        sides(ki) == {side \in IF neg THEN {0, 1} ELSE {0} :
                        BothEncodings(points[ki])[side + 1] = target}
        hits == {i \in DOMAIN HashOrder : sides(HashOrder[i]) # {}}
        first == CHOOSE i \in hits : \A j \in hits : i <= j
        side == CHOOSE s \in sides(HashOrder[first]) : \A t \in sides(HashOrder[first]) : s <= t
    IN IF hits = {} THEN NotFound
       ELSE Hit(lane, (low + HashOrder[first]) % LowWords, side)

\* What the host makes of a report: it takes it for the planted key's if it
\* names what the host wants, and for a mismatch otherwise.
Verdict(hit, want) ==
    IF ~hit.found THEN "NOT FOUND"
    ELSE IF hit.key = want THEN "FOUND" ELSE "FOUND-BUT-MISMATCH"
Judged(hit, want) == [hit |-> hit, verdict |-> Verdict(hit, want)]

\* Mutant: the scan starts at the key's far side.
ScanStart_Beyond(priv) == (priv + Back) % Words
\* mode_scan's start, with the borrow running up the limbs.
ScanStart(priv) == (priv - Back) % Words

\* mode_scan of secp256k1_fast.cu.  Of its 64 threads the first has a start
\* point; the others take as point and key whatever is behind it in memory.
\* The thread that sets the flag first reports.  The host compares the key
\* reported, of either side, with the key's low word.
ScanCall == \E priv \in 1 .. N - 1, neg \in BOOLEAN :
    LET target == Compressed(MulG[priv])
        own == FirstHit(0, MulG[ScanStart(priv)], ScanStart(priv) % LowWords, target, neg)
    IN \E stray \in Strays, low \in StrayLows :
        LET other == FirstHit(1, stray, low, target, neg)
        IN /\ call' = [op |-> "scan", priv |-> priv, neg |-> neg]
           /\ \E hit \in IF own.found \/ other.found THEN {r \in {own, other} : r.found}
                                                     ELSE {NotFound} :
                out' = Judged(hit, priv % LowWords)

\* mode_scan of secp256k1_ref.cu: a thread per key, and a match reports the
\* whole key.
RefScanCall == \E priv \in 1 .. N - 1 :
    LET base == (priv - Window) % Words
        tried == {(base + idx) % Words : idx \in 0 .. 2 * Window}
        hits == {k \in tried : Compressed(MulG[k]) = Compressed(MulG[priv])}
    IN /\ call' = [op |-> "ref_scan", priv |-> priv]
       /\ \E hit \in IF hits = {} THEN {NotFound} ELSE {Hit(0, k, 0) : k \in hits} :
            out' = Judged(hit, priv)

---------------------------------------------------------------------------
\* An arm of each kind, by name; a kangaroo arm after some epochs of telemetry.
BruteArms(name) ==
    [name : {name}, range_size : Ranges, prize : Prizes, contention : Intensities,
     hazard : Intensities, sweep_rate : {1}]
NewKangaroo(name, bits, contention) ==
    [name |-> name, interval_bits |-> bits, prize |-> 1, contention |-> contention,
     alpha |-> 1, beta |-> 1, dp_yield |-> 1]
KangarooArms(name) ==
    LET fresh == {NewKangaroo(name, bits, x) : bits \in {0, 2}, x \in Intensities}
    IN fresh \union {Update(arm, r) : arm \in fresh, r \in DPRates}

\* No kangaroo arm, one or two.
KangarooSets ==
    {{}} \union {{k3} : k3 \in KangarooArms(3)}
         \union {{k3, k4} : k3 \in KangarooArms(3), k4 \in KangarooArms(4)}

AllocateCall == \E one \in BruteArms(1), two \in BruteArms(2), kang \in KangarooSets,
                   stop \in BOOLEAN, cost \in Costs :
    /\ kang = {} \/ one.hazard = two.hazard
    /\ call' = [op |-> "allocate", brute |-> {one, two}, kang |-> kang, stop |-> stop,
                cost |-> cost]
    /\ out' = Allocate({one, two}, kang, stop, 1, cost)

ToyMulCall == \E cv \in MulCurves, j, k \in MulScalars :
    \E p \in {pt \in (0 .. cv.p - 1) \X (0 .. cv.p - 1) :
                 (pt[2] * pt[2]) % cv.p = (pt[1] * pt[1] * pt[1] + cv.a * pt[1] + cv.b) % cv.p} :
        /\ call' = [op |-> "ec_mul", cv |-> cv, p |-> p, j |-> j, k |-> k]
        /\ out' = EcMul(j + k, p, cv)
\* The simulator may have seen any of the peaks.
ToyCall == \E dTrue \in DOMAIN Targets : \E shots \in SUBSET Peaks[dTrue] :
    /\ shots # {}
    /\ call' = [op |-> "toy", dTrue |-> dTrue, shots |-> shots]
    /\ out' \in ToyAnswers(dTrue, {<<s[2], s[1]>> : s \in shots})

PureNext ==
    \/ Next
    \/ /\ call.op = "none"
       /\ ScanCall \/ RefScanCall \/ AllocateCall \/ ToyMulCall \/ ToyCall

PureSpec == Init /\ [][PureNext]_vars

---------------------------------------------------------------------------
\* A scan finds the key it is given: the reference for every key, also when its
\* window starts below zero; the fast one for keys above BACK (for the
\* others it starts at or below zero and the key is not in it), whatever the
\* stray threads read, in that some thread reports and that a report which is
\* not the key is a stray thread's, or names a k with (n - k) * G = key * G,
\* which the walk may meet before the key and beyond the end of the group.
ScanFindsKey ==
    /\ call.op = "ref_scan" => out = Judged(Hit(0, call.priv, 0), call.priv)
    /\ call.op = "scan" /\ call.priv > Back =>
        /\ out.verdict # "NOT FOUND"
        /\ out.verdict = "FOUND-BUT-MISMATCH" =>
            \/ out.hit.lane # 0
            \/ /\ out.hit.side = 1
               /\ \E k \in {N - call.priv, 2 * N - call.priv} : out.hit.key = k % LowWords

\* Every arm named in an answer, and what makes an arm as good as another or
\* better in all that allocate() looks at.
ArmNamed(name) == CHOOSE arm \in call.brute \union call.kang : arm.name = name
BetterBrute(x, y) ==
    /\ x.range_size <= y.range_size /\ x.contention <= y.contention
    /\ x.hazard <= y.hazard /\ x.prize >= y.prize
    /\ x.range_size < y.range_size \/ x.contention < y.contention \/ x.prize > y.prize
BetterKang(x, y) ==
    /\ x.interval_bits <= y.interval_bits /\ x.contention <= y.contention
    /\ x.alpha * y.beta >= y.alpha * x.beta
    /\ x.interval_bits < y.interval_bits \/ x.contention < y.contention
         \/ x.alpha * y.beta > y.alpha * x.beta
\* allocate() never funds an arm while a better one of its kind is at hand,
\* through stop-loss, index, ties and cross-arm comparison; it funds none after
\* halt(), and fails exactly when an arm has nothing left to sweep.
NeverFundsWorseArm ==
    call.op = "allocate" =>
        /\ call.stop => out = None
        /\ out = Raised <=> ~call.stop /\ \E arm \in call.brute : arm.range_size = 0
        /\ out \notin {None, Raised} =>
            LET chosen == ArmNamed(out)
            IN IF chosen \in call.brute
               THEN \A x \in call.brute : ~BetterBrute(x, chosen)
               ELSE \A x \in call.kang : ~BetterKang(x, chosen)

\* The multiples of a point add up on every curve, for negative scalars and
\* scalars beyond the order; and the toy answers with the secret whichever
\* peaks were measured, as soon as one of them has an invertible y_a, and with
\* an error otherwise.  Its oracle is a permutation.
ToyRecovers ==
    /\ call.op = "ec_mul" =>
        out = EcAdd(EcMul(call.j, call.p, call.cv), EcMul(call.k, call.p, call.cv), call.cv)
    /\ call.op = "toy" =>
        /\ out = IF \E s \in call.shots : s[1] % 2 = 1 THEN [d |-> call.dTrue, ok |-> TRUE]
                                                       ELSE NoAnswer
        /\ \A av, bv \in Indices :
            {OracleImage(call.dTrue, av, bv, ov) : ov \in Indices} =
                {Encode(av, bv, ov) : ov \in Indices}

=============================================================================
