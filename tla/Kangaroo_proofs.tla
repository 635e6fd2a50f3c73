--------------------------- MODULE Kangaroo_proofs ---------------------------
(***************************************************************************)
(* Proofs about kangaroo.cu.                                               *)
(***************************************************************************)
EXTENDS Kangaroo, Numbers_proofs, SequenceTheorems

-----------------------------------------------------------------------------
(* What a distinguished point becomes *)

Reports == {buf[i] : i \in DOMAIN buf}

\* A report of the point of kangaroo g.
Names(r, g, p) == r.x = p.x /\ r.tame = (g \in Tame)

Reported(g) == \E r \in Reports : Names(r, g, pt[g])
Tabled(g) == pt[g].x \in DOMAIN TableOf(g)

\* A kangaroo that has moved in this launch and stands on a distinguished
\* point is in the buffer, unless that was full; in the buffer or in its
\* herd's table while the host joins; in the table when the host is through.
OnItsWay ==
    /\ round \in Nat /\ dpcount \in Nat
    /\ buf \in Seq(Reports)
    /\ left \in [Kangaroos -> 0 .. Steps]
    /\ DOMAIN px = Kangaroos /\ DOMAIN pt = Kangaroos
    /\ pc = "init" => round = 0
    /\ pc = "walk" /\ dpcount <= Cap => \A g \in Kangaroos :
          left[g] < Steps /\ Distinguished(pt[g]) => Reported(g)
    /\ pc \in {"join", "launch"} /\ round > 0 => px = pt
    /\ pc = "join" /\ dpcount <= Cap => \A g \in Kangaroos :
          Distinguished(pt[g]) => Reported(g) \/ Tabled(g)
    /\ pc = "launch" /\ round > 0 /\ dpcount <= Cap => \A g \in Kangaroos :
          Distinguished(pt[g]) => Tabled(g)

LEMMA FoldKeepsX == \A p : Folded(p).x = p.x
BY DEF Folded, Canon, Affine

\* What an entry brings to the buffer.
LEMMA AppendReports ==
    ASSUME buf \in Seq(Reports), NEW r, buf' = Append(buf, r)
    PROVE  buf' \in Seq(Reports') /\ Reports' = Reports \cup {r}
<1>1. buf' \in Seq(Reports \cup {r})
  OBVIOUS
<1>2. Len(buf) \in Nat /\ DOMAIN buf = 1 .. Len(buf) /\ DOMAIN buf' = 1 .. Len(buf) + 1
  OBVIOUS
<1>3. \A i \in 1 .. Len(buf) : buf'[i] = buf[i]
  OBVIOUS
<1>4. buf'[Len(buf) + 1] = r
  OBVIOUS
<1>5. Reports' = Reports \cup {r}
  <2>1. Reports' \subseteq Reports \cup {r}
    BY <1>2, <1>3, <1>4 DEF Reports
  <2>2. \A i \in DOMAIN buf : i \in DOMAIN buf' /\ buf'[i] = buf[i]
    BY <1>2, <1>3
  <2>3. Len(buf) + 1 \in DOMAIN buf'
    BY <1>2
  <2> QED BY <1>4, <2>1, <2>2, <2>3 DEF Reports
<1> QED BY <1>1, <1>5

\* What the host takes from it.
LEMMA TailReports ==
    ASSUME buf \in Seq(Reports), buf # <<>>, buf' = Tail(buf)
    PROVE  buf' \in Seq(Reports') /\ Reports = Reports' \cup {Head(buf)}
<1>1. Len(buf) \in Nat /\ Len(buf) # 0 /\ DOMAIN buf = 1 .. Len(buf)
  OBVIOUS
<1>2. /\ Len(buf') = Len(buf) - 1 /\ DOMAIN buf' = 1 .. Len(buf) - 1
      /\ \A i \in 1 .. Len(buf) - 1 : buf'[i] = buf[i + 1]
  OBVIOUS
<1>3. Head(buf) = buf[1]
  OBVIOUS
<1>4. Reports = Reports' \cup {Head(buf)}
  <2>1. Reports' \subseteq Reports
    BY <1>1, <1>2 DEF Reports
  <2>2. Head(buf) \in Reports
    BY <1>1, <1>3 DEF Reports
  <2>3. ASSUME NEW i \in DOMAIN buf PROVE buf[i] \in Reports' \cup {Head(buf)}
    <3>1. CASE i = 1
      BY <1>3, <3>1
    <3>2. CASE i # 1
      <4>1. i - 1 \in DOMAIN buf' /\ buf'[i - 1] = buf[i]
        BY <1>1, <1>2, <3>2
      <4> QED BY <4>1 DEF Reports
    <3> QED BY <3>1, <3>2
  <2> QED BY <2>1, <2>2, <2>3 DEF Reports
<1>5. buf' \in Seq(Reports')
  <2>1. \A i \in 1 .. Len(buf) - 1 : buf'[i] \in Reports'
    BY <1>2 DEF Reports
  <2>2. buf' \in Seq(Reports)
    OBVIOUS
  <2>3. buf' \in [1 .. Len(buf') -> Reports]
    BY <2>2, LenProperties
  <2>4. buf' \in [1 .. Len(buf) - 1 -> Reports']
    BY <1>2, <2>1, <2>3
  <2>5. Len(buf) - 1 \in Nat
    BY <1>1
  <2> QED BY <2>4, <2>5, SeqDef
<1> QED BY <1>4, <1>5

LEMMA OnItsWayInit == Init => OnItsWay
BY KangarooAssumption DEF Init, OnItsWay, Reports

LEMMA OnItsWayStep ==
    ASSUME OnItsWay, NEW g \in Kangaroos, Step(g)
    PROVE  OnItsWay'
<1>1. PICK R, w, a : pt' = [pt EXCEPT ![g] = Folded(R)] /\ Report(g, R, w, a)
  BY DEF Step
<1>2. /\ pc = "walk" /\ pc' = pc /\ round' = round /\ px' = px /\ left[g] > 0
      /\ build' = build /\ tables' = tables
      /\ left' = [left EXCEPT ![g] = @ - 1]
  BY DEF Step, fixed
<1>3. left' \in [Kangaroos -> 0 .. Steps]
  BY <1>2, KangarooAssumption DEF OnItsWay
<1>4. DOMAIN pt' = Kangaroos
  BY <1>1 DEF OnItsWay
<1>5. pt'[g].x = R.x /\ \A h \in Kangaroos \ {g} : pt'[h] = pt[h] /\ left'[h] = left[h]
  BY <1>1, <1>2, FoldKeepsX DEF OnItsWay
<1>6. CASE Distinguished(R)
  <2> DEFINE r == [x |-> R.x, w |-> w, a |-> a, tame |-> g \in Tame]
  <2>1. dpcount' = dpcount + 1
    BY <1>1, <1>6 DEF Report
  <2>2. dpcount' \in Nat
    BY <2>1 DEF OnItsWay
  <2>3. CASE dpcount < Cap
    <3>1. buf' = Append(buf, r)
      BY <1>1, <1>6, <2>3 DEF Report
    <3>2. buf' \in Seq(Reports') /\ Reports' = Reports \cup {r}
      BY <3>1, AppendReports DEF OnItsWay
    <3>3. Names(r, g, pt'[g])
      BY <1>5 DEF Names
    <3>4. dpcount <= Cap
      BY <2>3, KangarooAssumption DEF OnItsWay
    <3>5. \A h \in Kangaroos : left'[h] < Steps /\ Distinguished(pt'[h])
            => \E q \in Reports' : Names(q, h, pt'[h])
      <4>1. ASSUME NEW h \in Kangaroos \ {g}, left'[h] < Steps, Distinguished(pt'[h])
            PROVE  \E q \in Reports' : Names(q, h, pt'[h])
        BY <1>2, <1>5, <3>2, <3>4, <4>1 DEF OnItsWay, Reported
      <4> QED BY <3>2, <3>3, <4>1
    <3> HIDE DEF r
    <3> QED BY <1>2, <1>3, <1>4, <2>2, <3>2, <3>5 DEF OnItsWay, Reported
  <2>4. CASE ~(dpcount < Cap)
    <3>1. buf' = buf /\ Reports' = Reports
      BY <1>1, <1>6, <2>4 DEF Report, Reports
    <3>2. ~(dpcount' <= Cap)
      BY <2>1, <2>4, KangarooAssumption DEF OnItsWay
    <3> QED BY <1>2, <1>3, <1>4, <2>2, <3>1, <3>2 DEF OnItsWay
  <2> QED BY <2>3, <2>4
<1>7. CASE ~Distinguished(R)
  <2>1. dpcount' = dpcount /\ buf' = buf /\ Reports' = Reports
    BY <1>1, <1>7 DEF Report, Reports
  <2>2. ~Distinguished(pt'[g])
    BY <1>5, <1>7 DEF Distinguished, Low
  <2>3. dpcount <= Cap => \A h \in Kangaroos :
            left'[h] < Steps /\ Distinguished(pt'[h])
              => \E q \in Reports' : Names(q, h, pt'[h])
    BY <1>2, <1>5, <2>1, <2>2 DEF OnItsWay, Reported
  <2> QED BY <1>2, <1>3, <1>4, <2>1, <2>3 DEF OnItsWay, Reported
<1> QED BY <1>6, <1>7

LEMMA KeepAdds == \A m, r : DOMAIN Keep(m, r) = DOMAIN m \cup {r.x}
BY DEF Keep

LEMMA OnItsWayJoin ==
    ASSUME OnItsWay, Join
    PROVE  OnItsWay'
<1> DEFINE r == Head(buf)
<1>1. /\ pc = "join" /\ buf # <<>> /\ buf' = Tail(buf) /\ px' = px /\ pt' = pt
      /\ round' = round /\ dpcount' = dpcount /\ left' = left
      /\ pc' \in {"join", "verify"}
  BY DEF Join, herd
<1>2. buf' \in Seq(Reports') /\ Reports = Reports' \cup {r}
  BY <1>1, TailReports DEF OnItsWay
<1>3. ASSUME pc' = "join", NEW g \in Kangaroos, Reported(g) \/ Tabled(g)
      PROVE  (\E q \in Reports' : Names(q, g, pt[g])) \/ pt[g].x \in DOMAIN (TableOf(g)')
  <2>1. /\ tameMap' = IF r.tame THEN Keep(tameMap, r) ELSE tameMap
        /\ wildMap' = IF r.tame THEN wildMap ELSE Keep(wildMap, r)
    BY <1>1, <1>3 DEF Join
  <2>2. DOMAIN tameMap \subseteq DOMAIN tameMap' /\ DOMAIN wildMap \subseteq DOMAIN wildMap'
    BY <2>1, KeepAdds
  <2>3. CASE Tabled(g)
    BY <2>2, <2>3 DEF Tabled, TableOf
  <2>4. CASE Names(r, g, pt[g])
    <3>1. r.tame = (g \in Tame) /\ r.x = pt[g].x
      BY <2>4 DEF Names
    <3>2. CASE g \in Tame
      <4>1. DOMAIN tameMap' = DOMAIN tameMap \cup {r.x}
        BY <2>1, <3>1, <3>2, KeepAdds
      <4> QED BY <3>1, <3>2, <4>1 DEF TableOf
    <3>3. CASE g \notin Tame
      <4>1. DOMAIN wildMap' = DOMAIN wildMap \cup {r.x}
        BY <2>1, <3>1, <3>3, KeepAdds
      <4> QED BY <3>1, <3>3, <4>1 DEF TableOf
    <3> QED BY <3>2, <3>3
  <2> QED BY <1>2, <1>3, <2>3, <2>4 DEF Reported
<1>4. pc' = "join" /\ dpcount' <= Cap => \A g \in Kangaroos :
          Distinguished(pt'[g]) => Reported(g)' \/ Tabled(g)'
  BY <1>1, <1>3 DEF OnItsWay, Reported, Tabled
<1> QED BY <1>1, <1>2, <1>4 DEF OnItsWay

LEMMA OnItsWayNext ==
    ASSUME OnItsWay, [Next]_vars
    PROVE  OnItsWay'
<1>1. CASE ShortCircuit
  BY <1>1 DEF OnItsWay, ShortCircuit, herd, tables, Reports, Reported, Tabled, TableOf
<1>2. CASE Setup
  BY <1>2 DEF OnItsWay, Setup, tables, Reports, Reported, Tabled, TableOf
<1>3. CASE Launch
  <2>1. /\ pc' = "walk" /\ buf' = <<>> /\ pt' = px /\ dpcount' = 0 /\ round' = round
        /\ left' = [g \in Kangaroos |-> Steps]
    BY <1>3 DEF Launch
  <2>2. DOMAIN px = Kangaroos
    BY DEF OnItsWay
  <2>3. buf' \in Seq(Reports')
    BY <2>1
  <2>4. left' \in [Kangaroos -> 0 .. Steps] /\ \A g \in Kangaroos : ~(left'[g] < Steps)
    BY <2>1, KangarooAssumption
  <2>5. px' = px /\ round \in Nat
    BY <1>3 DEF Launch, OnItsWay
  <2> QED BY <2>1, <2>2, <2>3, <2>4, <2>5 DEF OnItsWay
<1>4. CASE OutOfBudget
  BY <1>4 DEF OnItsWay, OutOfBudget, herd, tables, Reports, Reported, Tabled, TableOf
<1>5. CASE \E g \in Kangaroos : Step(g)
  BY <1>5, OnItsWayStep
<1>6. CASE Synchronize
  <2>1. /\ pc = "walk" /\ pc' = "join" /\ buf' = buf /\ pt' = pt /\ px' = pt
        /\ dpcount' = dpcount /\ round' = round + 1 /\ left' = left /\ tables' = tables
        /\ \A g \in Kangaroos : left[g] = 0
    BY <1>6 DEF Synchronize
  <2>2. \A g \in Kangaroos : left[g] < Steps
    BY <2>1, KangarooAssumption
  <2>3. Reports' = Reports
    BY <2>1 DEF Reports
  <2> QED BY <2>1, <2>2, <2>3 DEF OnItsWay, Reported
<1>7. CASE Join
  BY <1>7, OnItsWayJoin
<1>8. CASE NextRound
  <2>1. /\ pc = "join" /\ pc' = "launch" /\ buf = <<>> /\ UNCHANGED <<round, px, pt, left, dpcount, buf, tameMap, wildMap>>
    BY <1>8 DEF NextRound, herd, tables
  <2>2. Reports = {} /\ Reports' = {}
    BY <2>1 DEF Reports
  <2>3. \A g \in Kangaroos : ~Reported(g) /\ (Tabled(g)' <=> Tabled(g))
    BY <2>1, <2>2 DEF Reported, Tabled, TableOf
  <2> QED BY <2>1, <2>2, <2>3 DEF OnItsWay
<1>9. CASE Verify
  BY <1>9 DEF OnItsWay, Verify, herd, tables, Reports, Reported, Tabled, TableOf
<1>10. CASE UNCHANGED vars
  BY <1>10 DEF OnItsWay, vars, Reports, Reported, Tabled, TableOf
<1> QED BY <1>1, <1>2, <1>3, <1>4, <1>5, <1>6, <1>7, <1>8, <1>9, <1>10 DEF Next

\* ReportsReachTables: a distinguished point on which a launch ends gets
\* through the report buffer into its herd's table before the next launch,
\* unless the buffer was full.
THEOREM ReportsArrive == Spec => []ReportsReachTables
<1>1. OnItsWay => ReportsReachTables
  BY DEF OnItsWay, ReportsReachTables, Tabled
<1> QED BY <1>1, OnItsWayInit, OnItsWayNext, PTL DEF Spec

-----------------------------------------------------------------------------
(* What signs and distances say *)

\* One value for each kangaroo.
IsHerd(f) == f = [g \in Kangaroos |-> f[g]]

DPrime == key - Lo
LogOf(a, w) == (a * DPrime + w) % N

\* The signs a tame and a wild kangaroo may have, and a sign and a distance of
\* at most r, which the plain build only ever adds to.
Signs(tame) == IF tame THEN {0} ELSE IF NegMap THEN {1, -1} ELSE {1}
Within(tame, a, w, r) ==
    /\ a \in Signs(tame)
    /\ w \in Int /\ -r <= w /\ w <= r
    /\ ~NegMap => w >= 0

\* The point of a sign and a distance, folded if the build folds.
Stands(a, w, p) ==
    /\ p = MulG[LogOf(a, w)]
    /\ NegMap => ~FeIsOdd(p.y)

\* How far the start points and n steps lead at most.
MaxJump == CHOOSE j \in 1 .. W :
    /\ \E i \in DOMAIN JumpScalars : JumpScalars[i] = j
    /\ \A i \in DOMAIN JumpScalars : JumpScalars[i] <= j
Reach(n) == W + Herd + n * MaxJump
Far == Reach(Steps * Rounds)

\* An entry of the buffer or of a table: the x of a point other than infinity
\* with this sign and distance.
Entry(tame, a, w, x) ==
    /\ Within(tame, a, w, Far)
    /\ LogOf(a, w) # 0
    /\ Stands(a, w, MulG[LogOf(a, w)]) /\ x = MulG[LogOf(a, w)].x

\* Where a kangaroo is, and the steps it has taken.
Place(g) == IF pc = "walk" THEN pt[g] ELSE px[g]
Taken(g) == IF pc = "walk" THEN round * Steps + (Steps - left[g]) ELSE round * Steps

Herding == pc \in {"launch", "walk", "join"}

\* No kangaroo has got to the point at infinity, which (0,0) stands for but
\* which the affine formulas take for a point like any other.
OffInfinity == Herding => \A g \in Kangaroos : Place(g) # Sentinel

KangarooType ==
    /\ build \in Builds /\ key \in Keys
    /\ pc \in {"init", "launch", "walk", "join", "verify", "done"}
    /\ round \in 0 .. Rounds /\ (pc = "walk" => round < Rounds)
    /\ left \in [Kangaroos -> 0 .. Steps]
    /\ IsHerd(px) /\ IsHerd(pt) /\ IsHerd(dist) /\ IsHerd(sgn)
    /\ buf \in Seq(Reports)
    /\ pc = "init" => round = 0
    /\ pc = "join" => px = pt

HerdBacked ==
    Herding => \A g \in Kangaroos :
        /\ Within(g \in Tame, sgn[g], dist[g], Reach(Taken(g)))
        /\ Stands(sgn[g], dist[g], Place(g))

EntriesBacked ==
    /\ \A r \in Reports : Entry(r.tame, r.a, r.w, r.x)
    /\ \A x \in DOMAIN tameMap : Entry(TRUE, tameMap[x].a, tameMap[x].w, x)
    /\ \A x \in DOMAIN wildMap : Entry(FALSE, wildMap[x].a, wildMap[x].w, x)

SearchInv ==
    /\ KangarooType /\ HerdBacked /\ EntriesBacked
    /\ CandidateIsKey /\ NoMissedCollision

LEMMA Constants ==
    /\ N \in Nat \ {0} /\ W \in Nat \ {0} /\ Herd \in Nat \ {0} /\ Lo \in 0 .. N - 1
    /\ Steps \in Nat \ {0} /\ Rounds \in Nat /\ Cap \in Nat
    /\ K \in Nat \ {0} /\ K % 2 = 0 /\ Limb \in Nat \ {0}
    /\ \A i \in 0 .. K - 1 : JumpScalars[i + 1] \in 1 .. W
<1>1. /\ N \in Nat \ {0} /\ W \in Nat \ {0} /\ Herd \in Nat \ {0} /\ Lo \in 0 .. N - 1
      /\ Steps \in Nat \ {0} /\ Rounds \in Nat /\ Cap \in Nat /\ Limb \in Nat \ {0}
  BY CurveAssumption, KangarooAssumption
<1>2. JumpScalars \in Seq(1 .. W) /\ JumpScalars # <<>>
  BY KangarooAssumption
<1>3. K \in Nat \ {0} /\ K % 2 = 0 /\ \A i \in 0 .. K - 1 : JumpScalars[i + 1] \in 1 .. W
  BY SMTT(30), <1>2, KangarooAssumption DEF K
<1> QED BY <1>1, <1>3

\* There is a longest jump.
LEMMA MaxJumpIs ==
    /\ MaxJump \in 1 .. W
    /\ \A i \in 0 .. K - 1 : JumpScalars[i + 1] \in 1 .. MaxJump
    /\ \E i \in DOMAIN JumpScalars : JumpScalars[i] = MaxJump
<1>1. JumpScalars \in Seq(1 .. W) /\ JumpScalars # <<>> /\ W \in Nat
  BY KangarooAssumption
<1>2. PICK n \in Nat \ {0} : DOMAIN JumpScalars = 1 .. n /\ n = K
  BY <1>1 DEF K
<1>3. \A i \in 1 .. n : JumpScalars[i] \in 1 .. W
  BY <1>1, <1>2
<1>4. PICK i \in 1 .. n : \A k \in 1 .. n : JumpScalars[k] <= JumpScalars[i]
  <2>1. \A k \in 1 .. n : JumpScalars[k] \in 0 .. W
    BY <1>3
  <2> QED BY <1>1, <1>2, <2>1, LargestExists
<1>5. /\ MaxJump \in 1 .. W
      /\ \E k \in DOMAIN JumpScalars : JumpScalars[k] = MaxJump
      /\ \A k \in DOMAIN JumpScalars : JumpScalars[k] <= MaxJump
  <2>1. \E m \in 1 .. W :
           /\ \E k \in DOMAIN JumpScalars : JumpScalars[k] = m
           /\ \A k \in DOMAIN JumpScalars : JumpScalars[k] <= m
    BY <1>2, <1>3, <1>4
  <2> QED BY <2>1 DEF MaxJump
<1>6. \A k \in 0 .. K - 1 : k + 1 \in 1 .. n
  BY <1>2
<1> QED BY <1>2, <1>3, <1>5, <1>6

\* The bounds: a step reaches further by one jump at most, and never so far
\* that two distances and a key of the interval get to the group's order.
LEMMA ReachIs ==
    /\ \A n \in Nat : Reach(n) \in Nat /\ Reach(n) >= W + Herd /\ Reach(n + 1) = Reach(n) + MaxJump
    /\ \A n, m \in Nat : n <= m => Reach(n) <= Reach(m)
    /\ Far \in Nat /\ 2 * Far + 2 * W < N
    /\ Steps * Rounds \in Nat
<1>1. MaxJump \in Nat /\ W \in Nat /\ Herd \in Nat /\ N \in Nat
  BY MaxJumpIs, Constants
<1>2. \A n \in Nat : n * MaxJump \in Nat /\ (n + 1) * MaxJump = n * MaxJump + MaxJump
  BY <1>1
<1>3. ASSUME NEW n \in Nat
      PROVE  Reach(n) \in Nat /\ Reach(n) >= W + Herd /\ Reach(n + 1) = Reach(n) + MaxJump
  <2>1. PICK q \in Nat : q = n * MaxJump /\ (n + 1) * MaxJump = q + MaxJump
    BY <1>2
  <2> QED BY <1>1, <2>1 DEF Reach
<1>4. ASSUME NEW n \in Nat, NEW m \in Nat, n <= m
      PROVE  Reach(n) <= Reach(m)
  <2>1. PICK q \in Nat : q = n * MaxJump
    BY <1>2
  <2>2. PICK r \in Nat : r = m * MaxJump
    BY <1>2
  <2>3. q <= r
    BY <1>1, <1>4, <2>1, <2>2, TimesLeq
  <2> QED BY <1>1, <2>1, <2>2, <2>3 DEF Reach
<1>5. PICK t \in Nat : t = Steps * Rounds
  BY Constants
<1>6. PICK q \in Nat : q = t * MaxJump
  BY <1>2
<1>7. 2 * (2 * W + Herd + q) < N
  <2>1. PICK i \in DOMAIN JumpScalars : JumpScalars[i] = MaxJump
    BY MaxJumpIs
  <2>2. 2 * (2 * W + Herd + Steps * Rounds * JumpScalars[i]) < N
    BY KangarooAssumption
  <2>3. Steps * Rounds * JumpScalars[i] = q
    BY <1>5, <1>6, <2>1
  <2> QED BY <2>2, <2>3
<1>8. Far = W + Herd + q
  BY <1>5, <1>6 DEF Far, Reach
<1>9. Far \in Nat /\ 2 * Far + 2 * W < N
  BY <1>1, <1>7, <1>8
<1> QED BY <1>3, <1>4, <1>5, <1>9

-----------------------------------------------------------------------------
(* Logarithms *)

LEMMA KeyType ==
    ASSUME KangarooType
    PROVE  /\ key \in 1 .. N - 1 /\ DPrime \in Int
           /\ NegMap \in BOOLEAN
<1>1. key \in 1 .. N - 1
  BY KangarooAssumption DEF KangarooType
<1> QED BY <1>1, Constants DEF DPrime, NegMap

LEMMA SignType ==
    ASSUME NEW tame, NEW a \in Signs(tame)
    PROVE  a \in {0, 1, -1} /\ -a \in {0, 1, -1} /\ (NegMap => -a \in Signs(tame))
BY DEF Signs

LEMMA LogType ==
    ASSUME KangarooType, NEW a \in {0, 1, -1}, NEW w \in Int
    PROVE  a * DPrime \in Int /\ LogOf(a, w) \in 0 .. N - 1
<1>1. PICK d \in Int : d = DPrime
  BY KeyType
<1>2. a * d \in Int
  BY <1>1
<1>3. a * d + w \in Int
  BY <1>2
<1>4. (a * d + w) % N \in 0 .. N - 1
  BY <1>3, IntDivMod, Constants
<1> QED BY <1>1, <1>2, <1>4 DEF LogOf

LEMMA LogAdd ==
    ASSUME KangarooType, NEW a \in {0, 1, -1}, NEW w \in Int, NEW s \in Int
    PROVE  LogOf(a, w + s) = (LogOf(a, w) + s) % N
<1>1. PICK q \in Int : q = a * DPrime
  BY LogType
<1>2. (((q + w) % N) + s) % N = ((q + w) + s) % N
  <2>1. q + w \in Int
    OBVIOUS
  <2> QED BY <2>1, Constants, ModShift
<1>3. q + (w + s) = (q + w) + s
  OBVIOUS
<1> QED BY <1>1, <1>2, <1>3 DEF LogOf

LEMMA LogNegate ==
    ASSUME KangarooType, NEW a \in {0, 1, -1}, NEW w \in Int, LogOf(a, w) # 0
    PROVE  LogOf(-a, -w) = N - LogOf(a, w)
<1>1. PICK q \in Int : q = a * DPrime
  BY LogType
<1>2. (-a) * DPrime = -q
  <2>1. PICK d \in Int : d = DPrime
    BY KeyType
  <2>2. (-a) * d = -(a * d)
    OBVIOUS
  <2> QED BY <1>1, <2>1, <2>2
<1>3. q + w \in Int /\ (-q) + (-w) = -(q + w)
  OBVIOUS
<1>4. (q + w) % N # 0
  BY <1>1 DEF LogOf
<1>5. (-(q + w)) % N = N - ((q + w) % N)
  BY <1>3, <1>4, Constants, ModNegate
<1> QED BY <1>1, <1>2, <1>3, <1>5 DEF LogOf

\* A number that is a multiple of G with its parity folded away.
LEMMA FoldStands ==
    ASSUME KangarooType, NEW tame, NEW r \in Nat, NEW a, NEW w, NEW p,
           a \in Signs(tame), w \in Int, -r <= w, w <= r, ~NegMap => w >= 0,
           p = MulG[LogOf(a, w)]
    PROVE  /\ Within(tame, Signed(p, a), Signed(p, w), r)
           /\ Stands(Signed(p, a), Signed(p, w), Folded(p))
<1>1. a \in {0, 1, -1} /\ -a \in {0, 1, -1} /\ (NegMap => -a \in Signs(tame))
  BY SignType
<1>2. LogOf(a, w) \in 0 .. N - 1
  BY <1>1, LogType
<1>3. CASE Flips(p)
  <2>1. NegMap /\ FeIsOdd(p.y)
    BY <1>3 DEF Flips
  <2>2. LogOf(a, w) # 0
    <3>1. MulG[0] = Sentinel
      BY GroupAssumption DEF GroupLaws
    <3>2. ~FeIsOdd(Sentinel.y)
      BY DEF Sentinel, Affine, FeIsOdd
    <3> QED BY <2>1, <3>1, <3>2
  <2>3. PICK l \in 1 .. N - 1 : l = LogOf(a, w)
    BY <1>2, <2>2, Constants
  <2>4. Canon(p) = MulG[N - l] /\ ~FeIsOdd(MulG[N - l].y)
    BY <2>1, <2>3, GroupAssumption DEF GroupLaws
  <2>5. LogOf(-a, -w) = N - l
    BY <1>1, <2>2, <2>3, LogNegate
  <2>6. Signed(p, a) = -a /\ Signed(p, w) = -w /\ Folded(p) = Canon(p)
    BY <1>3, <2>1 DEF Signed, Folded
  <2>7. Within(tame, -a, -w, r)
    BY <1>1, <2>1 DEF Within
  <2>8. Stands(-a, -w, Folded(p))
    BY <2>4, <2>5, <2>6 DEF Stands
  <2> QED BY <2>6, <2>7, <2>8
<1>4. CASE ~Flips(p)
  <2>1. Signed(p, a) = a /\ Signed(p, w) = w
    BY <1>4 DEF Signed
  <2>2. Folded(p) = p /\ (NegMap => ~FeIsOdd(p.y))
    BY <1>4 DEF Folded, Flips, Canon
  <2>3. Within(tame, a, w, r)
    BY DEF Within
  <2>4. Stands(a, w, p)
    BY <2>2 DEF Stands
  <2> QED BY <2>1, <2>2, <2>3, <2>4
<1> QED BY <1>3, <1>4

-----------------------------------------------------------------------------
(* Two entries with one x *)

LEMMA KeyOf ==
    ASSUME KangarooType
    PROVE  /\ -N < DPrime /\ DPrime < N
           /\ InRange <=> DPrime \in 0 .. W
           /\ key = Lo + DPrime
BY KeyType, Constants DEF DPrime, InRange

LEMMA XsTellApart ==
    \A j, k \in 1 .. N - 1 : MulG[j].x = MulG[k].x => k = j \/ k = N - j
BY GroupAssumption DEF GroupLaws

\* A tame entry t and a wild one w with one x.
Meet(t, w, x) == Entry(TRUE, t.a, t.w, x) /\ Entry(FALSE, w.a, w.w, x)

\* They stand for one point, not for opposite ones: a folded point and its negative have different parities, and without
\* the folding no two distances and a key of the interval come up to the order.
LEMMA SamePoint ==
    ASSUME KangarooType, InRange \/ NegMap,
           NEW x, NEW t, NEW w, Meet(t, w, x)
    PROVE  LogOf(w.a, w.w) = LogOf(t.a, t.w)
<1>0. PICK ta, tw, wa, ww :
          /\ ta = t.a /\ tw = t.w /\ wa = w.a /\ ww = w.w
          /\ Entry(TRUE, ta, tw, x) /\ Entry(FALSE, wa, ww, x)
  BY DEF Meet
<1>1. ta = 0 /\ tw \in Int /\ wa \in {1, -1} /\ ww \in Int
  BY <1>0 DEF Entry, Within, Signs
<1>2. LogOf(ta, tw) = tw % N
  <2>1. PICK d \in Int : d = DPrime
    BY KeyType
  <2>2. 0 * d + tw = tw
    BY <1>1
  <2> QED BY <1>1, <2>1, <2>2 DEF LogOf
<1>3. PICK l \in 1 .. N - 1 : l = tw % N
  <2>1. LogOf(ta, tw) \in 0 .. N - 1 /\ LogOf(ta, tw) # 0
    BY <1>0, <1>1, LogType DEF Entry
  <2> QED BY <1>2, <2>1, Constants
<1>4. PICK m \in 1 .. N - 1 : m = LogOf(wa, ww)
  <2>1. LogOf(wa, ww) \in 0 .. N - 1 /\ LogOf(wa, ww) # 0
    BY <1>0, <1>1, LogType DEF Entry
  <2> QED BY <2>1, Constants
<1>5. x = MulG[l].x /\ x = MulG[m].x
  BY <1>0, <1>2, <1>3, <1>4 DEF Entry
<1>6. m = l \/ m = N - l
  BY <1>5, XsTellApart
<1>7. ASSUME m = N - l PROVE m = l
  <2>1. CASE NegMap
    <3>1. ~FeIsOdd(MulG[l].y) /\ ~FeIsOdd(MulG[m].y)
      BY <1>0, <1>2, <1>3, <1>4, <2>1 DEF Entry, Stands
    <3>2. FeIsOdd(MulG[N - l].y) <=> ~FeIsOdd(MulG[l].y)
      BY GroupAssumption DEF GroupLaws
    <3> QED BY <1>7, <3>1, <3>2
  <2>2. CASE ~NegMap
    <3>1. wa = 1 /\ ww >= 0 /\ tw >= 0 /\ ww <= Far /\ tw <= Far
      BY <1>0, <2>2 DEF Entry, Within, Signs
    <3>2. PICK d \in 0 .. W : d = DPrime
      BY <2>2, KeyOf
    <3>3. m = (d + ww) % N
      <4>1. 1 * d = d
        OBVIOUS
      <4> QED BY <1>4, <3>1, <3>2, <4>1 DEF LogOf
    <3>4. d + ww \in Int /\ (d + ww) % N = N - (tw % N)
      BY <1>1, <1>3, <1>7, <3>3
    <3>5. (tw + (d + ww)) % N = 0
      BY <1>1, <3>4, Constants, ModOpposite
    <3>6. tw + (d + ww) \in 0 .. N - 1
      BY <1>1, <3>1, <3>2, ReachIs, Constants
    <3>7. tw + (d + ww) = 0
      BY <3>5, <3>6, Constants, ModSmall
    <3>8. tw = 0
      BY <1>1, <3>1, <3>2, <3>7, Constants
    <3>9. tw % N = 0
      BY <3>8, Constants, ModSmall
    <3> QED BY <1>3, <3>9
  <2> QED BY <2>1, <2>2
<1> QED BY <1>0, <1>2, <1>3, <1>4, <1>6, <1>7

\* try_pair on such a pair finds the key, if it finds one, and it does if the
\* key is in the interval.
LEMMA PairIsKey ==
    ASSUME KangarooType, InRange \/ NegMap,
           NEW x, NEW t, NEW w, Meet(t, w, x)
    PROVE  TryPair(t, w) \in {NoCand, key} /\ (InRange => TryPair(t, w) = key)
<1>1. /\ t.a = 0 /\ t.w \in Int /\ -Far <= t.w /\ t.w <= Far
      /\ w.a \in {1, -1} /\ w.w \in Int /\ -Far <= w.w /\ w.w <= Far
  BY DEF Meet, Entry, Within, Signs
<1>2. PICK e \in Int : e = DPrime
  BY KeyType
<1>3. (w.a * e + w.w) % N = t.w % N
  <2>1. LogOf(w.a, w.w) = LogOf(t.a, t.w)
    BY SamePoint
  <2>2. 0 * e + t.w = t.w
    BY <1>1
  <2> QED BY <1>1, <1>2, <2>1, <2>2 DEF LogOf
<1>4. Far \in Nat /\ W \in Nat /\ N \in Nat \ {0} /\ 2 * Far + 2 * W < N
  BY ReachIs, Constants
<1> DEFINE da == t.a - w.a
           dprimes == {d \in 0 .. W : da * d = w.w - t.w}
\* What d has to be: w.a * d + w.w = t.w.
<1>5. \A d \in Int : da * d = w.w - t.w <=> w.a * d + w.w = t.w
  <2>1. CASE w.a = 1
    <3>1. da = -1
      BY <1>1, <2>1
    <3> HIDE DEF da
    <3>2. \A d \in Int : da * d = -d /\ w.a * d = d
      BY <2>1, <3>1
    <3> QED BY <1>1, <3>2
  <2>2. CASE w.a = -1
    <3>1. da = 1
      BY <1>1, <2>2
    <3> HIDE DEF da
    <3>2. \A d \in Int : da * d = d /\ w.a * d = -d
      BY <2>2, <3>1
    <3> QED BY <1>1, <3>2
  <2> QED BY <1>1, <2>1, <2>2
<1>6. da # 0
  BY <1>1
<1>7. ASSUME NEW d \in dprimes PROVE Lo + d = key
  <2>1. d \in 0 .. W /\ w.a * d + w.w = t.w
    BY <1>5, <1>4
  <2>2. (w.a * e + w.w) % N = (w.a * d + w.w) % N
    BY <1>3, <2>1
  <2>3. e % N = d % N
    <3>1. CASE w.a = 1
      <4>1. (e + w.w) % N = (d + w.w) % N
        <5>1. 1 * e = e /\ 1 * d = d
          BY <2>1
        <5> QED BY <2>2, <3>1, <5>1
      <4>2. e + w.w \in Int /\ d + w.w \in Int /\ -w.w \in Int
        BY <1>1, <2>1
      <4>3. (((e + w.w) % N) + (-w.w)) % N = ((e + w.w) + (-w.w)) % N
        BY <1>4, <4>2, ModShift
      <4>4. (((d + w.w) % N) + (-w.w)) % N = ((d + w.w) + (-w.w)) % N
        BY <1>4, <4>2, ModShift
      <4>5. (e + w.w) + (-w.w) = e /\ (d + w.w) + (-w.w) = d
        BY <1>1, <2>1
      <4> QED BY <4>1, <4>3, <4>4, <4>5
    <3>2. CASE w.a = -1
      <4>1. (w.w - e) % N = (w.w - d) % N
        <5>1. (-1) * e + w.w = w.w - e /\ (-1) * d + w.w = w.w - d
          BY <1>1, <2>1
        <5> QED BY <2>2, <3>2, <5>1
      <4>2. w.w - e \in Int /\ w.w - d \in Int /\ e + d - w.w \in Int
        BY <1>1, <2>1
      <4>3. (((w.w - e) % N) + (e + d - w.w)) % N = ((w.w - e) + (e + d - w.w)) % N
        BY <1>4, <4>2, ModShift
      <4>4. (((w.w - d) % N) + (e + d - w.w)) % N = ((w.w - d) + (e + d - w.w)) % N
        BY <1>4, <4>2, ModShift
      <4>5. (w.w - e) + (e + d - w.w) = d /\ (w.w - d) + (e + d - w.w) = e
        BY <1>1, <2>1
      <4> QED BY <4>1, <4>3, <4>4, <4>5
    <3> QED BY <1>1, <3>1, <3>2
  \* As residues of the key and of Lo + d, which are both below N.
  <2>4. ((e % N) + Lo) % N = (e + Lo) % N /\ ((d % N) + Lo) % N = (d + Lo) % N
    <3>1. N \in Nat \ {0} /\ Lo \in Int /\ d \in Int
      BY <1>4, <2>1, Constants
    <3>2. ((e % N) + Lo) % N = (e + Lo) % N
      BY <3>1, ModShift
    <3>3. ((d % N) + Lo) % N = (d + Lo) % N
      BY <3>1, ModShift
    <3> QED BY <3>2, <3>3
  <2>5. (e + Lo) % N = (d + Lo) % N
    BY <2>3, <2>4
  <2>6. e + Lo \in 0 .. N - 1
    BY <1>2, KeyOf, KeyType, Constants
  <2>7. d + Lo \in 0 .. N - 1
    BY <2>1, KangarooAssumption, CurveAssumption
  <2>8. e + Lo = d + Lo
    <3>1. (e + Lo) % N = e + Lo /\ (d + Lo) % N = d + Lo
      BY <1>4, <2>6, <2>7, ModSmall
    <3> QED BY <2>5, <3>1
  <2> QED BY <1>2, <2>1, <2>8, KeyOf, Constants
<1>8. ASSUME InRange PROVE e \in dprimes
  <2>1. e \in 0 .. W
    BY <1>2, <1>8, KeyOf
  <2>2. PICK q \in Int : q = w.a * e /\ (q = e \/ q = -e)
    BY <1>1, <1>2
  <2>3. q + w.w - t.w < N /\ t.w - (q + w.w) < N /\ q + w.w \in Int
    BY <1>1, <1>4, <2>1, <2>2
  <2>4. (q + w.w) % N = t.w % N
    BY <1>3, <2>2
  <2>5. q + w.w = t.w
    BY <1>1, <1>4, <2>3, <2>4, ModEqual
  <2> QED BY <1>5, <2>1, <2>2, <2>5
<1>9. TryPair(t, w) = IF dprimes # {} THEN Lo + CHOOSE d \in dprimes : TRUE ELSE NoCand
  BY <1>6 DEF TryPair
<1> HIDE DEF dprimes
<1> QED BY <1>7, <1>8, <1>9

-----------------------------------------------------------------------------
(* The steps of the search *)

LEMMA FixedMeaning ==
    ASSUME UNCHANGED fixed
    PROVE  /\ key' = key /\ build' = build /\ (NegMap' <=> NegMap) /\ (InRange' <=> InRange)
           /\ \A tame, a, w, x : Entry(tame, a, w, x)' <=> Entry(tame, a, w, x)
           /\ \A tame, a, w, r : Within(tame, a, w, r)' <=> Within(tame, a, w, r)
           /\ \A a, w, q : Stands(a, w, q)' <=> Stands(a, w, q)
<1>1. key' = key /\ build' = build
  BY DEF fixed
<1>2. (NegMap' <=> NegMap) /\ (InRange' <=> InRange)
  BY <1>1 DEF NegMap, InRange
<1>3. \A a, w : LogOf(a, w)' = LogOf(a, w)
  BY <1>1 DEF LogOf, DPrime
<1>4. \A tame : Signs(tame)' = Signs(tame)
  BY <1>1 DEF Signs, NegMap
<1>5. \A tame, a, w, r : Within(tame, a, w, r)' <=> Within(tame, a, w, r)
  BY <1>2, <1>4 DEF Within
<1>6. \A a, w, q : Stands(a, w, q)' <=> Stands(a, w, q)
  BY <1>2, <1>3 DEF Stands
<1>7. \A tame, a, w, x : Entry(tame, a, w, x)' <=> Entry(tame, a, w, x)
  <2> SUFFICES ASSUME NEW tame, NEW a, NEW w, NEW x
               PROVE  Entry(tame, a, w, x)' <=> Entry(tame, a, w, x)
    OBVIOUS
  <2>1. LogOf(a, w)' = LogOf(a, w)
    BY <1>3
  <2>2. Within(tame, a, w, Far)' <=> Within(tame, a, w, Far)
    BY <1>5
  <2>3. Stands(a, w, MulG[LogOf(a, w)])' <=> Stands(a, w, MulG[LogOf(a, w)])
    BY <1>2, <2>1 DEF Stands
  <2> QED BY <2>1, <2>2, <2>3 DEF Entry
<1> QED BY <1>1, <1>2, <1>5, <1>6, <1>7

\* What neither moves a kangaroo nor touches the reports and the tables.
LEMMA SameEntries ==
    ASSUME EntriesBacked, UNCHANGED fixed, Reports' \subseteq Reports, UNCHANGED tables
    PROVE  EntriesBacked'
<1>1. \A tame, a, w, x : Entry(tame, a, w, x)' <=> Entry(tame, a, w, x)
  BY FixedMeaning
<1>2. PICK m, n : m = tameMap /\ n = wildMap
  OBVIOUS
<1>3. m = tameMap' /\ n = wildMap'
  BY <1>2 DEF tables
<1>4. \A x \in DOMAIN m : Entry(TRUE, m[x].a, m[x].w, x)'
  BY <1>1, <1>2 DEF EntriesBacked
<1>5. \A x \in DOMAIN n : Entry(FALSE, n[x].a, n[x].w, x)'
  BY <1>1, <1>2 DEF EntriesBacked
<1>6. \A r \in Reports' : Entry(r.tame, r.a, r.w, r.x)'
  BY <1>1 DEF EntriesBacked
<1> QED BY <1>3, <1>4, <1>5, <1>6 DEF EntriesBacked

LEMMA SameAnswers ==
    ASSUME CandidateIsKey, NoMissedCollision, UNCHANGED <<fixed, tables, cand>>
    PROVE  CandidateIsKey' /\ NoMissedCollision'
BY DEF CandidateIsKey, NoMissedCollision, fixed, tables, InRange, NegMap

LEMMA SearchInit == Init => SearchInv
<1> SUFFICES ASSUME Init PROVE SearchInv
  OBVIOUS
<1>1. KangarooType
  BY Constants DEF Init, KangarooType, IsHerd, Reports
<1>2. HerdBacked
  BY DEF Init, HerdBacked, Herding
<1>3. Reports = {} /\ DOMAIN tameMap = {} /\ DOMAIN wildMap = {}
  BY DEF Init, Reports
<1>4. EntriesBacked /\ NoMissedCollision
  BY <1>3 DEF EntriesBacked, NoMissedCollision
<1>5. CandidateIsKey
  BY DEF Init, CandidateIsKey
<1> QED BY <1>1, <1>2, <1>4, <1>5 DEF SearchInv

\* The offsets of the start points.
LEMMA OffsetIs == \A j \in 0 .. Herd - 1 : Offset(j) \in 0 .. W + Herd - 1
<1> SUFFICES ASSUME NEW j \in 0 .. Herd - 1 PROVE Offset(j) \in 0 .. W + Herd - 1
  OBVIOUS
<1>1. PICK s : s = Stride
  OBVIOUS
<1>2. (s \div 2) + j * s \in 0 .. W + Herd - 1
  BY <1>1, Constants, SpreadStays DEF Stride
<1> QED BY <1>1, <1>2 DEF Offset

LEMMA HerdsAre ==
    /\ \A g \in Kangaroos : g \in Tame => g - 1 \in 0 .. Herd - 1
    /\ \A g \in Kangaroos : g \notin Tame => g - Herd - 1 \in 0 .. Herd - 1
    /\ \A g \in Kangaroos : g \in Nat
BY Constants DEF Kangaroos, Tame, Wild

LEMMA StartDistIs ==
    ASSUME NEW g \in Kangaroos
    PROVE  StartDist(g) \in 0 .. W + Herd /\ (g \in Tame => StartDist(g) # 0)
<1>1. W \in Nat \ {0} /\ Herd \in Nat \ {0}
  BY Constants
<1>2. CASE g \in Tame
  <2>1. g - 1 \in 0 .. Herd - 1
    BY <1>2, HerdsAre
  <2>2. Offset(g - 1) \in 0 .. W + Herd - 1
    BY <2>1, OffsetIs
  <2> QED BY <1>1, <1>2, <2>2 DEF StartDist
<1>3. CASE g \notin Tame
  <2>1. g - Herd - 1 \in 0 .. Herd - 1
    BY <1>3, HerdsAre
  <2>2. Offset(g - Herd - 1) \in 0 .. W + Herd - 1
    BY <2>1, OffsetIs
  <2> QED BY <1>1, <1>3, <2>2 DEF StartDist
<1> QED BY <1>2, <1>3

\* k_init_global's Q' is the multiple d' of G, and infinity when d' is 0.
LEMMA QPrimeIs ==
    ASSUME KangarooType
    PROVE  /\ JToAffine(QPrime[key]) = MulG[LogOf(1, 0)]
           /\ IsInfinity(QPrime[key]) <=> LogOf(1, 0) = 0
<1>1. key \in Keys /\ key \in 1 .. N - 1 /\ N - Lo \in 1 .. N
  BY KeyType, Constants DEF KangarooType
<1>2. QPrime[key] = JAdd(ToJacobian(Decompress(Compressed(MulG[key]))), JMulG[N - Lo])
  BY <1>1 DEF QPrime
<1>3. SumIs(QPrime[key], key + (N - Lo))
  <2>1. \A j \in 1 .. N - 1, k \in 1 .. N :
            SumIs(JAdd(ToJacobian(Decompress(Compressed(MulG[j]))), JMulG[k]), j + k)
    BY GroupAssumption DEF GroupLaws
  <2> QED BY <1>1, <1>2, <2>1
<1>4. (key + (N - Lo)) % N = LogOf(1, 0)
  <2>1. PICK d \in Int : d = DPrime
    BY KeyType
  <2>2. PICK m \in Nat \ {0}, k \in Int : m = N /\ k = 1
    BY Constants
  <2>3. (d + (m * k)) % m = d % m
    BY ModTurns
  <2>4. key + (N - Lo) = d + (m * k)
    BY <1>1, <2>1, <2>2, Constants DEF DPrime
  <2>5. 1 * d + 0 = d
    OBVIOUS
  <2> QED BY <2>1, <2>2, <2>3, <2>4, <2>5 DEF LogOf
<1> QED BY <1>3, <1>4 DEF SumIs

LEMMA StartsAreRight ==
    ASSUME KangarooType, ~QpIsInf, NEW g \in Kangaroos
    PROVE  /\ StartSign(g) \in Signs(g \in Tame)
           /\ StartPoint(g) = MulG[LogOf(StartSign(g), StartDist(g))]
<1>1. key \in Keys /\ N \in Nat \ {0}
  BY Constants DEF KangarooType
<1>2. PICK off \in 0 .. N - 1 : off = StartDist(g) /\ (g \in Tame => off # 0)
  <2>1. StartDist(g) \in 0 .. W + Herd /\ (g \in Tame => StartDist(g) # 0)
    BY StartDistIs
  <2>2. W + Herd < N /\ W + Herd \in Nat
    <3>1. Reach(0) \in Nat /\ Reach(0) >= W + Herd /\ Reach(0) <= Far
      BY ReachIs DEF Far
    <3> QED BY <3>1, ReachIs, Constants
  <2> QED BY <1>1, <2>1, <2>2
<1>3. CASE g \in Tame
  <2>1. StartSign(g) = 0
    BY <1>3 DEF StartSign
  <2>2. StartPoint(g) = MulG[off]
    BY <1>1, <1>2, <1>3 DEF StartPoint, StartPoints
  <2>3. LogOf(0, off) = off
    <3>1. PICK d \in Int : d = DPrime
      BY KeyType
    <3>2. 0 * d + off = off
      OBVIOUS
    <3>3. off % N = off
      BY <1>1, ModSmall
    <3> QED BY <3>1, <3>2, <3>3 DEF LogOf
  <2> QED BY <1>2, <1>3, <2>1, <2>2, <2>3 DEF Signs
<1>4. CASE g \notin Tame
  <2>1. StartSign(g) = 1 /\ 1 \in Signs(g \in Tame)
    BY <1>4 DEF StartSign, Signs
  <2>2. PICK l \in 0 .. N - 1 : l = LogOf(1, 0)
    BY LogType
  <2>3. l \in 1 .. N - 1 /\ JToAffine(QPrime[key]) = MulG[l]
    BY <2>2, QPrimeIs DEF QpIsInf
  <2>4. CASE off = 0
    <3>1. StartPoint(g) = JToAffine(QPrime[key])
      BY <1>1, <1>2, <1>4, <2>4 DEF StartPoint, StartPoints
    <3> QED BY <1>2, <2>1, <2>2, <2>3, <2>4, <3>1
  <2>5. CASE off # 0
    <3>1. StartPoint(g) = AffAddFallback(MulG[l], MulG[off])
      BY <1>1, <1>2, <1>4, <2>3, <2>5 DEF StartPoint, StartPoints, AffAddFallback
    <3>2. off \in 1 .. N - 1
      BY <2>5, <1>1
    <3>3. StartPoint(g) = MulG[(l + off) % N]
      BY <2>3, <3>1, <3>2, GroupAssumption DEF GroupLaws
    <3>4. LogOf(1, 0 + off) = (l + off) % N
      BY <2>2, LogAdd
    <3>5. 0 + off = off
      OBVIOUS
    <3> QED BY <1>2, <2>1, <3>3, <3>4, <3>5
  <2> QED BY <2>4, <2>5
<1> QED BY <1>3, <1>4

LEMMA SearchSetup ==
    ASSUME SearchInv, Setup
    PROVE  SearchInv'
<1>1. /\ pc = "init" /\ ~QpIsInf /\ pc' = "launch" /\ round = 0
      /\ px' = [g \in Kangaroos |-> Folded(StartPoint(g))]
      /\ dist' = [g \in Kangaroos |-> Signed(StartPoint(g), StartDist(g))]
      /\ sgn' = [g \in Kangaroos |-> Signed(StartPoint(g), StartSign(g))]
      /\ UNCHANGED <<fixed, round, pt, left, buf, tables, cand>>
  BY DEF Setup, SearchInv, KangarooType
<1>2. KangarooType
  BY DEF SearchInv
<1>3. Reports' = Reports
  BY <1>1 DEF Reports
<1>4. KangarooType'
  BY <1>1, <1>2, <1>3 DEF KangarooType, IsHerd, fixed
<1>5. HerdBacked'
  <2> SUFFICES ASSUME NEW g \in Kangaroos
               PROVE  /\ Within(g \in Tame, sgn[g], dist[g], Reach(Taken(g)))'
                      /\ Stands(sgn[g], dist[g], Place(g))'
    BY DEF HerdBacked
  <2>1. PICK a, w, p, r :
            /\ a = StartSign(g) /\ w = StartDist(g) /\ p = StartPoint(g) /\ r = Reach(0)
    OBVIOUS
  <2>2. w \in Int /\ 0 <= w /\ w <= r /\ -r <= w /\ r \in Nat
    <3>1. StartDist(g) \in 0 .. W + Herd
      BY StartDistIs
    <3>2. r \in Nat /\ W + Herd <= r
      BY <2>1, ReachIs
    <3> QED BY <2>1, <3>1, <3>2, Constants
  <2>3. a \in Signs(g \in Tame) /\ p = MulG[LogOf(a, w)]
    BY <1>1, <1>2, <2>1, StartsAreRight
  <2>4. /\ Within(g \in Tame, Signed(p, a), Signed(p, w), r)
        /\ Stands(Signed(p, a), Signed(p, w), Folded(p))
    BY <1>2, <2>2, <2>3, FoldStands
  <2>5. sgn'[g] = Signed(p, a) /\ dist'[g] = Signed(p, w) /\ Place(g)' = Folded(p)
    BY <1>1, <2>1 DEF Place
  <2>6. Taken(g)' = 0
    BY <1>1, Constants DEF Taken
  <2>7. PICK sa, sw, sp : sa = Signed(p, a) /\ sw = Signed(p, w) /\ sp = Folded(p)
    OBVIOUS
  <2>8. Within(g \in Tame, sa, sw, r)' /\ Stands(sa, sw, sp)'
    BY <1>1, <2>4, <2>7, FixedMeaning
  <2> QED BY <2>1, <2>5, <2>6, <2>7, <2>8
<1>6. EntriesBacked' /\ CandidateIsKey' /\ NoMissedCollision'
  BY <1>1, <1>3, SameEntries, SameAnswers DEF SearchInv
<1> QED BY <1>4, <1>5, <1>6 DEF SearchInv

\* Both jumps of a pair are in the table.
LEMMA JumpExists ==
    ASSUME NEW l \in 1 .. N - 1
    PROVE  /\ JumpIndex(MulG[l]) \in 0 .. K - 1
           /\ Alternate(JumpIndex(MulG[l])) \in 0 .. K - 1
<1>1. MulG[l].x \in Nat
  <2>1. MulG[l] \in CurvePoints /\ P \in Nat
    BY GroupAssumption, CurveAssumption DEF GroupLaws
  <2> QED BY <2>1 DEF CurvePoints, Fe
<1>2. PICK lo \in Nat : lo = Low(MulG[l])
  BY <1>1, Constants, DivMod DEF Low
<1>3. PICK i \in 0 .. K - 1 : i = JumpIndex(MulG[l])
  BY <1>2, Constants, DivMod DEF JumpIndex
<1>4. Alternate(i) \in 0 .. K - 1
  <2>1. PICK k \in Nat : k = K /\ k % 2 = 0
    BY Constants
  <2>2. i \in 0 .. k - 1
    BY <2>1
  <2>3. CASE i % 2 = 0
    <3>1. i + 1 <= k - 1
      BY <2>1, <2>2, <2>3
    <3> QED BY <2>1, <2>3, <3>1 DEF Alternate
  <2>4. CASE i % 2 # 0
    <3>1. i >= 1
      BY <2>2, <2>4
    <3> QED BY <2>1, <2>2, <2>4, <3>1 DEF Alternate
  <2> QED BY <2>3, <2>4
<1> QED BY <1>3, <1>4

LEMMA NextJumpIs ==
    ASSUME NEW g \in Kangaroos, NEW l \in 1 .. N - 1, pt[g] = MulG[l]
    PROVE  /\ NextJump(g) \in 0 .. K - 1
           /\ JumpScalars[NextJump(g) + 1] \in 1 .. MaxJump
           /\ JumpScalars[NextJump(g) + 1] \in 1 .. N - 1
           /\ Jump[NextJump(g)] = MulG[JumpScalars[NextJump(g) + 1]]
<1>1. NextJump(g) \in 0 .. K - 1
  BY JumpExists DEF NextJump
<1>2. PICK i \in 0 .. K - 1 : i = NextJump(g)
  BY <1>1
<1>3. JumpScalars[i + 1] \in 1 .. MaxJump /\ JumpScalars[i + 1] \in 1 .. W
  BY MaxJumpIs, Constants
<1>4. W < N /\ W \in Nat /\ N \in Nat
  BY Constants, KangarooAssumption
<1>5. Jump[i] = MulG[JumpScalars[i + 1]]
  BY DEF Jump
<1> QED BY <1>2, <1>3, <1>4, <1>5

\* A launch is within the budget at each of its steps.
LEMMA TakenIs ==
    ASSUME KangarooType, NEW g \in Kangaroos
    PROVE  /\ Taken(g) \in Nat /\ Taken(g) <= Steps * Rounds
           /\ pc = "walk" /\ left[g] > 0 => Taken(g) + 1 <= Steps * Rounds
<1>1. /\ round \in Nat /\ round <= Rounds
      /\ Steps \in Nat \ {0} /\ Rounds \in Nat /\ left[g] \in 0 .. Steps
      /\ (pc = "walk" => round < Rounds)
  BY Constants DEF KangarooType
<1>2. PICK q \in Nat : q = round * Steps
  BY <1>1
<1>3. Taken(g) \in Nat
  BY <1>1, <1>2 DEF Taken
<1>4. ASSUME pc = "walk", left[g] > 0
      PROVE  Taken(g) + 1 <= Steps * Rounds
  <2>1. (round + 1) * Steps = q + Steps
    BY <1>1, <1>2
  <2>2. (round + 1) * Steps <= Rounds * Steps
    BY <1>1, <1>4, TimesLeq
  <2>3. PICK m \in Nat : m = Steps * Rounds /\ m = Rounds * Steps
    BY <1>1, Commute
  <2>4. q + Steps <= m
    BY <2>1, <2>2, <2>3
  <2>5. Taken(g) = q + (Steps - left[g])
    BY <1>2, <1>4 DEF Taken
  <2> QED BY <1>1, <1>4, <2>3, <2>4, <2>5
<1>5. Taken(g) <= Steps * Rounds
  <2>1. CASE pc = "walk" /\ left[g] > 0
    BY <1>1, <1>3, <1>4, <2>1, Constants
  <2>2. CASE pc = "walk" /\ left[g] = 0
    <3>1. Taken(g) = q + Steps
      BY <1>1, <1>2, <2>2 DEF Taken
    <3>2. (round + 1) * Steps = q + Steps
      BY <1>1, <1>2
    <3>3. (round + 1) * Steps <= Rounds * Steps
      BY <1>1, <2>2, TimesLeq
    <3>4. Rounds * Steps = Steps * Rounds
      BY <1>1, Commute
    <3> QED BY <3>1, <3>2, <3>3, <3>4
  <2>3. CASE pc # "walk"
    <3>1. Taken(g) = round * Steps
      BY <2>3 DEF Taken
    <3>2. round * Steps <= Rounds * Steps
      BY <1>1, TimesLeq
    <3>3. Rounds * Steps = Steps * Rounds
      BY <1>1, Commute
    <3> QED BY <3>1, <3>2, <3>3
  <2> QED BY <1>1, <2>1, <2>2, <2>3
<1> QED BY <1>3, <1>4, <1>5

\* What a step makes of its kangaroo.
LEMMA StepStands ==
    ASSUME SearchInv, OffInfinity, NEW g \in Kangaroos, Step(g)
    PROVE  \E R, w, a :
              /\ Report(g, R, w, a)
              /\ pt' = [pt EXCEPT ![g] = Folded(R)]
              /\ dist' = [dist EXCEPT ![g] = w]
              /\ sgn' = [sgn EXCEPT ![g] = a]
              /\ Within(g \in Tame, a, w, Reach(Taken(g) + 1))
              /\ Stands(a, w, Folded(R))
              /\ ~NegMap => w >= dist[g]
<1>1. /\ pc = "walk" /\ left[g] > 0 /\ KangarooType
      /\ Within(g \in Tame, sgn[g], dist[g], Reach(Taken(g)))
      /\ Stands(sgn[g], dist[g], pt[g])
      /\ pt[g] # Sentinel
  BY DEF Step, SearchInv, HerdBacked, Herding, OffInfinity, Place
<1>2. PICK a, w, n :
          a = sgn[g] /\ w = dist[g] /\ n = Taken(g)
  OBVIOUS
<1>3. n \in Nat /\ Reach(n) \in Nat /\ Reach(n + 1) = Reach(n) + MaxJump /\ MaxJump \in Nat
  BY <1>1, <1>2, TakenIs, ReachIs, MaxJumpIs
<1>4. /\ a \in Signs(g \in Tame) /\ a \in {0, 1, -1}
      /\ w \in Int /\ -Reach(n) <= w /\ w <= Reach(n) /\ (~NegMap => w >= 0)
      /\ pt[g] = MulG[LogOf(a, w)]
  <2>1. Within(g \in Tame, a, w, Reach(n)) /\ Stands(a, w, pt[g])
    BY <1>1, <1>2
  <2> QED BY <2>1, SignType DEF Within, Stands
<1>5. PICK l \in 1 .. N - 1 : l = LogOf(a, w)
  <2>1. LogOf(a, w) \in 0 .. N - 1
    BY <1>1, <1>4, LogType
  <2>2. LogOf(a, w) # 0
    BY <1>1, <1>4, GroupAssumption DEF GroupLaws
  <2> QED BY <2>1, <2>2, Constants
<1>6. PICK i, s : i = NextJump(g) /\ s = JumpScalars[i + 1]
  OBVIOUS
<1>7. s \in 1 .. MaxJump /\ s \in 1 .. N - 1 /\ Jump[i] = MulG[s]
  BY <1>4, <1>5, <1>6, NextJumpIs
<1>8. PICK R : R = AffAdd(pt[g], Jump[i])
  OBVIOUS
<1>9. R = MulG[LogOf(a, w + s)]
  <2>1. R = MulG[(l + s) % N]
    BY <1>4, <1>5, <1>7, <1>8, GroupAssumption DEF GroupLaws
  <2>2. s \in Int
    BY <1>7
  <2>3. LogOf(a, w + s) = (l + s) % N
    BY <1>1, <1>4, <1>5, <2>2, LogAdd
  <2> QED BY <2>1, <2>3
<1>10. PICK r \in Nat : r = Reach(n + 1)
  BY <1>3
<1>11. w + s \in Int /\ -r <= w + s /\ w + s <= r /\ (~NegMap => w + s >= 0)
  BY <1>3, <1>4, <1>7, <1>10
<1>12. /\ Within(g \in Tame, Signed(R, a), Signed(R, w + s), r)
       /\ Stands(Signed(R, a), Signed(R, w + s), Folded(R))
  BY <1>1, <1>4, <1>9, <1>11, FoldStands
<1>13. /\ pt' = [pt EXCEPT ![g] = Folded(R)]
       /\ dist' = [dist EXCEPT ![g] = Signed(R, w + s)]
       /\ sgn' = [sgn EXCEPT ![g] = Signed(R, a)]
       /\ Report(g, R, Signed(R, w + s), Signed(R, a))
  BY <1>2, <1>6, <1>8 DEF Step, Landing
<1>14. ~NegMap => Signed(R, w + s) >= dist[g]
  <2>1. ~NegMap => Signed(R, w + s) = w + s
    BY DEF Signed, Flips
  <2>2. w + s >= w
    BY <1>4, <1>7
  <2> QED BY <1>2, <2>1, <2>2
<1>15. /\ Within(g \in Tame, Signed(R, a), Signed(R, w + s), Reach(Taken(g) + 1))
       /\ Stands(Signed(R, a), Signed(R, w + s), Folded(R))
  BY <1>2, <1>10, <1>12
<1> QED BY <1>13, <1>14, <1>15

\* Every kangaroo is still backed after a step of one.
LEMMA StepHerd ==
    ASSUME SearchInv, OffInfinity, NEW g \in Kangaroos, Step(g)
    PROVE  HerdBacked'
<1>1. /\ pc = "walk" /\ pc' = pc /\ left[g] > 0 /\ px' = px /\ round' = round
      /\ UNCHANGED fixed
      /\ left' = [left EXCEPT ![g] = @ - 1]
  BY DEF Step
<1>2. KangarooType /\ HerdBacked
  BY DEF SearchInv
<1>3. PICK R, w, a :
          /\ Report(g, R, w, a)
          /\ pt' = [pt EXCEPT ![g] = Folded(R)]
          /\ dist' = [dist EXCEPT ![g] = w]
          /\ sgn' = [sgn EXCEPT ![g] = a]
          /\ Within(g \in Tame, a, w, Reach(Taken(g) + 1))
          /\ Stands(a, w, Folded(R))
  BY StepStands
<1>4. /\ pt'[g] = Folded(R) /\ dist'[g] = w /\ sgn'[g] = a /\ left'[g] = left[g] - 1
      /\ \A h \in Kangaroos \ {g} :
            pt'[h] = pt[h] /\ dist'[h] = dist[h] /\ sgn'[h] = sgn[h] /\ left'[h] = left[h]
  BY <1>1, <1>2, <1>3 DEF KangarooType, IsHerd
<1>5. Taken(g)' = Taken(g) + 1 /\ \A h \in Kangaroos \ {g} : Taken(h)' = Taken(h)
  <2>1. PICK q \in Nat : q = round * Steps
    BY <1>2, Constants DEF KangarooType
  <2>2. left[g] \in Int /\ Steps \in Int
    BY <1>2, Constants DEF KangarooType
  <2>3. Taken(g) = q + (Steps - left[g]) /\ Taken(g)' = q + (Steps - (left[g] - 1))
    BY <1>1, <1>4, <2>1 DEF Taken
  <2>4. \A h \in Kangaroos \ {g} : Taken(h)' = Taken(h)
    BY <1>1, <1>4 DEF Taken
  <2> QED BY <2>2, <2>3, <2>4
<1> SUFFICES ASSUME NEW h \in Kangaroos
             PROVE  /\ Within(h \in Tame, sgn[h], dist[h], Reach(Taken(h)))'
                    /\ Stands(sgn[h], dist[h], Place(h))'
  BY DEF HerdBacked
<1>6. CASE h = g
  <2>1. PICK r, q : r = Reach(Taken(g) + 1) /\ q = Folded(R)
    OBVIOUS
  <2>2. Within(g \in Tame, a, w, r)' /\ Stands(a, w, q)'
    BY <1>1, <1>3, <2>1, FixedMeaning
  <2>3. Reach(Taken(g))' = r /\ Place(g)' = q
    BY <1>1, <1>4, <1>5, <2>1 DEF Place, Reach
  <2> QED BY <1>4, <1>6, <2>2, <2>3
<1>7. CASE h # g
  <2>1. PICK b, d, r, q : b = sgn[h] /\ d = dist[h] /\ r = Reach(Taken(h)) /\ q = Place(h)
    OBVIOUS
  <2>2. Within(h \in Tame, b, d, r) /\ Stands(b, d, q)
    BY <1>1, <1>2, <2>1 DEF HerdBacked, Herding
  <2>3. Within(h \in Tame, b, d, r)' /\ Stands(b, d, q)'
    BY <1>1, <2>2, FixedMeaning
  <2>4. sgn'[h] = b /\ dist'[h] = d /\ Reach(Taken(h))' = r /\ Place(h)' = q
    BY <1>1, <1>4, <1>5, <1>7, <2>1 DEF Place, Reach
  <2> QED BY <2>3, <2>4
<1> QED BY <1>6, <1>7

LEMMA SearchStep ==
    ASSUME SearchInv, OffInfinity, OffInfinity', NEW g \in Kangaroos, Step(g)
    PROVE  SearchInv'
<1>1. /\ pc = "walk" /\ pc' = pc /\ left[g] > 0 /\ px' = px /\ round' = round
      /\ UNCHANGED fixed /\ UNCHANGED tables /\ cand' = cand
      /\ left' = [left EXCEPT ![g] = @ - 1]
  BY DEF Step
<1>2. KangarooType /\ EntriesBacked /\ HerdBacked /\ CandidateIsKey /\ NoMissedCollision
  BY DEF SearchInv
<1>3. PICK R, w, a :
          /\ Report(g, R, w, a)
          /\ pt' = [pt EXCEPT ![g] = Folded(R)]
          /\ dist' = [dist EXCEPT ![g] = w]
          /\ sgn' = [sgn EXCEPT ![g] = a]
          /\ Within(g \in Tame, a, w, Reach(Taken(g) + 1))
          /\ Stands(a, w, Folded(R))
  BY StepStands
<1>4. /\ pt'[g] = Folded(R) /\ dist'[g] = w /\ sgn'[g] = a /\ left'[g] = left[g] - 1
      /\ \A h \in Kangaroos \ {g} :
            pt'[h] = pt[h] /\ dist'[h] = dist[h] /\ sgn'[h] = sgn[h] /\ left'[h] = left[h]
  BY <1>1, <1>2, <1>3 DEF KangarooType, IsHerd
<1>5. left' \in [Kangaroos -> 0 .. Steps]
  BY <1>1, <1>2, Constants DEF KangarooType
<1>7. HerdBacked'
  BY StepHerd
\* A report of this step is a true one.
<1>8. Entry(g \in Tame, a, w, R.x)
  <2>1. Taken(g) + 1 <= Steps * Rounds /\ Taken(g) + 1 \in Nat
    BY <1>1, <1>2, TakenIs
  <2>2. PICK r \in Nat : r = Reach(Taken(g) + 1) /\ r <= Far
    BY <2>1, ReachIs DEF Far
  <2>3. Within(g \in Tame, a, w, Far)
    <3>1. Within(g \in Tame, a, w, r)
      BY <1>3, <2>2
    <3>2. PICK far \in Nat : far = Far /\ r <= far
      BY <2>2, ReachIs
    <3>3. /\ a \in Signs(g \in Tame) /\ w \in Int /\ -r <= w /\ w <= r
          /\ (~NegMap => w >= 0)
      BY <3>1 DEF Within
    <3>4. -far <= w /\ w <= far
      BY <2>2, <3>2, <3>3
    <3> QED BY <3>2, <3>3, <3>4 DEF Within
  <2>4. Folded(R) = MulG[LogOf(a, w)]
    BY <1>3 DEF Stands
  <2>5. Folded(R) # Sentinel
    BY <1>1, <1>4 DEF OffInfinity, Herding, Place
  <2>6. LogOf(a, w) # 0
    BY <2>4, <2>5, GroupAssumption DEF GroupLaws
  <2> QED BY <1>3, <2>3, <2>4, <2>6, FoldKeepsX DEF Entry
<1>9. CASE Distinguished(R) /\ dpcount < Cap
  <2>1. PICK r : /\ r = [x |-> R.x, w |-> w, a |-> a, tame |-> g \in Tame]
                 /\ buf' = Append(buf, r)
    BY <1>3, <1>9 DEF Report
  <2>2. buf' \in Seq(Reports') /\ Reports' = Reports \cup {r}
    BY <1>2, <2>1, AppendReports DEF KangarooType
  <2>3. Entry(r.tame, r.a, r.w, r.x)
    BY <1>8, <2>1
  <2>4. EntriesBacked'
    <3>1. \A q \in Reports' : Entry(q.tame, q.a, q.w, q.x)
      BY <1>2, <2>2, <2>3 DEF EntriesBacked
    <3>2. \A q \in Reports' : Entry(q.tame, q.a, q.w, q.x)'
      BY <1>1, <3>1, FixedMeaning
    <3>3. PICK m, n : m = tameMap /\ n = wildMap /\ m = tameMap' /\ n = wildMap'
      BY <1>1 DEF tables
    <3>4. \A x \in DOMAIN m : Entry(TRUE, m[x].a, m[x].w, x)'
      BY <1>1, <1>2, <3>3, FixedMeaning DEF EntriesBacked
    <3>5. \A x \in DOMAIN n : Entry(FALSE, n[x].a, n[x].w, x)'
      BY <1>1, <1>2, <3>3, FixedMeaning DEF EntriesBacked
    <3> QED BY <3>2, <3>3, <3>4, <3>5 DEF EntriesBacked
  <2>5. KangarooType'
    BY <1>1, <1>2, <1>3, <1>5, <2>2 DEF KangarooType, IsHerd, fixed
  <2>6. CandidateIsKey' /\ NoMissedCollision'
    BY <1>1, <1>2, SameAnswers
  <2> QED BY <1>7, <2>4, <2>5, <2>6 DEF SearchInv
<1>10. CASE ~(Distinguished(R) /\ dpcount < Cap)
  <2>1. buf' = buf /\ Reports' = Reports
    BY <1>3, <1>10 DEF Report, Reports
  <2>2. KangarooType'
    BY <1>1, <1>2, <1>3, <1>5, <2>1 DEF KangarooType, IsHerd, fixed
  <2>3. EntriesBacked' /\ CandidateIsKey' /\ NoMissedCollision'
    BY <1>1, <1>2, <2>1, SameEntries, SameAnswers
  <2> QED BY <1>7, <2>2, <2>3 DEF SearchInv
<1> QED BY <1>9, <1>10

\* What leaves every kangaroo where it is.
LEMMA SameHerd ==
    ASSUME HerdBacked, UNCHANGED <<fixed, dist, sgn>>, Herding' => Herding,
           Herding' => \A g \in Kangaroos : Place(g)' = Place(g) /\ Taken(g)' = Taken(g)
    PROVE  HerdBacked'
<1> SUFFICES ASSUME Herding', NEW g \in Kangaroos
             PROVE  /\ Within(g \in Tame, sgn[g], dist[g], Reach(Taken(g)))'
                    /\ Stands(sgn[g], dist[g], Place(g))'
  BY DEF HerdBacked
<1>1. PICK b, d, r, q : b = sgn[g] /\ d = dist[g] /\ r = Reach(Taken(g)) /\ q = Place(g)
  OBVIOUS
<1>2. Within(g \in Tame, b, d, r) /\ Stands(b, d, q)
  BY <1>1 DEF HerdBacked
<1>3. Within(g \in Tame, b, d, r)' /\ Stands(b, d, q)'
  BY <1>2, FixedMeaning
<1>4. sgn'[g] = b /\ dist'[g] = d /\ Reach(Taken(g))' = r /\ Place(g)' = q
  BY <1>1 DEF Reach
<1> QED BY <1>3, <1>4

LEMMA SearchLaunch ==
    ASSUME SearchInv, Launch
    PROVE  SearchInv'
<1>1. /\ pc = "launch" /\ pc' = "walk" /\ round < Rounds /\ buf' = <<>> /\ pt' = px
      /\ left' = [g \in Kangaroos |-> Steps]
      /\ UNCHANGED <<fixed, round, px, dist, sgn, tables, cand>>
  BY DEF Launch
<1>2. KangarooType /\ HerdBacked /\ EntriesBacked /\ CandidateIsKey /\ NoMissedCollision
  BY DEF SearchInv
<1>3. Reports' = {}
  BY <1>1 DEF Reports
<1>4. buf' \in Seq(Reports')
  BY <1>1
<1>5. left' \in [Kangaroos -> 0 .. Steps]
  BY <1>1, Constants
<1>6. KangarooType'
  BY <1>1, <1>2, <1>4, <1>5 DEF KangarooType, IsHerd, fixed
<1>7. ASSUME NEW g \in Kangaroos
      PROVE  Place(g)' = Place(g) /\ Taken(g)' = Taken(g)
  <2>1. PICK q \in Nat : q = round * Steps
    BY <1>2, Constants DEF KangarooType
  <2>2. Taken(g) = q /\ Taken(g)' = q + (Steps - Steps)
    BY <1>1, <2>1 DEF Taken
  <2>3. Taken(g)' = Taken(g)
    BY <2>1, <2>2, Constants
  <2> QED BY <1>1, <2>3 DEF Place
<1>8. HerdBacked'
  BY <1>1, <1>2, <1>7, SameHerd DEF Herding
<1>9. EntriesBacked' /\ CandidateIsKey' /\ NoMissedCollision'
  BY <1>1, <1>2, <1>3, SameEntries, SameAnswers
<1> QED BY <1>6, <1>8, <1>9 DEF SearchInv

LEMMA SearchSynchronize ==
    ASSUME SearchInv, Synchronize
    PROVE  SearchInv'
<1>1. /\ pc = "walk" /\ pc' = "join" /\ px' = pt /\ pt' = pt /\ round' = round + 1
      /\ \A g \in Kangaroos : left[g] = 0
      /\ UNCHANGED <<fixed, dist, sgn, left, buf, tables, cand>>
  BY DEF Synchronize
<1>2. KangarooType /\ HerdBacked /\ EntriesBacked /\ CandidateIsKey /\ NoMissedCollision
  BY DEF SearchInv
<1>3. Reports' = Reports
  BY <1>1 DEF Reports
<1>4. round' \in 0 .. Rounds
  BY <1>1, <1>2, Constants DEF KangarooType
<1>5. KangarooType'
  BY <1>1, <1>2, <1>3, <1>4 DEF KangarooType, IsHerd, fixed
<1>6. ASSUME NEW g \in Kangaroos
      PROVE  Place(g)' = Place(g) /\ Taken(g)' = Taken(g)
  <2>1. PICK q \in Nat : q = round * Steps /\ (round + 1) * Steps = q + Steps
    BY <1>2, Constants DEF KangarooType
  <2>2. Taken(g) = q + (Steps - 0) /\ Taken(g)' = q + Steps
    BY <1>1, <2>1 DEF Taken
  <2>3. Taken(g)' = Taken(g)
    BY <2>1, <2>2, Constants
  <2> QED BY <1>1, <2>3 DEF Place
<1>7. HerdBacked'
  BY <1>1, <1>2, <1>6, SameHerd DEF Herding
<1>8. EntriesBacked' /\ CandidateIsKey' /\ NoMissedCollision'
  BY <1>1, <1>2, <1>3, SameEntries, SameAnswers
<1> QED BY <1>5, <1>7, <1>8 DEF SearchInv

\* Q' = O means that the key is lo, and with the key in [lo, lo + W] only then.
LEMMA InfinityIsLo ==
    ASSUME KangarooType
    PROVE  QpIsInf <=> key = Lo
<1>1. PICK d \in Int : d = DPrime /\ -N < d /\ d < N /\ key = Lo + d
  BY KeyType, KeyOf
<1>2. LogOf(1, 0) = d % N
  <2>1. 1 * d + 0 = d
    OBVIOUS
  <2> QED BY <1>1, <2>1 DEF LogOf
<1>3. d % N = 0 <=> d = 0
  BY <1>1, Constants, ModNear
<1>4. QpIsInf <=> d % N = 0
  BY <1>2, QPrimeIs DEF QpIsInf
<1> QED BY <1>1, <1>3, <1>4, Constants

LEMMA SearchShortCircuit ==
    ASSUME SearchInv, ShortCircuit
    PROVE  SearchInv'
<1>1. /\ QpIsInf /\ cand' = Lo /\ pc' = "verify"
      /\ UNCHANGED <<fixed, round, px, pt, dist, sgn, left, buf, tables>>
  BY DEF ShortCircuit, herd
<1>2. KangarooType /\ EntriesBacked /\ NoMissedCollision
  BY DEF SearchInv
<1>3. Reports' = Reports
  BY <1>1 DEF Reports
<1>4. KangarooType'
  BY <1>1, <1>2, <1>3 DEF KangarooType, IsHerd, fixed
<1>5. HerdBacked'
  BY <1>1 DEF HerdBacked, Herding
<1>6. EntriesBacked'
  BY <1>1, <1>2, <1>3, SameEntries
<1>7. cand' = key'
  BY <1>1, <1>2, InfinityIsLo DEF fixed
<1>8. CandidateIsKey' /\ NoMissedCollision'
  BY <1>1, <1>2, <1>7 DEF CandidateIsKey, NoMissedCollision, fixed, tables, InRange
<1> QED BY <1>4, <1>5, <1>6, <1>8 DEF SearchInv

\* A report that meets an entry of the other table.
LEMMA MatchIsKey ==
    ASSUME KangarooType, EntriesBacked, NEW r \in Reports, InRange \/ NegMap
    PROVE  /\ Match(r) \in {NoCand, key}
           /\ InRange /\ Match(r) = NoCand =>
                 r.x \notin DOMAIN (IF r.tame THEN wildMap ELSE tameMap)
<1>1. key # NoCand
  BY KeyType, Constants DEF NoCand
<1>2. Entry(r.tame, r.a, r.w, r.x)
  BY DEF EntriesBacked
<1>3. CASE r.tame
  <2>1. Entry(TRUE, r.a, r.w, r.x)
    BY <1>2, <1>3 DEF Entry, Within, Signs
  <2>2. CASE r.x \in DOMAIN wildMap
    <3>1. Meet(r, wildMap[r.x], r.x)
      BY <2>1, <2>2 DEF Meet, EntriesBacked
    <3>2. PICK w : w = wildMap[r.x]
      OBVIOUS
    <3>3. TryPair(r, w) \in {NoCand, key} /\ (InRange => TryPair(r, w) = key)
      BY <3>1, <3>2, PairIsKey
    <3> QED BY <1>1, <1>3, <2>2, <3>2, <3>3 DEF Match
  <2>3. CASE r.x \notin DOMAIN wildMap
    BY <1>3, <2>3 DEF Match
  <2> QED BY <2>2, <2>3
<1>4. CASE ~r.tame
  <2>1. Entry(FALSE, r.a, r.w, r.x)
    BY <1>2, <1>4 DEF Entry, Within, Signs
  <2>2. CASE r.x \in DOMAIN tameMap
    <3>1. Meet(tameMap[r.x], r, r.x)
      BY <2>1, <2>2 DEF Meet, EntriesBacked
    <3>2. PICK t : t = tameMap[r.x]
      OBVIOUS
    <3>3. TryPair(t, r) \in {NoCand, key} /\ (InRange => TryPair(t, r) = key)
      BY <3>1, <3>2, PairIsKey
    <3> QED BY <1>1, <1>4, <2>2, <3>2, <3>3 DEF Match
  <2>3. CASE r.x \notin DOMAIN tameMap
    BY <1>4, <2>3 DEF Match
  <2> QED BY <2>2, <2>3
<1> QED BY <1>3, <1>4

\* A table that keeps a report has an entry of its own or an earlier one.
LEMMA KeepBacks ==
    ASSUME NEW tame \in BOOLEAN, NEW m, NEW r,
           \A x \in DOMAIN m : Entry(tame, m[x].a, m[x].w, x),
           Entry(tame, r.a, r.w, r.x)
    PROVE  \A x \in DOMAIN Keep(m, r) :
              Entry(tame, Keep(m, r)[x].a, Keep(m, r)[x].w, x)
<1>1. CASE r.x \in DOMAIN m
  BY <1>1 DEF Keep
<1>2. CASE r.x \notin DOMAIN m
  <2> SUFFICES ASSUME NEW x \in DOMAIN m \cup {r.x}
               PROVE  Entry(tame, Keep(m, r)[x].a, Keep(m, r)[x].w, x)
    BY KeepAdds
  <2>1. Keep(m, r)[x] = IF x = r.x THEN [w |-> r.w, a |-> r.a] ELSE m[x]
    BY <1>2 DEF Keep
  <2>2. CASE x = r.x
    <3>1. Keep(m, r)[x].a = r.a /\ Keep(m, r)[x].w = r.w
      BY <2>1, <2>2
    <3> QED BY <2>2, <3>1
  <2>3. CASE x # r.x
    BY <2>1, <2>3
  <2> QED BY <2>2, <2>3
<1> QED BY <1>1, <1>2

LEMMA SearchJoin ==
    ASSUME SearchInv, Join
    PROVE  SearchInv'
<1>1. PICK r : r = Head(buf)
  OBVIOUS
<1>2. /\ pc = "join" /\ buf # <<>> /\ buf' = Tail(buf) /\ pc' \in {"join", "verify"}
      /\ UNCHANGED <<fixed, round, px, pt, dist, sgn, left>>
      /\ \/ /\ Match(r) # NoCand /\ cand' = Match(r) /\ UNCHANGED tables
         \/ /\ Match(r) = NoCand /\ cand' = cand
            /\ tameMap' = IF r.tame THEN Keep(tameMap, r) ELSE tameMap
            /\ wildMap' = IF r.tame THEN wildMap ELSE Keep(wildMap, r)
  BY <1>1 DEF Join, herd
<1>3. KangarooType /\ HerdBacked /\ EntriesBacked /\ CandidateIsKey /\ NoMissedCollision
  BY DEF SearchInv
<1>4. buf' \in Seq(Reports') /\ Reports' \subseteq Reports /\ r \in Reports
  BY <1>1, <1>2, <1>3, TailReports DEF KangarooType
<1>5. KangarooType'
  BY <1>2, <1>3, <1>4 DEF KangarooType, IsHerd, fixed
<1>6. HerdBacked'
  <2>1. \A g \in Kangaroos : pc' = "join" => Place(g)' = Place(g) /\ Taken(g)' = Taken(g)
    BY <1>2 DEF Place, Taken
  <2> QED BY <1>2, <1>3, <2>1, SameHerd DEF Herding
<1>7. CASE Match(r) # NoCand
  <2>1. cand' = Match(r) /\ UNCHANGED tables
    BY <1>2, <1>7
  <2>2. EntriesBacked'
    BY <1>2, <1>3, <1>4, <2>1, SameEntries
  <2>3. InRange \/ NegMap => cand' = key
    BY <1>3, <1>4, <1>7, <2>1, MatchIsKey
  <2>4. CandidateIsKey' /\ NoMissedCollision'
    BY <1>2, <1>3, <2>1, <2>3
       DEF CandidateIsKey, NoMissedCollision, fixed, tables, InRange, NegMap
  <2> QED BY <1>5, <1>6, <2>2, <2>4 DEF SearchInv
<1>8. CASE Match(r) = NoCand
  <2>1. /\ cand' = cand
        /\ tameMap' = IF r.tame THEN Keep(tameMap, r) ELSE tameMap
        /\ wildMap' = IF r.tame THEN wildMap ELSE Keep(wildMap, r)
    BY <1>2, <1>8
  <2>2. PICK m, n : m = tameMap' /\ n = wildMap'
    OBVIOUS
  <2>3. Entry(r.tame, r.a, r.w, r.x)
    BY <1>3, <1>4 DEF EntriesBacked
  <2>4. \A x \in DOMAIN m : Entry(TRUE, m[x].a, m[x].w, x)
    <3>1. CASE r.tame
      <4>1. Entry(TRUE, r.a, r.w, r.x)
        BY <2>3, <3>1 DEF Entry, Within, Signs
      <4> QED BY <1>3, <2>1, <2>2, <3>1, <4>1, KeepBacks DEF EntriesBacked
    <3>2. CASE ~r.tame
      BY <1>3, <2>1, <2>2, <3>2 DEF EntriesBacked
    <3> QED BY <3>1, <3>2
  <2>5. \A x \in DOMAIN n : Entry(FALSE, n[x].a, n[x].w, x)
    <3>1. CASE ~r.tame
      <4>1. Entry(FALSE, r.a, r.w, r.x)
        BY <2>3, <3>1 DEF Entry, Within, Signs
      <4> QED BY <1>3, <2>1, <2>2, <3>1, <4>1, KeepBacks DEF EntriesBacked
    <3>2. CASE r.tame
      BY <1>3, <2>1, <2>2, <3>2 DEF EntriesBacked
    <3> QED BY <3>1, <3>2
  <2>6. EntriesBacked'
    <3>1. \A q \in Reports' : Entry(q.tame, q.a, q.w, q.x)'
      BY <1>2, <1>3, <1>4, FixedMeaning DEF EntriesBacked
    <3>2. \A x \in DOMAIN m : Entry(TRUE, m[x].a, m[x].w, x)'
      BY <1>2, <2>4, FixedMeaning
    <3>3. \A x \in DOMAIN n : Entry(FALSE, n[x].a, n[x].w, x)'
      BY <1>2, <2>5, FixedMeaning
    <3> QED BY <2>2, <3>1, <3>2, <3>3 DEF EntriesBacked
  <2>7. CandidateIsKey'
    BY <1>2, <1>3, <2>1 DEF CandidateIsKey, fixed, InRange, NegMap
  <2>8. ASSUME InRange PROVE DOMAIN m \cap DOMAIN n = {}
    <3>1. DOMAIN tameMap \cap DOMAIN wildMap = {}
      BY <1>3, <2>8 DEF NoMissedCollision
    <3>2. r.x \notin DOMAIN (IF r.tame THEN wildMap ELSE tameMap)
      BY <1>3, <1>4, <1>8, <2>8, MatchIsKey
    <3>3. CASE r.tame
      <4>1. DOMAIN m = DOMAIN tameMap \cup {r.x} /\ n = wildMap
        BY <2>1, <2>2, <3>3, KeepAdds
      <4> QED BY <3>1, <3>2, <3>3, <4>1
    <3>4. CASE ~r.tame
      <4>1. DOMAIN n = DOMAIN wildMap \cup {r.x} /\ m = tameMap
        BY <2>1, <2>2, <3>4, KeepAdds
      <4> QED BY <3>1, <3>2, <3>4, <4>1
    <3> QED BY <3>3, <3>4
  <2>9. NoMissedCollision'
    BY <1>2, <2>2, <2>8, FixedMeaning DEF NoMissedCollision
  <2> QED BY <1>5, <1>6, <2>6, <2>7, <2>9 DEF SearchInv
<1> QED BY <1>7, <1>8

\* What neither moves a kangaroo nor touches the reports, the tables and the answer.
LEMMA SearchEnds ==
    ASSUME SearchInv, OutOfBudget \/ NextRound \/ Verify \/ UNCHANGED vars
    PROVE  SearchInv'
<1>1. /\ UNCHANGED <<fixed, round, px, pt, dist, sgn, left, buf, tables, cand>>
      /\ \/ pc = "launch" /\ pc' = "done"
         \/ pc = "join" /\ pc' = "launch"
         \/ pc = "verify" /\ pc' = "done"
         \/ pc' = pc
  BY DEF OutOfBudget, NextRound, Verify, vars, herd, fixed, tables
<1>2. KangarooType /\ HerdBacked /\ EntriesBacked /\ CandidateIsKey /\ NoMissedCollision
  BY DEF SearchInv
<1>3. Reports' = Reports
  BY <1>1 DEF Reports
<1>4. KangarooType'
  BY <1>1, <1>2, <1>3 DEF KangarooType, IsHerd, fixed
<1>5. \A g \in Kangaroos : Herding' => Place(g)' = Place(g) /\ Taken(g)' = Taken(g)
  BY <1>1 DEF Place, Taken, Herding
<1>6. HerdBacked'
  BY <1>1, <1>2, <1>5, SameHerd DEF Herding
<1>7. EntriesBacked' /\ CandidateIsKey' /\ NoMissedCollision'
  BY <1>1, <1>2, <1>3, SameEntries, SameAnswers
<1> QED BY <1>4, <1>6, <1>7 DEF SearchInv

LEMMA SearchNext ==
    ASSUME SearchInv, OffInfinity, OffInfinity', [Next]_vars
    PROVE  SearchInv'
<1>1. CASE ShortCircuit
  BY <1>1, SearchShortCircuit
<1>2. CASE Setup
  BY <1>2, SearchSetup
<1>3. CASE Launch
  BY <1>3, SearchLaunch
<1>4. CASE \E g \in Kangaroos : Step(g)
  BY <1>4, SearchStep
<1>5. CASE Synchronize
  BY <1>5, SearchSynchronize
<1>6. CASE Join
  BY <1>6, SearchJoin
<1>7. CASE OutOfBudget \/ NextRound \/ Verify \/ UNCHANGED vars
  BY <1>7, SearchEnds
<1> QED BY <1>1, <1>2, <1>3, <1>4, <1>5, <1>6, <1>7 DEF Next

LEMMA HerdIsBooked == SearchInv => Bookkeeping
<1> SUFFICES ASSUME SearchInv, pc \in {"walk", "join"}, NEW g \in Kangaroos
             PROVE  pt[g] = LogPoint(sgn[g], dist[g])
  BY DEF Bookkeeping
<1>1. Place(g) = pt[g]
  BY DEF Place, SearchInv, KangarooType
<1>2. Stands(sgn[g], dist[g], Place(g))
  BY DEF SearchInv, HerdBacked, Herding
<1> QED BY <1>1, <1>2 DEF Stands, LogPoint, LogOf, DPrime

\* CandidateIsKey, NoMissedCollision and Bookkeeping, of both builds, as long
\* as no kangaroo has got to the point at infinity: the first candidate is the
\* key, no x is in both tables while the search goes on, and every kangaroo
\* stands where its sign and distance say.
THEOREM SearchIsSound ==
    Spec /\ []OffInfinity => [](CandidateIsKey /\ NoMissedCollision /\ Bookkeeping)
<1>1. SearchInv /\ OffInfinity /\ OffInfinity' /\ [Next]_vars => SearchInv'
  BY SearchNext
<1>2. SearchInv => CandidateIsKey /\ NoMissedCollision /\ Bookkeeping
  BY HerdIsBooked DEF SearchInv
<1> QED BY <1>1, <1>2, SearchInit, PTL DEF Spec

-----------------------------------------------------------------------------
(* The plain build stays away from infinity *)

\* Without the negation map distances only grow, from 1 for a tame kangaroo;
\* and a wild one starts a search only if the key is not lo.
PlainInv ==
    Herding => key # Lo /\ \A g \in Tame : dist[g] >= 1

\* So no logarithm comes up to the group's order, or is 0.
LEMMA PlainIsOff ==
    ASSUME KangarooType, HerdBacked, PlainInv, ~NegMap, InRange
    PROVE  OffInfinity
<1> SUFFICES ASSUME Herding, NEW g \in Kangaroos
             PROVE  Place(g) # Sentinel
  BY DEF OffInfinity
<1>1. PICK a, w : a = sgn[g] /\ w = dist[g]
  OBVIOUS
<1>2. Within(g \in Tame, a, w, Reach(Taken(g))) /\ Place(g) = MulG[LogOf(a, w)]
  BY <1>1 DEF HerdBacked, Stands
<1>3. PICK far \in Nat : far = Far /\ 2 * far + 2 * W < N
  BY ReachIs
<1>4. a \in Signs(g \in Tame) /\ w \in Int /\ 0 <= w /\ w <= far
  <2>1. Reach(Taken(g)) \in Nat /\ Reach(Taken(g)) <= far
    <3>1. Taken(g) \in Nat /\ Taken(g) <= Steps * Rounds
      BY TakenIs
    <3> QED BY <1>3, <3>1, ReachIs DEF Far
  <2>2. PICK r \in Nat : r = Reach(Taken(g)) /\ r <= far
    BY <2>1
  <2>3. a \in Signs(g \in Tame) /\ w \in Int /\ 0 <= w /\ w <= r
    BY <1>2, <2>2 DEF Within
  <2> QED BY <1>3, <2>2, <2>3
<1>5. PICK d \in 0 .. W : d = DPrime /\ d # 0
  BY KeyOf, Constants DEF PlainInv
<1>6. LogOf(a, w) \in 1 .. N - 1
  <2>1. CASE g \in Tame
    <3>1. a = 0 /\ 0 * d + w = w /\ w >= 1
      BY <1>1, <1>4, <2>1 DEF Signs, PlainInv
    <3>2. w \in 1 .. N - 1
      BY <1>3, <1>4, <3>1, Constants
    <3>3. w % N = w
      BY <3>2, Constants, ModSmall
    <3> QED BY <1>5, <3>1, <3>2, <3>3 DEF LogOf
  <2>2. CASE g \notin Tame
    <3>1. a = 1 /\ 1 * d + w = d + w
      BY <1>4, <2>2 DEF Signs
    <3>2. d + w \in 1 .. N - 1
      BY <1>3, <1>4, <1>5, Constants
    <3>3. (d + w) % N = d + w
      BY <3>2, Constants, ModSmall
    <3> QED BY <1>5, <3>1, <3>2, <3>3 DEF LogOf
  <2> QED BY <2>1, <2>2
<1> QED BY <1>2, <1>6, GroupAssumption DEF GroupLaws

LEMMA FixedNext == [Next]_vars => UNCHANGED fixed
BY DEF Next, ShortCircuit, Setup, Launch, OutOfBudget, Step, Synchronize, Join, NextRound,
       Verify, vars, fixed

LEMMA PlainStep ==
    ASSUME SearchInv, OffInfinity, PlainInv, ~NegMap, [Next]_vars
    PROVE  PlainInv'
<1>1. key' = key
  BY FixedNext DEF fixed
<1>2. CASE Setup
  <2>1. key # Lo
    BY <1>2, InfinityIsLo DEF Setup, SearchInv
  <2>2. ASSUME NEW g \in Tame PROVE dist'[g] >= 1
    <3>1. g \in Kangaroos
      BY DEF Kangaroos
    <3>2. dist'[g] = StartDist(g)
      BY <1>2, <3>1 DEF Setup, Signed, Flips
    <3>3. StartDist(g) \in 0 .. W + Herd /\ StartDist(g) # 0
      BY <3>1, StartDistIs
    <3> QED BY <3>2, <3>3, Constants
  <2> QED BY <1>1, <2>1, <2>2 DEF PlainInv
<1>3. CASE \E g \in Kangaroos : Step(g)
  <2>1. PICK g \in Kangaroos : Step(g)
    BY <1>3
  <2>2. PICK w : dist' = [dist EXCEPT ![g] = w] /\ w >= dist[g] /\ w \in Int
    BY <2>1, StepStands DEF Within
  <2>3. Herding /\ pc' = pc
    BY <2>1 DEF Step, Herding
  <2>4. \A h \in Tame : dist'[h] >= 1
    <3> SUFFICES ASSUME NEW h \in Tame PROVE dist'[h] >= 1
      OBVIOUS
    <3>1. dist[h] >= 1 /\ dist[h] \in Int
      <4>1. h \in Kangaroos
        BY DEF Kangaroos
      <4> QED BY <2>3, <4>1 DEF PlainInv, SearchInv, HerdBacked, Within
    <3>2. h \in DOMAIN dist
      <4>1. h \in Kangaroos
        BY DEF Kangaroos
      <4> QED BY <4>1 DEF SearchInv, KangarooType, IsHerd
    <3> QED BY <2>2, <3>1, <3>2
  <2> QED BY <1>1, <2>3, <2>4 DEF PlainInv
<1>4. CASE ShortCircuit \/ Launch \/ OutOfBudget \/ Synchronize \/ Join \/ NextRound \/ Verify
           \/ UNCHANGED vars
  <2>1. dist' = dist /\ (Herding' => Herding)
    BY <1>4 DEF ShortCircuit, Launch, OutOfBudget, Synchronize, Join, NextRound, Verify, vars,
                herd, Herding
  <2> QED BY <1>1, <2>1 DEF PlainInv
<1> QED BY <1>2, <1>3, <1>4 DEF Next

LEMMA StepType ==
    ASSUME SearchInv, OffInfinity, NEW g \in Kangaroos, Step(g)
    PROVE  KangarooType'
<1>1. /\ pc' = pc /\ px' = px /\ round' = round /\ left[g] > 0 /\ UNCHANGED fixed
      /\ left' = [left EXCEPT ![g] = @ - 1] /\ pc = "walk"
  BY DEF Step
<1>2. KangarooType
  BY DEF SearchInv
<1>3. PICK R, w, a :
          /\ Report(g, R, w, a)
          /\ pt' = [pt EXCEPT ![g] = Folded(R)]
          /\ dist' = [dist EXCEPT ![g] = w]
          /\ sgn' = [sgn EXCEPT ![g] = a]
  BY StepStands
<1>4. left' \in [Kangaroos -> 0 .. Steps]
  BY <1>1, <1>2, Constants DEF KangarooType
<1>5. buf' \in Seq(Reports')
  <2>1. CASE buf' = buf
    BY <1>2, <2>1 DEF KangarooType, Reports
  <2>2. CASE buf' # buf
    <3>1. PICK r : buf' = Append(buf, r)
      BY <1>3, <2>2 DEF Report
    <3> QED BY <1>2, <3>1, AppendReports DEF KangarooType
  <2> QED BY <2>1, <2>2
<1> QED BY <1>1, <1>2, <1>3, <1>4, <1>5 DEF KangarooType, IsHerd, fixed

LEMMA PlainNext ==
    ASSUME SearchInv, OffInfinity, PlainInv, ~NegMap, [Next]_vars
    PROVE  KangarooType' /\ HerdBacked' /\ PlainInv'
<1>1. PlainInv'
  BY PlainStep
<1>2. CASE \E g \in Kangaroos : Step(g)
  BY <1>1, <1>2, StepType, StepHerd
<1>3. CASE ~\E g \in Kangaroos : Step(g)
  <2>1. SearchInv'
    BY <1>3, SearchShortCircuit, SearchSetup, SearchLaunch, SearchSynchronize, SearchJoin,
       SearchEnds DEF Next
  <2> QED BY <1>1, <2>1 DEF SearchInv
<1> QED BY <1>2, <1>3

\* Without the negation map, and with the key in the interval, no kangaroo gets
\* to the point at infinity; so the plain build's first candidate is the key
\* and the search does not go on over a collision it has, whatever the jumps,
\* the herds and the interleaving of the threads.
THEOREM PlainSearchIsSound ==
    Spec => [](~NegMap /\ InRange =>
                 OffInfinity /\ CandidateIsKey /\ NoMissedCollision /\ Bookkeeping)
<1>1. Init => SearchInv /\ OffInfinity /\ PlainInv
  <2>1. Init => OffInfinity /\ PlainInv
    BY DEF Init, OffInfinity, PlainInv, Herding
  <2> QED BY <2>1, SearchInit
<1>2. SearchInv /\ OffInfinity /\ PlainInv /\ ~NegMap /\ [Next]_vars
        => KangarooType' /\ HerdBacked' /\ PlainInv'
  BY PlainNext
<1>3. KangarooType /\ HerdBacked /\ PlainInv /\ ~NegMap /\ InRange => OffInfinity
  BY PlainIsOff
<1>4. SearchInv /\ OffInfinity /\ OffInfinity' /\ [Next]_vars => SearchInv'
  BY SearchNext
<1>5. [Next]_vars => (NegMap' <=> NegMap) /\ (InRange' <=> InRange)
  BY FixedNext, FixedMeaning
<1>6. SearchInv => CandidateIsKey /\ NoMissedCollision /\ Bookkeeping
  BY HerdIsBooked DEF SearchInv
<1> QED BY <1>1, <1>2, <1>3, <1>4, <1>5, <1>6, PTL DEF Spec

\* CandidateIsKey and NoMissedCollision of the plain build, whatever the key:
\* both say nothing of a key outside the interval there.
COROLLARY PlainBuildFindsKey ==
    ASSUME Builds = {"base"}
    PROVE  Spec => [](CandidateIsKey /\ NoMissedCollision)
<1>1. ~InRange /\ ~NegMap => CandidateIsKey /\ NoMissedCollision
  BY DEF CandidateIsKey, NoMissedCollision
<1>2. Init => ~NegMap
  BY DEF Init, NegMap
<1>3. ~NegMap /\ [Next]_vars => ~NegMap'
  BY FixedNext, FixedMeaning
<1> QED BY <1>1, <1>2, <1>3, PlainSearchIsSound, PTL DEF Spec

=============================================================================
