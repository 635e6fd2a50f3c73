------------------------- MODULE KangarooRef_proofs -------------------------
(***************************************************************************)
(* Proofs about the serial references of the kangaroo solver.              *)
(***************************************************************************)
EXTENDS KangarooRef, Numbers_proofs, SequenceTheorems

-----------------------------------------------------------------------------
(* Logarithms *)

LogOf(a, w) == (a * DPrime + w) % N

\* The signs of a tame and of a wild kangaroo.
Signs(tame) == IF tame THEN {0} ELSE IF NegMap THEN {1, -1} ELSE {1}

\* A state <<point, a, w>> whose point is (a * d' + w) * G, folded if the build
\* folds.
Backed(tame, s) ==
    /\ s[1] \in 0 .. N - 1 /\ s[2] \in Signs(tame) /\ s[3] \in Int
    /\ s[1] = LogOf(s[2], s[3])
    /\ NegMap => ~YIsOdd[s[1]]

\* A table's entry <<a, w>> for x: the x of such a point.
Entry(tame, t, x) ==
    /\ t[1] \in Signs(tame) /\ t[2] \in Int
    /\ x = XOf[LogOf(t[1], t[2])]
    /\ NegMap => LogOf(t[1], t[2]) # Identity /\ ~YIsOdd[LogOf(t[1], t[2])]

CallType ==
    build \in Builds /\ width \in Widths /\ key \in Keys /\ scalars \in JumpTables

RefInv ==
    /\ CallType
    /\ DOMAIN pos = Kangaroos /\ DOMAIN sgn = Kangaroos /\ DOMAIN dist = Kangaroos
    /\ \A i \in Kangaroos : Backed(i \in Tame, State(i))
    /\ \A x \in DOMAIN tameDP : Entry(TRUE, tameDP[x], x)
    /\ \A x \in DOMAIN wildDP : Entry(FALSE, wildDP[x], x)

LEMMA Constants ==
    /\ N \in Nat \ {0} /\ N > 2 /\ Herd \in Nat \ {0} /\ Lo \in Nat
    /\ MaxCyc \in Nat /\ MaxSteps \in Nat
BY CurveAssumption, KangarooRefAssumption

LEMMA CallIs ==
    ASSUME CallType
    PROVE  /\ width \in Nat /\ key \in 1 .. N - 1
           /\ scalars \in Seq(1 .. N - 1) /\ scalars # <<>>
           /\ NegMap \in BOOLEAN
BY KangarooRefAssumption DEF CallType, NegMap

\* Shifted is d' as a residue.
LEMMA ShiftedIs ==
    ASSUME CallType
    PROVE  /\ DPrime \in Int /\ Shifted \in 0 .. N - 1 /\ DPrime % N = Shifted
           /\ InRange => DPrime \in 0 .. width /\ key = Lo + DPrime
<1>1. N \in Nat \ {0} /\ Lo \in Nat /\ key \in 1 .. N - 1 /\ width \in Nat
  BY Constants, CallIs
<1>2. PICK q \in Int, l \in 0 .. N - 1 : l = Lo % N /\ Lo = N * q + l
  <2>1. /\ Lo \div N \in Int /\ Lo % N \in 0 .. N - 1
        /\ Lo = N * (Lo \div N) + (Lo % N)
    BY <1>1, IntDivMod
  <2> QED BY <2>1
<1>3. Shifted = (key + N - l) % N /\ key + N - l \in Int
  BY <1>1, <1>2 DEF Shifted
<1>4. Shifted \in 0 .. N - 1
  BY <1>1, <1>3, IntDivMod
<1>5. CASE InRange
  <2>1. DPrime = key - Lo /\ DPrime \in 0 .. width
    BY <1>5 DEF DPrime, InRange
  <2>2. PICK k \in Int, n \in Nat \ {0} : k = q + 1 /\ n = N
    BY <1>1, <1>2
  <2>3. ((key - Lo) + (n * k)) % n = (key - Lo) % n
    <3>1. key - Lo \in Int
      BY <1>1
    <3> QED BY <2>2, <3>1, ModTurns
  <2>4. n * k = n * q + n
    BY <1>2, <2>2
  <2>5. PICK nq \in Int : nq = n * q
    BY <1>2, <2>2
  <2>6. (key - Lo) + (n * k) = key + N - l
    BY <1>1, <1>2, <2>2, <2>4, <2>5
  <2> QED BY <1>1, <1>3, <1>4, <2>1, <2>2, <2>3, <2>6
<1>6. CASE ~InRange
  <2>1. DPrime = Shifted
    BY <1>6 DEF DPrime
  <2> QED BY <1>1, <1>4, <1>6, <2>1, ModSmall
<1> QED BY <1>5, <1>6

LEMMA SignType ==
    ASSUME NEW tame, NEW a \in Signs(tame)
    PROVE  a \in {0, 1, -1} /\ -a \in {0, 1, -1} /\ (NegMap => -a \in Signs(tame))
BY DEF Signs

LEMMA LogType ==
    ASSUME CallType, NEW a \in {0, 1, -1}, NEW w \in Int
    PROVE  a * DPrime \in Int /\ LogOf(a, w) \in 0 .. N - 1
<1>1. PICK d \in Int : d = DPrime
  BY ShiftedIs
<1>2. a * d \in Int
  BY <1>1
<1>3. a * d + w \in Int
  BY <1>2
<1>4. (a * d + w) % N \in 0 .. N - 1
  BY <1>3, IntDivMod, Constants
<1> QED BY <1>1, <1>2, <1>4 DEF LogOf

LEMMA LogAdd ==
    ASSUME CallType, NEW a \in {0, 1, -1}, NEW w \in Int, NEW s \in Int
    PROVE  LogOf(a, w + s) = (LogOf(a, w) + s) % N
<1>1. PICK q \in Int : q = a * DPrime
  BY LogType
<1>2. (((q + w) % N) + s) % N = ((q + w) + s) % N
  <2>1. q + w \in Int
    OBVIOUS
  <2> QED BY <2>1, Constants, ModShift
<1>3. q + (w + s) = (q + w) + s
  OBVIOUS
<1> QED BY <1>1, <1>2, <1>3 DEF LogOf

LEMMA LogNegate ==
    ASSUME CallType, NEW a \in {0, 1, -1}, NEW w \in Int, LogOf(a, w) # 0
    PROVE  LogOf(-a, -w) = N - LogOf(a, w)
<1>1. PICK q \in Int : q = a * DPrime
  BY LogType
<1>2. (-a) * DPrime = -q
  <2>1. PICK d \in Int : d = DPrime
    BY ShiftedIs
  <2>2. (-a) * d = -(a * d)
    OBVIOUS
  <2> QED BY <1>1, <2>1, <2>2
<1>3. q + w \in Int /\ (-q) + (-w) = -(q + w)
  OBVIOUS
<1>4. (q + w) % N # 0
  BY <1>1 DEF LogOf
<1>5. (-(q + w)) % N = N - ((q + w) % N)
  BY <1>3, <1>4, Constants, ModNegate
<1> QED BY <1>1, <1>2, <1>3, <1>5 DEF LogOf

LEMMA OddIs ==
    \A e \in 1 .. N - 1 :
        /\ N - e \in 1 .. N - 1
        /\ YIsOdd[e] \in BOOLEAN /\ (YIsOdd[N - e] <=> ~YIsOdd[e])
<1> SUFFICES ASSUME NEW e \in 1 .. N - 1
             PROVE  /\ N - e \in 1 .. N - 1
                    /\ YIsOdd[e] \in BOOLEAN /\ (YIsOdd[N - e] <=> ~YIsOdd[e])
  OBVIOUS
<1>1. N - e \in 1 .. N - 1
  BY Constants
<1>2. \A k \in 1 .. N - 1 : YIsOdd[k] = FeIsOdd(MulG[k].y)
  <2> SUFFICES ASSUME NEW k \in 1 .. N - 1 PROVE YIsOdd[k] = FeIsOdd(MulG[k].y)
    OBVIOUS
  <2>1. k \in 0 .. N - 1 /\ k # Identity
    BY Constants DEF Identity
  <2> QED BY <2>1 DEF YIsOdd, FeIsOdd
<1>3. FeIsOdd(MulG[N - e].y) <=> ~FeIsOdd(MulG[e].y)
  BY GroupAssumption DEF GroupLaws
<1>4. FeIsOdd(MulG[e].y) \in BOOLEAN
  BY DEF FeIsOdd
<1> QED BY <1>1, <1>2, <1>3, <1>4

\* _canon keeps the bookkeeping.
LEMMA FoldedIsBacked ==
    ASSUME CallType, NEW tame, NEW a \in Signs(tame), NEW w \in Int
    PROVE  Backed(tame, Folded(LogOf(a, w), a, w))
<1>1. a \in {0, 1, -1} /\ -a \in {0, 1, -1} /\ (NegMap => -a \in Signs(tame))
  BY SignType
<1>2. PICK e \in 0 .. N - 1 : e = LogOf(a, w)
  BY <1>1, LogType
<1>3. CASE NegMap /\ YIsOdd[e]
  <2>1. e # 0
    BY <1>2, <1>3, Constants DEF YIsOdd, Identity
  <2>2. e \in 1 .. N - 1
    BY <1>2, <2>1, Constants
  <2>3. N - e \in 1 .. N - 1 /\ ~YIsOdd[N - e]
    BY <1>3, <2>2, OddIs
  <2>4. LogOf(-a, -w) = N - e
    BY <1>1, <1>2, <2>1, LogNegate
  <2>5. Folded(e, a, w) = <<N - e, -a, -w>>
    BY <1>3 DEF Folded
  <2>6. Backed(tame, <<N - e, -a, -w>>)
    BY <1>1, <1>3, <2>3, <2>4, Constants DEF Backed
  <2> QED BY <1>2, <2>5, <2>6
<1>4. CASE ~(NegMap /\ YIsOdd[e])
  <2>1. Folded(e, a, w) = <<e, a, w>>
    BY <1>4 DEF Folded
  <2>2. Backed(tame, <<e, a, w>>)
    BY <1>2, <1>4 DEF Backed
  <2> QED BY <1>2, <2>1, <2>2
<1> QED BY <1>3, <1>4

\* A jump of s and the fold after it.
LEMMA JumpIsBacked ==
    ASSUME CallType, NEW tame, NEW s, Backed(tame, s), NEW j \in Int
    PROVE  Backed(tame, Folded((s[1] + j) % N, s[2], s[3] + j))
<1>1. PICK a \in Signs(tame), w \in Int : a = s[2] /\ w = s[3] /\ s[1] = LogOf(a, w)
  BY DEF Backed
<1>2. a \in {0, 1, -1} /\ w + j \in Int
  BY SignType
<1>3. LogOf(a, w + j) = (s[1] + j) % N
  <2>1. LogOf(a, w + j) = (LogOf(a, w) + j) % N
    BY <1>2, LogAdd
  <2> QED BY <1>1, <2>1
<1>4. Backed(tame, Folded(LogOf(a, w + j), a, w + j))
  BY <1>2, FoldedIsBacked
<1> QED BY <1>1, <1>3, <1>4

LEMMA XIs == \A e \in 0 .. N - 1 : XOf[e] \in Nat
<1> SUFFICES ASSUME NEW e \in 0 .. N - 1 PROVE XOf[e] \in Nat
  OBVIOUS
<1>1. CASE e = 0
  BY <1>1 DEF XOf, Identity
<1>2. CASE e # 0
  <2>1. e \in 1 .. N - 1 /\ XOf[e] = MulG[e].x
    BY <1>2, Constants DEF XOf, Identity
  <2>2. MulG[e] \in CurvePoints /\ P \in Nat
    BY <2>1, GroupAssumption, CurveAssumption DEF GroupLaws
  <2> QED BY <2>1, <2>2 DEF CurvePoints, Fe
<1> QED BY <1>1, <1>2

LEMMA JumpIs ==
    ASSUME CallType, NEW e \in 0 .. N - 1
    PROVE  /\ JumpOf(e) \in 1 .. N - 1
           /\ \E i \in DOMAIN scalars : JumpOf(e) = scalars[i]
<1>1. PICK x \in Nat : x = XOf[e]
  BY XIs
<1>2. scalars \in Seq(1 .. N - 1) /\ scalars # <<>>
  BY CallIs
<1>3. PICK n \in Nat \ {0} : n = Len(scalars) /\ DOMAIN scalars = 1 .. n
  BY <1>2
<1>4. x % n \in 0 .. n - 1
  BY <1>1, <1>3, DivMod
<1>5. 1 + (x % n) \in DOMAIN scalars
  BY <1>3, <1>4
<1>6. JumpOf(e) = scalars[1 + (x % n)]
  BY <1>1, <1>3 DEF JumpOf
<1>7. PICK k \in DOMAIN scalars : k = 1 + (x % n)
  BY <1>5
<1>8. scalars[k] \in 1 .. N - 1
  <2>1. scalars \in [1 .. n -> 1 .. N - 1]
    BY <1>2, <1>3, LenProperties
  <2> QED BY <1>3, <1>7, <2>1
<1> QED BY <1>6, <1>7, <1>8

LEMMA StepIsBacked ==
    ASSUME CallType, NEW tame, NEW s, Backed(tame, s)
    PROVE  Backed(tame, Step(s))
<1>1. s[1] \in 0 .. N - 1
  BY DEF Backed
<1>2. PICK j \in Int : j = JumpOf(s[1])
  BY <1>1, JumpIs
<1> QED BY <1>2, JumpIsBacked DEF Step

-----------------------------------------------------------------------------
(* The way through a cycle *)

\* The walk of n steps from s: Traverse's recursive function, which exists.
IsWalk(f, s, m) == f = [n \in 0 .. m |-> IF n = 0 THEN s ELSE Step(f[n - 1])]

LEMMA WalkExists ==
    ASSUME NEW s, NEW m \in Nat
    PROVE  \E f : IsWalk(f, s, m)
<1> DEFINE T == {n \in Nat : \E f : IsWalk(f, s, n)}
<1>1. 0 \in T
  <2> DEFINE f == [n \in 0 .. 0 |-> s]
  <2>1. f = [n \in 0 .. 0 |-> IF n = 0 THEN s ELSE Step(f[n - 1])]
    OBVIOUS
  <2> HIDE DEF f
  <2> QED BY <2>1 DEF IsWalk
<1>2. ASSUME NEW n \in Nat, n \in T
      PROVE  n + 1 \in T
  <2>1. PICK f : f = [k \in 0 .. n |-> IF k = 0 THEN s ELSE Step(f[k - 1])]
    BY <1>2 DEF IsWalk
  <2> DEFINE h == [k \in 0 .. n + 1 |-> IF k = 0 THEN s ELSE Step(f[k - 1])]
  <2>2. \A k \in 0 .. n : h[k] = f[k]
    <3> SUFFICES ASSUME NEW k \in 0 .. n PROVE h[k] = f[k]
      OBVIOUS
    <3>1. f[k] = IF k = 0 THEN s ELSE Step(f[k - 1])
      BY <2>1
    <3>2. h[k] = IF k = 0 THEN s ELSE Step(f[k - 1])
      OBVIOUS
    <3> QED BY <3>1, <3>2
  <2>3. h = [k \in 0 .. n + 1 |-> IF k = 0 THEN s ELSE Step(h[k - 1])]
    <3>1. \A k \in 0 .. n + 1 : k # 0 => h[k - 1] = f[k - 1]
      <4> SUFFICES ASSUME NEW k \in 0 .. n + 1, k # 0 PROVE h[k - 1] = f[k - 1]
        OBVIOUS
      <4>1. k - 1 \in 0 .. n
        OBVIOUS
      <4> QED BY <2>2, <4>1
    <3>2. \A k \in 0 .. n + 1 :
             (IF k = 0 THEN s ELSE Step(f[k - 1])) = (IF k = 0 THEN s ELSE Step(h[k - 1]))
      BY <3>1
    <3>3. h = [k \in 0 .. n + 1 |-> IF k = 0 THEN s ELSE Step(f[k - 1])]
      OBVIOUS
    <3> HIDE DEF h
    <3> QED BY <3>2, <3>3
  <2> HIDE DEF h
  <2> QED BY <2>3 DEF IsWalk
<1>3. Nat \subseteq T
  <2> HIDE DEF T
  <2> QED BY <1>1, <1>2, Induction
<1> QED BY <1>3

\* _escape's cycle consists of states of such a walk, and is not empty.
LEMMA TraverseIs ==
    ASSUME NEW s
    PROVE  \E f : /\ IsWalk(f, s, MaxCyc)
                  /\ Traverse(s) # {}
                  /\ \A t \in Traverse(s) : \E n \in 0 .. MaxCyc : t = f[n]
<1> DEFINE f == CHOOSE f : IsWalk(f, s, MaxCyc)
<1>1. IsWalk(f, s, MaxCyc)
  BY WalkExists, Constants
<1>2. Traverse(s) = UpToReturn(f)
  BY DEF Traverse, IsWalk
<1> HIDE DEF f
<1> DEFINE back == {n \in 1 .. MaxCyc : f[n][1] = f[0][1]}
           end == IF back = {} THEN MaxCyc + 1 ELSE CHOOSE n \in back : \A m \in back : n <= m
<1>3. end \in 1 .. MaxCyc + 1
  <2>1. CASE back = {}
    BY <2>1, Constants
  <2>2. CASE back # {}
    <3>1. back \subseteq Nat /\ back \subseteq 1 .. MaxCyc
      BY Constants
    <3>2. \E n \in back : \A m \in back : n <= m
      <4> HIDE DEF back
      <4> QED BY <2>2, <3>1, LeastExists
    <3>3. end \in back
      <4> HIDE DEF back
      <4> QED BY <2>2, <3>2
    <3> HIDE DEF end, back
    <3> QED BY <3>1, <3>3, Constants
  <2> QED BY <2>1, <2>2
<1>4. Traverse(s) = {f[n] : n \in 0 .. end - 1}
  BY <1>2 DEF UpToReturn
<1> HIDE DEF end
<1>5. 0 \in 0 .. end - 1 /\ 0 .. end - 1 \subseteq 0 .. MaxCyc
  BY <1>3, Constants
<1> QED BY <1>1, <1>4, <1>5

LEMMA WalkIsBacked ==
    ASSUME CallType, NEW tame, NEW s, Backed(tame, s), NEW m \in Nat, NEW f, IsWalk(f, s, m)
    PROVE  \A n \in 0 .. m : Backed(tame, f[n])
<1> DEFINE T == {n \in Nat : n <= m => Backed(tame, f[n])}
<1>1. f[0] = s /\ \A n \in 0 .. m : n # 0 => f[n] = Step(f[n - 1])
  BY DEF IsWalk
<1>2. 0 \in T
  BY <1>1
<1>3. ASSUME NEW n \in Nat, n \in T
      PROVE  n + 1 \in T
  <2> SUFFICES ASSUME n + 1 <= m PROVE Backed(tame, f[n + 1])
    OBVIOUS
  <2>1. Backed(tame, f[n])
    BY <1>3
  <2>2. n + 1 \in 0 .. m /\ n + 1 # 0 /\ (n + 1) - 1 = n
    OBVIOUS
  <2>3. f[n + 1] = Step(f[n])
    BY <1>1, <2>2
  <2> QED BY <2>1, <2>3, StepIsBacked
<1>4. Nat \subseteq T
  <2> HIDE DEF T
  <2> QED BY <1>2, <1>3, Induction
<1> QED BY <1>4

LEMMA LeastXIs ==
    ASSUME NEW S, S # {}, \A t \in S : t[1] \in 0 .. N - 1
    PROVE  LeastX(S) \in S /\ \A u \in S : XOf[LeastX(S)[1]] <= XOf[u[1]]
<1> DEFINE B == {XOf[t[1]] : t \in S}
<1>1. B \subseteq Nat /\ B # {}
  BY XIs
<1>2. PICK b \in B : \A c \in B : b <= c
  <2> HIDE DEF B
  <2> QED BY <1>1, LeastExists
<1>3. \E t \in S : \A u \in S : XOf[t[1]] <= XOf[u[1]]
  BY <1>2
<1> QED BY <1>3 DEF LeastX

\* _escape keeps the bookkeeping.
LEMMA EscapeIsBacked ==
    ASSUME CallType, NEW tame, NEW s, Backed(tame, s)
    PROVE  Backed(tame, Escape(s))
<1>1. PICK f : /\ IsWalk(f, s, MaxCyc)
               /\ Traverse(s) # {}
               /\ \A t \in Traverse(s) : \E n \in 0 .. MaxCyc : t = f[n]
  BY TraverseIs
<1>2. \A t \in Traverse(s) : Backed(tame, t)
  BY <1>1, WalkIsBacked, Constants
<1>3. PICK t : t = LeastX(Traverse(s)) /\ t \in Traverse(s)
  BY <1>1, <1>2, LeastXIs DEF Backed
<1>4. Backed(tame, t)
  BY <1>2, <1>3
<1>5. Backed(tame, JumpByOne(t))
  BY <1>4, JumpIsBacked DEF JumpByOne
<1> QED BY <1>3, <1>5 DEF Escape

LEMMA MovedIsBacked ==
    ASSUME RefInv, NEW i \in Kangaroos
    PROVE  Backed(i \in Tame, Moved(i))
<1>1. CallType /\ Backed(i \in Tame, State(i))
  BY DEF RefInv
<1>2. Backed(i \in Tame, Step(State(i)))
  BY <1>1, StepIsBacked
<1>3. Backed(i \in Tame, Escape(State(i)))
  BY <1>1, EscapeIsBacked
<1> QED BY <1>2, <1>3 DEF Moved

-----------------------------------------------------------------------------
(* The bookkeeping *)

LEMMA FixedMeaning ==
    ASSUME UNCHANGED call
    PROVE  /\ CallType' <=> CallType
           /\ Kangaroos' = Kangaroos /\ Tame' = Tame /\ Wild' = Wild
           /\ (NegMap' <=> NegMap) /\ (InRange' <=> InRange) /\ DPrime' = DPrime
           /\ \A tame, s : Backed(tame, s)' <=> Backed(tame, s)
           /\ \A tame, t, x : Entry(tame, t, x)' <=> Entry(tame, t, x)
<1>1. build' = build /\ width' = width /\ key' = key /\ scalars' = scalars
  BY DEF call
<1>2. (NegMap' <=> NegMap) /\ (InRange' <=> InRange)
  BY <1>1 DEF NegMap, InRange
<1>3. DPrime' = DPrime
  BY <1>1 DEF DPrime, InRange, Shifted
<1>4. \A a, w : LogOf(a, w)' = LogOf(a, w)
  BY <1>3 DEF LogOf
<1>5. \A tame : Signs(tame)' = Signs(tame)
  BY <1>1 DEF Signs, NegMap
<1>6. \A tame, s : Backed(tame, s)' <=> Backed(tame, s)
  BY <1>2, <1>4, <1>5 DEF Backed
<1>7. \A tame, t, x : Entry(tame, t, x)' <=> Entry(tame, t, x)
  BY <1>2, <1>4, <1>5 DEF Entry
<1>8. Kangaroos' = Kangaroos /\ Tame' = Tame /\ Wild' = Wild
  BY <1>1 DEF Kangaroos, Tame, Wild, Size, NegMap
<1> QED BY <1>1, <1>2, <1>3, <1>6, <1>7, <1>8 DEF CallType

LEMMA HerdsAre ==
    /\ Size \in Nat \ {0}
    /\ \A i \in Kangaroos : i \in Nat \ {0} /\ (i \in Wild <=> i \notin Tame)
    /\ Tame \subseteq Kangaroos /\ Wild \subseteq Kangaroos
BY Constants DEF Size, Kangaroos, Tame, Wild

LEMMA TameLog ==
    ASSUME CallType, NEW w \in Int
    PROVE  LogOf(0, w) = w % N
<1>1. PICK d \in Int : d = DPrime
  BY ShiftedIs
<1>2. 0 * d + w = w
  BY <1>1
<1> QED BY <1>1, <1>2 DEF LogOf

LEMMA StartIsBacked ==
    ASSUME CallType, NEW i \in Kangaroos
    PROVE  Backed(i \in Tame, Start(i))
<1>1. width \in Nat /\ Herd \in Nat \ {0} /\ i \in Nat /\ N \in Nat \ {0}
  BY CallIs, Constants, HerdsAre
<1>2. \A g \in Int : Offset(g) \in Int
  <2>1. width \div Herd \in Int
    BY <1>1, IntDivMod
  <2>2. PICK st \in Int : st = Stride
    BY <2>1 DEF Stride
  <2>3. st \div 2 \in Int /\ \A g \in Int : g * st \in Int
    BY <2>2
  <2> QED BY <2>2, <2>3 DEF Offset
<1>3. DPrime \in Int /\ Shifted \in 0 .. N - 1 /\ DPrime % N = Shifted
  BY ShiftedIs
\* A tame start: a multiple of G.
<1>4. \A w \in Int : LogOf(0, w) = w % N
  BY TameLog
\* A wild one: Q' and a multiple of G.
<1>5. \A w \in Int : LogOf(1, w) = (Shifted + w) % N
  <2> SUFFICES ASSUME NEW w \in Int PROVE LogOf(1, w) = (Shifted + w) % N
    OBVIOUS
  <2>1. PICK d \in Int : d = DPrime
    BY <1>3
  <2>2. ((d % N) + w) % N = (d + w) % N
    BY <1>1, <2>1, ModShift
  <2>3. 1 * d + w = d + w
    BY <2>1
  <2> QED BY <1>3, <2>1, <2>2, <2>3 DEF LogOf
<1>6. CASE i \in Tame
  <2>1. 0 \in Signs(i \in Tame)
    BY <1>6 DEF Signs
  <2>2. CASE NegMap
    <3>1. PICK w \in Int : w = AtLeastOne(Offset(i - 1))
      BY <1>1, <1>2 DEF AtLeastOne
    <3>2. Start(i) = Folded(LogOf(0, w), 0, w)
      BY <1>4, <1>6, <2>2, <3>1 DEF Start
    <3> QED BY <2>1, <3>2, FoldedIsBacked
  <2>3. CASE ~NegMap
    <3>1. PICK w \in Int : w = width \div 2
      BY <1>1
    <3>2. Start(i) = <<LogOf(0, w), 0, w>>
      BY <1>4, <1>6, <2>3, <3>1 DEF Start
    <3>3. LogOf(0, w) \in 0 .. N - 1
      BY LogType
    <3> QED BY <2>1, <2>3, <3>2, <3>3 DEF Backed
  <2> QED BY <2>2, <2>3
<1>7. CASE i \notin Tame
  <2>1. 1 \in Signs(i \in Tame)
    BY <1>7 DEF Signs
  <2>2. CASE NegMap
    <3>1. PICK w \in Int : w = Offset(i - Herd - 1)
      BY <1>1, <1>2
    <3>2. Start(i) = Folded(LogOf(1, w), 1, w)
      BY <1>5, <1>7, <2>2, <3>1 DEF Start
    <3> QED BY <2>1, <3>2, FoldedIsBacked
  <2>3. CASE ~NegMap
    <3>1. Start(i) = <<Shifted, 1, 0>>
      BY <1>7, <2>3 DEF Start
    <3>2. LogOf(1, 0) = Shifted
      <4>1. LogOf(1, 0) = (Shifted + 0) % N
        BY <1>5
      <4>2. Shifted + 0 = Shifted /\ Shifted % N = Shifted
        BY <1>1, <1>3, ModSmall
      <4> QED BY <4>1, <4>2
    <3> QED BY <1>3, <2>1, <2>3, <3>1, <3>2 DEF Backed
  <2> QED BY <2>2, <2>3
<1> QED BY <1>6, <1>7

LEMMA RefInit == Init => RefInv
<1> SUFFICES ASSUME Init PROVE RefInv
  OBVIOUS
<1>1. CallType
  BY DEF Init, CallType
<1>2. ASSUME NEW i \in Kangaroos PROVE Backed(i \in Tame, State(i))
  <2>1. Backed(i \in Tame, Start(i))
    BY <1>1, StartIsBacked
  <2>2. State(i) = <<Start(i)[1], Start(i)[2], Start(i)[3]>>
    BY DEF Init, State
  <2> QED BY <2>1, <2>2 DEF Backed
<1>3. DOMAIN tameDP = {} /\ DOMAIN wildDP = {}
  BY DEF Init
<1>4. DOMAIN pos = Kangaroos /\ DOMAIN sgn = Kangaroos /\ DOMAIN dist = Kangaroos
  BY DEF Init
<1> QED BY <1>1, <1>2, <1>3, <1>4 DEF RefInv

\* A move to a backed state keeps every kangaroo backed.
LEMMA MoveToIsBacked ==
    ASSUME RefInv, NEW i \in Kangaroos, MoveTo(i, Moved(i)), UNCHANGED call
    PROVE  /\ DOMAIN pos' = Kangaroos /\ DOMAIN sgn' = Kangaroos /\ DOMAIN dist' = Kangaroos
           /\ \A k \in Kangaroos : Backed(k \in Tame, State(k))'
<1>1. PICK s : s = Moved(i) /\ Backed(i \in Tame, s)
  BY MovedIsBacked
<1>2. /\ pos' = [pos EXCEPT ![i] = s[1]]
      /\ sgn' = [sgn EXCEPT ![i] = s[2]]
      /\ dist' = [dist EXCEPT ![i] = s[3]]
  BY <1>1 DEF MoveTo
<1>3. DOMAIN pos = Kangaroos /\ DOMAIN sgn = Kangaroos /\ DOMAIN dist = Kangaroos
  BY DEF RefInv
<1>4. ASSUME NEW k \in Kangaroos PROVE Backed(k \in Tame, State(k))'
  <2>1. PICK t : t = State(k)'
    OBVIOUS
  <2>2. Backed(k \in Tame, t)
    <3>1. CASE k = i
      <4>1. t = <<s[1], s[2], s[3]>>
        BY <1>2, <1>3, <2>1, <3>1 DEF State
      <4> QED BY <1>1, <3>1, <4>1 DEF Backed
    <3>2. CASE k # i
      <4>1. t = State(k)
        BY <1>2, <1>3, <2>1, <3>2 DEF State
      <4> QED BY <4>1 DEF RefInv
    <3> QED BY <3>1, <3>2
  <2>3. Backed(k \in Tame, t)'
    BY <2>2, FixedMeaning
  <2> QED BY <2>1, <2>3, FixedMeaning
<1> QED BY <1>2, <1>3, <1>4

\* What a kangaroo reports belongs in its herd's table.
LEMMA ReportIsBacked ==
    ASSUME NEW tame \in BOOLEAN, NEW table, NEW s, Backed(tame, s),
           NegMap => s[1] # Identity,
           \A x \in DOMAIN table : Entry(tame, table[x], x)
    PROVE  \A x \in DOMAIN Report(table, s) : Entry(tame, Report(table, s)[x], x)
<1>1. Entry(tame, <<s[2], s[3]>>, XOf[s[1]])
  BY DEF Backed, Entry
<1>2. CASE NegMap /\ XOf[s[1]] \in DOMAIN table
  BY <1>2 DEF Report
<1>3. CASE ~(NegMap /\ XOf[s[1]] \in DOMAIN table)
  <2>1. Report(table, s) =
          [z \in DOMAIN table \cup {XOf[s[1]]} |->
              IF z = XOf[s[1]] THEN <<s[2], s[3]>> ELSE table[z]]
    BY <1>3 DEF Report, Put
  <2> SUFFICES ASSUME NEW x \in DOMAIN table \cup {XOf[s[1]]}
               PROVE  Entry(tame, Report(table, s)[x], x)
    BY <2>1
  <2>2. Report(table, s)[x] = IF x = XOf[s[1]] THEN <<s[2], s[3]>> ELSE table[x]
    BY <2>1
  <2> QED BY <1>1, <2>2
<1> QED BY <1>2, <1>3

LEMMA RefMove ==
    ASSUME RefInv, NEW i \in Kangaroos, Move(i)
    PROVE  RefInv'
<1>1. PICK s : /\ s = Moved(i)
               /\ NegMap => pos[i] # Identity /\ s[1] # Identity
               /\ MoveTo(i, s) /\ UNCHANGED call
               /\ tameDP' \in {tameDP, IF i \in Tame THEN Report(tameDP, s) ELSE tameDP}
               /\ wildDP' \in {wildDP, IF i \in Wild THEN Report(wildDP, s) ELSE wildDP}
  BY DEF Move
<1>2. Backed(i \in Tame, s)
  BY <1>1, MovedIsBacked
<1>3. PICK m, n : m = tameDP' /\ n = wildDP'
  OBVIOUS
<1>4. \A x \in DOMAIN m : Entry(TRUE, m[x], x)
  <2>1. CASE m = tameDP
    BY <2>1 DEF RefInv
  <2>2. CASE m # tameDP
    <3>1. i \in Tame /\ m = Report(tameDP, s)
      BY <1>1, <1>3, <2>2
    <3>2. Backed(TRUE, s)
      BY <1>2, <3>1 DEF Backed, Signs
    <3> QED BY <1>1, <3>1, <3>2, ReportIsBacked DEF RefInv
  <2> QED BY <2>1, <2>2
<1>5. \A x \in DOMAIN n : Entry(FALSE, n[x], x)
  <2>1. CASE n = wildDP
    BY <2>1 DEF RefInv
  <2>2. CASE n # wildDP
    <3>1. i \notin Tame /\ n = Report(wildDP, s)
      BY <1>1, <1>3, <2>2, HerdsAre
    <3>2. Backed(FALSE, s)
      BY <1>2, <3>1 DEF Backed, Signs
    <3> QED BY <1>1, <3>1, <3>2, ReportIsBacked DEF RefInv
  <2> QED BY <2>1, <2>2
<1>6. /\ \A x \in DOMAIN m : Entry(TRUE, m[x], x)'
      /\ \A x \in DOMAIN n : Entry(FALSE, n[x], x)'
  BY <1>1, <1>4, <1>5, FixedMeaning
<1>7. /\ DOMAIN pos' = Kangaroos /\ DOMAIN sgn' = Kangaroos /\ DOMAIN dist' = Kangaroos
      /\ \A k \in Kangaroos : Backed(k \in Tame, State(k))'
  BY <1>1, MoveToIsBacked
<1>8. CallType' /\ Kangaroos' = Kangaroos
  BY <1>1, FixedMeaning DEF RefInv
<1> QED BY <1>3, <1>6, <1>7, <1>8 DEF RefInv

\* What leaves the herds and the tables alone.
LEMMA RefStays ==
    ASSUME RefInv, UNCHANGED <<call, herds, tameDP, wildDP>>
    PROVE  RefInv'
<1>1. PICK m, n : m = tameDP /\ n = wildDP /\ m = tameDP' /\ n = wildDP'
  OBVIOUS
<1>2. /\ \A x \in DOMAIN m : Entry(TRUE, m[x], x)'
      /\ \A x \in DOMAIN n : Entry(FALSE, n[x], x)'
  BY <1>1, FixedMeaning DEF RefInv
<1>3. ASSUME NEW k \in Kangaroos PROVE Backed(k \in Tame, State(k))'
  <2>1. PICK t : t = State(k) /\ t = State(k)'
    BY DEF herds, State
  <2>2. Backed(k \in Tame, t)'
    BY <2>1, FixedMeaning DEF RefInv
  <2> QED BY <2>1, <2>2, FixedMeaning
<1>4. CallType' /\ Kangaroos' = Kangaroos
  BY FixedMeaning DEF RefInv
<1> QED BY <1>1, <1>2, <1>3, <1>4 DEF RefInv, herds

LEMMA RefNext ==
    ASSUME RefInv, [Next]_vars
    PROVE  RefInv'
<1>1. CASE \E i \in Kangaroos : Move(i)
  BY <1>1, RefMove
<1>2. CASE \E i \in Kangaroos : Crash(i)
  <2>1. PICK i \in Kangaroos : Crash(i)
    BY <1>2
  <2>2. CASE UNCHANGED herds
    BY <2>1, <2>2, RefStays DEF Crash
  <2>3. CASE MoveTo(i, Moved(i))
    <3>1. UNCHANGED call /\ UNCHANGED <<tameDP, wildDP>>
      BY <2>1 DEF Crash
    <3>2. PICK m, n : m = tameDP /\ n = wildDP /\ m = tameDP' /\ n = wildDP'
      BY <3>1
    <3>3. /\ \A x \in DOMAIN m : Entry(TRUE, m[x], x)'
          /\ \A x \in DOMAIN n : Entry(FALSE, n[x], x)'
      BY <3>1, <3>2, FixedMeaning DEF RefInv
    <3>4. CallType' /\ Kangaroos' = Kangaroos
      BY <3>1, FixedMeaning DEF RefInv
    <3> QED BY <2>3, <3>1, <3>2, <3>3, <3>4, MoveToIsBacked DEF RefInv
  <2> QED BY <2>1, <2>2, <2>3 DEF Crash
<1>3. CASE GiveUp \/ UNCHANGED vars
  BY <1>3, RefStays DEF GiveUp, vars
<1> QED BY <1>1, <1>2, <1>3 DEF Next

\* Bookkeeping, of both references, through every jump, fold and escape: every
\* kangaroo's point is (a * d' + w) * G, and so is the point behind each table
\* entry.
THEOREM BookkeepingHolds == Spec => []Bookkeeping
<1>1. RefInv => Bookkeeping
  <2> SUFFICES ASSUME RefInv PROVE Bookkeeping
    OBVIOUS
  <2>1. ASSUME NEW i \in Kangaroos
        PROVE  /\ pos[i] = (sgn[i] * DPrime + dist[i]) % N
               /\ i \in Tame => sgn[i] = 0
               /\ i \in Wild => sgn[i] \in {1, -1}
    <3>1. Backed(i \in Tame, State(i))
      BY DEF RefInv
    <3>2. pos[i] = LogOf(sgn[i], dist[i]) /\ sgn[i] \in Signs(i \in Tame)
      BY <3>1 DEF Backed, State
    <3> QED BY <3>2, HerdsAre DEF LogOf, Signs
  <2>2. ASSUME NEW x \in DOMAIN tameDP PROVE x = XOf[tameDP[x][2] % N]
    <3>1. PICK t : t = tameDP[x] /\ Entry(TRUE, t, x)
      BY DEF RefInv
    <3>2. t[1] = 0 /\ t[2] \in Int /\ x = XOf[LogOf(t[1], t[2])]
      BY <3>1 DEF Entry, Signs
    <3>3. LogOf(0, t[2]) = t[2] % N
      BY <3>2, TameLog DEF RefInv
    <3> QED BY <3>1, <3>2, <3>3
  <2>3. ASSUME NEW x \in DOMAIN wildDP
        PROVE  x = XOf[(wildDP[x][1] * DPrime + wildDP[x][2]) % N]
    BY DEF RefInv, Entry, LogOf
  <2> QED BY <2>1, <2>2, <2>3 DEF Bookkeeping
<1> QED BY <1>1, RefInit, RefNext, PTL DEF Spec

-----------------------------------------------------------------------------
(* No meeting is passed over *)

\* A distance so far below half of the group's order that two of them and a d'
\* of the interval do not get around the group.
Fits(w) == width + 2 * w < N /\ width - 2 * w < N
DistancesFit == \A i \in Kangaroos : Fits(dist[i])

MeetInv ==
    /\ RefInv
    /\ \A x \in DOMAIN tameDP : Fits(tameDP[x][2])
    /\ \A x \in DOMAIN wildDP : Fits(wildDP[x][2])
    /\ NoMeetingMissed

LEMMA XsTellApart ==
    \A j, k \in 1 .. N - 1 : XOf[j] = XOf[k] => k = j \/ k = N - j
<1> SUFFICES ASSUME NEW j \in 1 .. N - 1, NEW k \in 1 .. N - 1, XOf[j] = XOf[k]
             PROVE  k = j \/ k = N - j
  OBVIOUS
<1>1. XOf[j] = MulG[j].x /\ XOf[k] = MulG[k].x
  BY Constants DEF XOf, Identity
<1>2. MulG[j].x = MulG[k].x => k = j \/ k = N - j
  BY GroupAssumption DEF GroupLaws
<1> QED BY <1>1, <1>2

\* A tame entry and a wild one for one x, and, without the folding, for one
\* point.
Meet(t, w, x) ==
    /\ Entry(TRUE, t, x) /\ Entry(FALSE, w, x)
    /\ Fits(t[2]) /\ Fits(w[2])
    /\ NegMap \/ t[2] % N = (DPrime + w[2]) % N

LEMMA SamePoint ==
    ASSUME CallType, NEW x, NEW t, NEW w, Meet(t, w, x)
    PROVE  t[2] % N = LogOf(w[1], w[2])
<1>1. /\ t[1] = 0 /\ t[2] \in Int /\ w[1] \in {1, -1} /\ w[2] \in Int
      /\ (~NegMap => w[1] = 1)
      /\ x = XOf[LogOf(t[1], t[2])] /\ x = XOf[LogOf(w[1], w[2])]
  BY DEF Meet, Entry, Signs
<1>2. PICK j \in 0 .. N - 1 : j = t[2] % N /\ j = LogOf(t[1], t[2])
  <2>1. LogOf(0, t[2]) = t[2] % N
    BY <1>1, TameLog
  <2>2. LogOf(t[1], t[2]) \in 0 .. N - 1
    BY <1>1, LogType
  <2> QED BY <1>1, <2>1, <2>2
<1>3. PICK k \in 0 .. N - 1 : k = LogOf(w[1], w[2])
  BY <1>1, LogType
<1>4. CASE NegMap
  <2>1. j # 0 /\ k # 0 /\ ~YIsOdd[j] /\ ~YIsOdd[k] /\ XOf[j] = XOf[k]
    BY <1>1, <1>2, <1>3, <1>4 DEF Meet, Entry, Identity
  <2>2. j \in 1 .. N - 1 /\ k \in 1 .. N - 1
    BY <2>1, Constants
  <2>3. k # N - j
    BY <2>1, <2>2, OddIs
  <2>4. k = j
    BY <2>1, <2>2, <2>3, XsTellApart
  <2> QED BY <1>2, <1>3, <2>4
<1>5. CASE ~NegMap
  <2>1. PICK d \in Int : d = DPrime
    BY ShiftedIs
  <2>2. 1 * d + w[2] = d + w[2]
    BY <2>1
  <2>3. t[2] % N = (d + w[2]) % N
    BY <1>5, <2>1 DEF Meet
  <2> QED BY <1>1, <1>5, <2>1, <2>2, <2>3 DEF LogOf
<1> QED BY <1>4, <1>5

\* _solve_pair and _verify on such a pair.
LEMMA PairIsVerified ==
    ASSUME CallType, InRange, NEW x, NEW t, NEW w, Meet(t, w, x)
    PROVE  Verified(Lo + w[1] * (t[2] - w[2]))
<1>1. PICK tw \in Int, a \in {1, -1}, ww \in Int :
          /\ tw = t[2] /\ a = w[1] /\ ww = w[2]
          /\ width + 2 * tw < N /\ width - 2 * tw < N
          /\ width + 2 * ww < N /\ width - 2 * ww < N
          /\ tw % N = LogOf(a, ww)
  <2>1. t[2] \in Int /\ w[1] \in {1, -1} /\ w[2] \in Int
    BY DEF Meet, Entry, Signs
  <2> QED BY <2>1, SamePoint DEF Meet, Fits
<1>2. PICK d \in 0 .. width : d = DPrime /\ key = Lo + d
  BY ShiftedIs
<1>3. PICK q \in Int : q = a * d /\ (q = d \/ q = -d)
  <2>1. d \in Int
    BY <1>2, CallIs
  <2>2. a * d = d \/ a * d = -d
    BY <1>1, <2>1
  <2> QED BY <2>1, <2>2
<1>4. width \in Nat /\ N \in Nat \ {0} /\ key \in 1 .. N - 1 /\ Lo \in Nat
  BY CallIs, Constants
<1>5. q + ww = tw
  <2>1. tw % N = (q + ww) % N
    BY <1>1, <1>2, <1>3 DEF LogOf
  <2>2. q + ww \in Int /\ tw - (q + ww) < N /\ (q + ww) - tw < N
    BY <1>1, <1>2, <1>3, <1>4
  <2> QED BY <1>1, <1>4, <2>1, <2>2, ModEqual
<1>6. a * (tw - ww) = d
  <2>1. tw - ww = q
    BY <1>1, <1>3, <1>5
  <2>2. CASE a = 1
    <3>1. q = d
      BY <1>2, <1>3, <1>4, <2>2
    <3> QED BY <1>2, <1>4, <2>1, <2>2, <3>1
  <2>3. CASE a = -1
    <3>1. q = -d
      BY <1>2, <1>3, <1>4, <2>3
    <3> QED BY <1>2, <1>4, <2>1, <2>3, <3>1
  <2> QED BY <1>1, <2>2, <2>3
<1>7. Lo + w[1] * (t[2] - w[2]) = key
  BY <1>1, <1>2, <1>6
<1>8. key % N = key /\ key # 0
  BY <1>4, ModSmall
<1>9. key >= Lo /\ key <= Lo + width
  BY <1>2, <1>4
<1> QED BY <1>7, <1>8, <1>9 DEF Verified

LEMMA MeetFixed ==
    ASSUME UNCHANGED call
    PROVE  /\ (NegMap' <=> NegMap) /\ (InRange' <=> InRange) /\ DPrime' = DPrime
           /\ \A w : Fits(w)' <=> Fits(w)
BY FixedMeaning DEF Fits, call

\* A report that meets the other table's entry for its x ends the search.
LEMMA MeetingSolves ==
    ASSUME MeetInv, InRange, NEW i \in Kangaroos, NEW s,
           Backed(i \in Tame, s), NegMap => s[1] # Identity, Fits(s[3]), Distinguished(s[1])
    PROVE  /\ i \in Tame /\ XOf[s[1]] \in DOMAIN wildDP
                /\ (NegMap \/ s[3] % N = (DPrime + wildDP[XOf[s[1]]][2]) % N)
                  => Solves(i, s)
           /\ i \in Wild /\ XOf[s[1]] \in DOMAIN tameDP
                /\ (NegMap \/ tameDP[XOf[s[1]]][2] % N = (DPrime + s[3]) % N)
                  => Solves(i, s)
<1>1. PICK x : x = XOf[s[1]]
  OBVIOUS
<1>2. Entry(i \in Tame, <<s[2], s[3]>>, x)
  BY <1>1 DEF Backed, Entry
<1>3. CallType
  BY DEF MeetInv, RefInv
<1>4. ASSUME i \in Tame, x \in DOMAIN wildDP,
             NegMap \/ s[3] % N = (DPrime + wildDP[x][2]) % N
      PROVE  Solves(i, s)
  <2>1. PICK t, w : t = <<s[2], s[3]>> /\ w = wildDP[x]
    OBVIOUS
  <2>2. Entry(TRUE, t, x)
    BY <1>2, <1>4, <2>1 DEF Entry, Signs
  <2>3. Entry(FALSE, w, x) /\ Fits(w[2])
    BY <1>4, <2>1 DEF MeetInv, RefInv
  <2>4. Meet(t, w, x)
    BY <1>4, <2>1, <2>2, <2>3 DEF Meet
  <2>5. Verified(Lo + w[1] * (t[2] - w[2]))
    BY <1>3, <2>4, PairIsVerified
  <2>6. Lo + w[1] * (t[2] - w[2]) \in Candidates(i, s)
    BY <1>1, <1>4, <2>1 DEF Candidates
  <2> QED BY <2>5, <2>6 DEF Solves
<1>5. ASSUME i \in Wild, x \in DOMAIN tameDP,
             NegMap \/ tameDP[x][2] % N = (DPrime + s[3]) % N
      PROVE  Solves(i, s)
  <2>0. i \notin Tame
    BY <1>5, HerdsAre
  <2>1. PICK t, w : t = tameDP[x] /\ w = <<s[2], s[3]>>
    OBVIOUS
  <2>2. Entry(FALSE, w, x)
    BY <1>2, <2>0, <2>1 DEF Entry, Signs
  <2>3. Entry(TRUE, t, x) /\ Fits(t[2])
    BY <1>5, <2>1 DEF MeetInv, RefInv
  <2>4. Meet(t, w, x)
    BY <1>5, <2>1, <2>2, <2>3 DEF Meet
  <2>5. Verified(Lo + w[1] * (t[2] - w[2]))
    BY <1>3, <2>4, PairIsVerified
  <2>6. Lo + w[1] * (t[2] - w[2]) \in Candidates(i, s)
    BY <1>1, <1>5, <2>0, <2>1 DEF Candidates
  <2> QED BY <2>5, <2>6 DEF Solves
<1> QED BY <1>1, <1>4, <1>5

\* What a table holds after a report.
LEMMA ReportHolds ==
    ASSUME NEW table, NEW s
    PROVE  /\ DOMAIN Report(table, s) \subseteq DOMAIN table \cup {XOf[s[1]]}
           /\ \A z \in DOMAIN Report(table, s) :
                 \/ z \in DOMAIN table /\ Report(table, s)[z] = table[z]
                 \/ z = XOf[s[1]] /\ Report(table, s)[z] = <<s[2], s[3]>>
                       /\ (NegMap => z \notin DOMAIN table)
<1>1. CASE NegMap /\ XOf[s[1]] \in DOMAIN table
  BY <1>1 DEF Report
<1>2. CASE ~(NegMap /\ XOf[s[1]] \in DOMAIN table)
  <2>1. Report(table, s) =
          [z \in DOMAIN table \cup {XOf[s[1]]} |->
              IF z = XOf[s[1]] THEN <<s[2], s[3]>> ELSE table[z]]
    BY <1>2 DEF Report, Put
  <2> QED BY <1>2, <2>1
<1> QED BY <1>1, <1>2

LEMMA MeetMove ==
    ASSUME MeetInv, DistancesFit', NEW i \in Kangaroos, Move(i)
    PROVE  MeetInv'
<1>1. PICK s : /\ s = Moved(i)
               /\ NegMap => pos[i] # Identity /\ s[1] # Identity
               /\ MoveTo(i, s) /\ UNCHANGED call
               /\ outcome' = IF Solves(i, s) THEN "solved" ELSE "running"
               /\ tameDP' = IF i \in Tame /\ Distinguished(s[1]) /\ ~Solves(i, s)
                            THEN Report(tameDP, s) ELSE tameDP
               /\ wildDP' = IF i \in Wild /\ Distinguished(s[1]) /\ ~Solves(i, s)
                            THEN Report(wildDP, s) ELSE wildDP
               /\ outcome = "running"
  <2>1. PICK s \in {Moved(i)} : \E solved \in {Solves(i, s)} :
          /\ NegMap => pos[i] # Identity /\ s[1] # Identity
          /\ MoveTo(i, s)
          /\ outcome' = IF solved THEN "solved" ELSE "running"
          /\ tameDP' = IF i \in Tame /\ Distinguished(s[1]) /\ ~solved
                       THEN Report(tameDP, s) ELSE tameDP
          /\ wildDP' = IF i \in Wild /\ Distinguished(s[1]) /\ ~solved
                       THEN Report(wildDP, s) ELSE wildDP
    BY DEF Move
  <2>2. UNCHANGED call /\ outcome = "running"
    BY DEF Move, Turn
  <2> QED BY <2>1, <2>2
<1>2. RefInv /\ RefInv' /\ Backed(i \in Tame, s)
  BY <1>1, RefMove, MovedIsBacked DEF MeetInv
<1>3. Fits(s[3])
  <2>1. dist'[i] = s[3]
    BY <1>1, <1>2 DEF MoveTo, RefInv
  <2>2. Fits(dist[i])'
    BY <1>1, FixedMeaning DEF DistancesFit
  <2>3. PICK w : w = s[3] /\ Fits(w)'
    BY <2>1, <2>2
  <2> QED BY <1>1, <2>3, MeetFixed
<1>4. PICK m, n : m = tameDP' /\ n = wildDP'
  OBVIOUS
<1>5. /\ \A x \in DOMAIN m : Fits(m[x][2])
      /\ \A x \in DOMAIN n : Fits(n[x][2])
  BY <1>1, <1>3, <1>4, ReportHolds DEF MeetInv
<1>6. ASSUME outcome' = "running", InRange, NEW x \in DOMAIN m \cap DOMAIN n
      PROVE  ~NegMap /\ m[x][2] % N # (DPrime + n[x][2]) % N
  <2>1. ~Solves(i, s)
    BY <1>1, <1>6
  <2>2. \A z \in DOMAIN tameDP \cap DOMAIN wildDP :
            ~NegMap /\ tameDP[z][2] % N # (DPrime + wildDP[z][2]) % N
    BY <1>1, <1>6 DEF MeetInv, NoMeetingMissed
  <2>3. CASE m = tameDP /\ n = wildDP
    BY <1>6, <2>2, <2>3
  <2>4. CASE i \in Tame /\ Distinguished(s[1]) /\ m = Report(tameDP, s)
    <3>1. n = wildDP
      BY <1>1, <1>4, <2>4, HerdsAre
    <3>2. CASE x \in DOMAIN tameDP /\ m[x] = tameDP[x]
      BY <1>6, <2>2, <3>1, <3>2
    <3>3. CASE x = XOf[s[1]] /\ m[x] = <<s[2], s[3]>>
      <4>1. ~(NegMap \/ s[3] % N = (DPrime + wildDP[x][2]) % N)
        BY <1>1, <1>2, <1>3, <1>6, <2>1, <2>4, <3>1, <3>3, MeetingSolves
      <4> QED BY <3>1, <3>3, <4>1
    <3> QED BY <1>6, <2>4, <3>2, <3>3, ReportHolds
  <2>5. CASE i \in Wild /\ Distinguished(s[1]) /\ n = Report(wildDP, s)
    <3>1. m = tameDP
      BY <1>1, <1>4, <2>5, HerdsAre
    <3>2. CASE x \in DOMAIN wildDP /\ n[x] = wildDP[x]
      BY <1>6, <2>2, <3>1, <3>2
    <3>3. CASE x = XOf[s[1]] /\ n[x] = <<s[2], s[3]>>
      <4>1. ~(NegMap \/ tameDP[x][2] % N = (DPrime + s[3]) % N)
        BY <1>1, <1>2, <1>3, <1>6, <2>1, <2>5, <3>1, <3>3, MeetingSolves
      <4> QED BY <3>1, <3>3, <4>1
    <3> QED BY <1>6, <2>5, <3>2, <3>3, ReportHolds
  <2> QED BY <1>1, <1>4, <2>3, <2>4, <2>5, HerdsAre
<1>7. NoMeetingMissed'
  BY <1>1, <1>4, <1>6, MeetFixed DEF NoMeetingMissed
<1>8. /\ \A x \in DOMAIN m : Fits(m[x][2])'
      /\ \A x \in DOMAIN n : Fits(n[x][2])'
  BY <1>1, <1>5, MeetFixed
<1> QED BY <1>2, <1>4, <1>7, <1>8 DEF MeetInv

LEMMA MeetNext ==
    ASSUME MeetInv, DistancesFit', [Next]_vars
    PROVE  MeetInv'
<1>1. CASE \E i \in Kangaroos : Move(i)
  BY <1>1, MeetMove
<1>2. CASE (\E i \in Kangaroos : Crash(i)) \/ GiveUp \/ UNCHANGED vars
  <2>1. UNCHANGED <<call, tameDP, wildDP>> /\ outcome' \in {outcome, "crashed", "gaveUp"}
    BY <1>2 DEF Crash, GiveUp, vars
  <2>2. RefInv'
    BY RefNext DEF MeetInv
  <2>3. PICK m, n : m = tameDP /\ n = wildDP /\ m = tameDP' /\ n = wildDP'
    BY <2>1
  <2>4. /\ \A x \in DOMAIN m : Fits(m[x][2])'
        /\ \A x \in DOMAIN n : Fits(n[x][2])'
    BY <2>1, <2>3, MeetFixed DEF MeetInv
  <2>5. NoMeetingMissed'
    BY <2>1, MeetFixed DEF MeetInv, NoMeetingMissed
  <2> QED BY <2>2, <2>3, <2>4, <2>5 DEF MeetInv
<1> QED BY <1>1, <1>2 DEF Next

\* NoMeetingMissed, of both references: while the distances stay below half of
\* the group's order, a search for a key of the interval never goes on over a
\* meeting.
THEOREM NoMeetingIsMissed == Spec /\ []DistancesFit => []NoMeetingMissed
<1>1. Init => MeetInv
  BY RefInit DEF Init, MeetInv, NoMeetingMissed
<1>2. MeetInv /\ DistancesFit' /\ [Next]_vars => MeetInv'
  BY MeetNext
<1>3. MeetInv => NoMeetingMissed
  BY DEF MeetInv
<1> QED BY <1>1, <1>2, <1>3, PTL DEF Spec

-----------------------------------------------------------------------------
(* The distances *)

\* The turns that kangaroo k has had, and how far one of them and the start
\* lead at most, with jumps of at most j: an escape goes through a cycle and
\* one further.
Turns(k) ==
    IF k < turn \/ (k = turn /\ outcome = "crashed") THEN steps + 1 ELSE steps
Growth(j) == IF NegMap THEN (MaxCyc + 1) * j + 1 ELSE j
Base == IF NegMap THEN 2 * (width + Herd) ELSE width

\* Half of b away at most.
Near(w, b) == w \in Int /\ -b <= 2 * w /\ 2 * w <= b

Longest(j) == j \in Nat /\ \A i \in DOMAIN scalars : scalars[i] <= j

DistInv ==
    /\ RefInv
    /\ steps \in 0 .. MaxSteps /\ (steps = MaxSteps => turn = 1)
    /\ outcome = "crashed" => steps < MaxSteps
    /\ turn \in 1 .. 2 * Size
    /\ \A j : Longest(j) =>
          \A k \in Kangaroos : Near(dist[k], Base + 2 * (Turns(k) * Growth(j)))

\* The longest way that the references can go, an escape at every turn
\* included, is below half of the group's order.
RoomToEscape ==
    \A s \in JumpTables : \A i \in DOMAIN s, wd \in Widths :
        3 * wd + 2 * Herd + 2 * (MaxSteps * ((MaxCyc + 1) * s[i] + 1)) < N

LEMMA GrowthIs == \A j : Longest(j) => Growth(j) \in Nat
<1> SUFFICES ASSUME NEW j, Longest(j) PROVE Growth(j) \in Nat
  OBVIOUS
<1>1. PICK c \in Nat : c = (MaxCyc + 1) * j
  BY Constants DEF Longest
<1> QED BY <1>1 DEF Growth, Longest

LEMMA BaseIs == CallType => Base \in Nat
BY CallIs, Constants DEF Base

LEMMA NearFolds ==
    ASSUME NEW e, NEW a, NEW w, NEW b \in Int, Near(w, b)
    PROVE  Near(Folded(e, a, w)[3], b)
<1>1. Folded(e, a, w)[3] \in {w, -w}
  BY DEF Folded
<1> QED BY <1>1 DEF Near

\* A step, and a walk, from a backed state.
LEMMA StepIsNear ==
    ASSUME CallType, NEW j, Longest(j), NEW tame, NEW s, Backed(tame, s),
           NEW b \in Int, Near(s[3], b)
    PROVE  Near(Step(s)[3], b + 2 * j)
<1>1. s[1] \in 0 .. N - 1
  BY DEF Backed
<1>2. JumpOf(s[1]) \in 0 .. j
  <2>1. JumpOf(s[1]) \in 1 .. N - 1 /\ \E i \in DOMAIN scalars : JumpOf(s[1]) = scalars[i]
    BY <1>1, JumpIs
  <2> QED BY <2>1, Constants DEF Longest
<1>3. PICK i \in 0 .. j : i = JumpOf(s[1])
  BY <1>2
<1>4. Near(s[3] + i, b + 2 * j) /\ b + 2 * j \in Int
  BY <1>3 DEF Near, Longest
<1> QED BY <1>3, <1>4, NearFolds DEF Step

LEMMA WalkIsNear ==
    ASSUME CallType, NEW j, Longest(j), NEW tame, NEW s, Backed(tame, s),
           NEW b \in Int, Near(s[3], b),
           NEW m \in Nat, NEW f, IsWalk(f, s, m)
    PROVE  \A n \in 0 .. m : Near(f[n][3], b + 2 * (n * j))
<1> DEFINE T == {n \in Nat : n <= m => Near(f[n][3], b + 2 * (n * j))}
<1>1. f[0] = s /\ \A n \in 0 .. m : n # 0 => f[n] = Step(f[n - 1])
  BY DEF IsWalk
<1>2. 0 \in T
  <2>1. b + 2 * (0 * j) = b
    BY DEF Longest
  <2> QED BY <1>1, <2>1
<1>3. ASSUME NEW n \in Nat, n \in T
      PROVE  n + 1 \in T
  <2> SUFFICES ASSUME n + 1 <= m PROVE Near(f[n + 1][3], b + 2 * ((n + 1) * j))
    OBVIOUS
  <2>1. PICK q \in Nat : q = n * j /\ (n + 1) * j = q + j
    BY DEF Longest
  <2>2. Near(f[n][3], b + 2 * q) /\ b + 2 * q \in Int
    BY <1>3, <2>1
  <2>3. n \in 0 .. m /\ n + 1 \in 0 .. m /\ n + 1 # 0 /\ (n + 1) - 1 = n
    OBVIOUS
  <2>4. f[n + 1] = Step(f[n]) /\ Backed(tame, f[n])
    BY <1>1, <2>3, WalkIsBacked
  <2>5. Near(f[n + 1][3], (b + 2 * q) + 2 * j)
    BY <2>2, <2>4, StepIsNear
  <2>6. (b + 2 * q) + 2 * j = b + 2 * (q + j)
    BY <2>1 DEF Longest
  <2> QED BY <2>1, <2>5, <2>6
<1>4. Nat \subseteq T
  <2> HIDE DEF T
  <2> QED BY <1>2, <1>3, Induction
<1> QED BY <1>4

LEMMA EscapeIsNear ==
    ASSUME CallType, NEW j, Longest(j), NEW tame, NEW s, Backed(tame, s),
           NEW b \in Int, Near(s[3], b)
    PROVE  Near(Escape(s)[3], b + 2 * (MaxCyc * j + 1))
<1>1. PICK f : /\ IsWalk(f, s, MaxCyc)
               /\ Traverse(s) # {}
               /\ \A t \in Traverse(s) : \E n \in 0 .. MaxCyc : t = f[n]
  BY TraverseIs
<1>2. \A t \in Traverse(s) : Backed(tame, t)
  BY <1>1, WalkIsBacked, Constants
<1>3. PICK t : t = LeastX(Traverse(s)) /\ t \in Traverse(s)
  BY <1>1, <1>2, LeastXIs DEF Backed
<1>4. PICK n \in 0 .. MaxCyc : t = f[n]
  BY <1>1, <1>3
<1>5. Near(t[3], b + 2 * (n * j))
  BY <1>1, <1>4, WalkIsNear, Constants
<1>6. PICK q \in Nat, r \in Nat : q = n * j /\ r = MaxCyc * j /\ q <= r
  <2>1. n \in Nat /\ MaxCyc \in Nat /\ j \in Nat /\ n <= MaxCyc
    BY Constants DEF Longest
  <2> QED BY <2>1, TimesLeq
<1>7. Near(t[3] + 1, b + 2 * (r + 1)) /\ b + 2 * (r + 1) \in Int
  BY <1>5, <1>6 DEF Near
<1> QED BY <1>3, <1>6, <1>7, NearFolds DEF Escape, JumpByOne

LEMMA MovedIsNear ==
    ASSUME RefInv, NEW i \in Kangaroos, NEW j, Longest(j), NEW b \in Int, Near(dist[i], b)
    PROVE  Near(Moved(i)[3], b + 2 * Growth(j))
<1>1. CallType /\ Backed(i \in Tame, State(i)) /\ Near(State(i)[3], b)
  BY DEF RefInv, State
<1>2. PICK c \in Nat, g \in Nat :
          c = MaxCyc * j /\ g = Growth(j) /\ j \in Nat /\ g >= j /\ (NegMap => g = c + j + 1)
  <2>1. PICK c \in Nat : c = MaxCyc * j /\ (MaxCyc + 1) * j = c + j /\ j \in Nat
    BY Constants DEF Longest
  <2> QED BY <2>1 DEF Growth
<1>3. CASE Repeats(i)
  <2>1. Moved(i) = Escape(State(i)) /\ NegMap
    BY <1>3 DEF Moved, Repeats
  <2>2. Near(Escape(State(i))[3], b + 2 * (c + 1))
    BY <1>1, <1>2, EscapeIsNear
  <2>3. Near(Escape(State(i))[3], b + 2 * g)
    BY <1>2, <2>1, <2>2 DEF Near
  <2> QED BY <1>2, <2>1, <2>3
<1>4. CASE ~Repeats(i)
  <2>1. Moved(i) = Step(State(i)) /\ Near(Step(State(i))[3], b + 2 * j)
    BY <1>1, <1>4, StepIsNear DEF Moved
  <2>2. Near(Step(State(i))[3], b + 2 * g)
    BY <1>2, <2>1 DEF Near
  <2> QED BY <1>2, <2>1, <2>2
<1> QED BY <1>3, <1>4

LEMMA StartIsNear ==
    ASSUME CallType, NEW i \in Kangaroos
    PROVE  Near(Start(i)[3], Base)
<1>1. width \in Nat /\ Herd \in Nat \ {0}
  BY CallIs, Constants
<1>2. CASE NegMap
  <2>1. \A g \in 0 .. Herd - 1 : Offset(g) \in 0 .. width + Herd - 1
    <3> SUFFICES ASSUME NEW g \in 0 .. Herd - 1 PROVE Offset(g) \in 0 .. width + Herd - 1
      OBVIOUS
    <3>1. PICK s : s = Stride
      OBVIOUS
    <3>2. (s \div 2) + g * s \in 0 .. width + Herd - 1
      BY <1>1, <3>1, SpreadStays DEF Stride
    <3> QED BY <3>1, <3>2 DEF Offset
  <2>2. Base = 2 * (width + Herd)
    BY <1>2 DEF Base
  <2>3. CASE i \in Tame
    <3>1. i - 1 \in 0 .. Herd - 1
      BY <1>1, <1>2, <2>3 DEF Tame, Size
    <3>2. AtLeastOne(Offset(i - 1)) \in 0 .. width + Herd
      BY <1>1, <2>1, <3>1 DEF AtLeastOne
    <3>3. PICK w \in 0 .. width + Herd : w = AtLeastOne(Offset(i - 1))
      BY <3>2
    <3>4. Near(w, Base) /\ Base \in Int
      BY <1>1, <2>2 DEF Near
    <3> QED BY <1>2, <2>3, <3>3, <3>4, NearFolds DEF Start
  <2>4. CASE i \notin Tame
    <3>1. i - Herd - 1 \in 0 .. Herd - 1
      BY <1>1, <1>2, <2>4 DEF Kangaroos, Tame, Wild, Size
    <3>2. PICK w \in 0 .. width + Herd - 1 : w = Offset(i - Herd - 1)
      BY <2>1, <3>1
    <3>3. Near(w, Base) /\ Base \in Int
      BY <1>1, <2>2 DEF Near
    <3> QED BY <1>2, <2>4, <3>2, <3>3, NearFolds DEF Start
  <2> QED BY <2>3, <2>4
<1>3. CASE ~NegMap
  <2>1. Base = width
    BY <1>3 DEF Base
  <2>2. Start(i)[3] \in {width \div 2, 0}
    BY <1>3 DEF Start
  <2>3. Near(width \div 2, width) /\ Near(0, width)
    BY <1>1 DEF Near
  <2> QED BY <2>1, <2>2, <2>3
<1> QED BY <1>2, <1>3

LEMMA DistInit == Init => DistInv
<1> SUFFICES ASSUME Init PROVE DistInv
  OBVIOUS
<1>1. RefInv /\ CallType
  BY RefInit DEF RefInv
<1>2. steps = 0 /\ turn = 1 /\ outcome = "running"
  BY DEF Init
<1>3. turn \in 1 .. 2 * Size /\ steps \in 0 .. MaxSteps
  BY <1>2, HerdsAre, Constants
<1>4. ASSUME NEW j, Longest(j), NEW k \in Kangaroos
      PROVE  Near(dist[k], Base + 2 * (Turns(k) * Growth(j)))
  <2>1. dist[k] = Start(k)[3]
    BY DEF Init
  <2>2. Turns(k) = 0
    BY <1>2, HerdsAre DEF Turns
  <2>3. PICK g \in Nat : g = Growth(j)
    BY <1>4, GrowthIs
  <2>4. Base \in Int /\ Base + 2 * (0 * g) = Base
    BY <1>1, <2>3, BaseIs
  <2> QED BY <1>1, <2>1, <2>2, <2>3, <2>4, StartIsNear
<1> QED BY <1>1, <1>2, <1>3, <1>4 DEF DistInv

\* A kangaroo that moves has had one turn more.
LEMMA DistMoves ==
    ASSUME DistInv, NEW i \in Kangaroos, turn = i, steps < MaxSteps,
           MoveTo(i, Moved(i)), UNCHANGED call, outcome # "crashed",
           Turns(i)' = Turns(i) + 1,
           \A k \in Kangaroos \ {i} : Turns(k)' = Turns(k)
    PROVE  \A j : Longest(j)' =>
              \A k \in Kangaroos : Near(dist[k], Base + 2 * (Turns(k) * Growth(j)))'
<1> SUFFICES ASSUME NEW j, Longest(j)', NEW k \in Kangaroos
             PROVE  Near(dist[k], Base + 2 * (Turns(k) * Growth(j)))'
  OBVIOUS
<1>1. Longest(j) /\ Base' = Base /\ Growth(j)' = Growth(j)
  BY DEF call, Longest, Base, Growth, NegMap
<1>2. Near(dist[k], Base + 2 * (Turns(k) * Growth(j))) /\ RefInv
  BY <1>1 DEF DistInv
<1>3. PICK g \in Nat, b \in Int, n \in Nat : g = Growth(j) /\ b = Base /\ n = Turns(k)
  <2>1. Turns(k) \in Nat
    BY DEF Turns, DistInv
  <2> QED BY <1>1, <1>2, <2>1, GrowthIs, BaseIs DEF RefInv
<1>4. DOMAIN dist = Kangaroos
  BY <1>2 DEF RefInv
<1>5. CASE k = i
  <2>1. dist'[k] = Moved(i)[3]
    BY <1>4, <1>5 DEF MoveTo
  <2>2. PICK q \in Nat : q = n * g /\ (n + 1) * g = q + g
    BY <1>3
  <2>3. Near(dist[i], b + 2 * q) /\ b + 2 * q \in Int
    BY <1>2, <1>3, <1>5, <2>2
  <2>4. Near(Moved(i)[3], (b + 2 * q) + 2 * g)
    BY <1>1, <1>2, <1>3, <2>3, MovedIsNear
  <2>5. (b + 2 * q) + 2 * g = b + 2 * (q + g)
    OBVIOUS
  <2>6. (Base + 2 * (Turns(k) * Growth(j)))' = b + 2 * ((n + 1) * g)
    BY <1>1, <1>3, <1>5
  <2>7. Near(dist'[k], (Base + 2 * (Turns(k) * Growth(j)))')
    BY <2>1, <2>2, <2>4, <2>5, <2>6
  <2> QED BY <2>7 DEF Near
<1>6. CASE k # i
  <2>1. dist'[k] = dist[k]
    BY <1>4, <1>6 DEF MoveTo
  <2>2. Turns(k)' = Turns(k)
    BY <1>6
  <2> QED BY <1>1, <1>2, <2>1, <2>2 DEF Near
<1> QED BY <1>5, <1>6

\* What the passing of a turn does to the number of turns that each has had.
LEMMA TurnTaken ==
    ASSUME DistInv, NEW i \in Kangaroos, Move(i)
    PROVE  /\ steps' \in 0 .. MaxSteps /\ turn' \in 1 .. 2 * Size /\ (steps' = MaxSteps => turn' = 1)
           /\ Turns(i) = steps /\ Turns(i)' = Turns(i) + 1
           /\ \A k \in Kangaroos \ {i} : Turns(k)' = Turns(k)
<1>1. /\ steps \in 0 .. MaxSteps /\ turn \in 1 .. 2 * Size /\ Size \in Nat \ {0}
      /\ MaxSteps \in Nat /\ \A k \in Kangaroos : k \in Nat \ {0} /\ k <= 2 * Size
  <2>1. \A k \in Kangaroos : k <= 2 * Size
    BY HerdsAre DEF Kangaroos, Tame, Wild
  <2> QED BY <2>1, HerdsAre, Constants DEF DistInv
<1>2. /\ turn = i /\ steps < MaxSteps /\ AdvanceTurn
      /\ outcome # "crashed" /\ outcome' # "crashed"
  BY DEF Move, Turn
<1>3. PICK m \in Nat \ {0} : m = 2 * Size
  BY <1>1
<1>4. \/ turn < m /\ turn' = turn + 1 /\ steps' = steps
      \/ turn = m /\ turn' = 1 /\ steps' = steps + 1
  <2>1. turn' = (turn % m) + 1 /\ steps' = IF turn = m THEN steps + 1 ELSE steps
    BY <1>2, <1>3 DEF AdvanceTurn
  <2>2. turn < m => turn % m = turn
    BY <1>1, <1>3, ModSmall
  <2>3. m % m = 0
    BY <1>3
  <2> QED BY <1>1, <1>3, <2>1, <2>2, <2>3
<1>5. steps' \in 0 .. MaxSteps /\ turn' \in 1 .. 2 * Size /\ (steps' = MaxSteps => turn' = 1)
  BY <1>1, <1>2, <1>3, <1>4
<1>6. Turns(i) = steps /\ Turns(i)' = Turns(i) + 1
  BY <1>1, <1>2, <1>3, <1>4 DEF Turns
<1>7. ASSUME NEW k \in Kangaroos \ {i}
      PROVE  Turns(k)' = Turns(k)
  <2>1. k \in Nat /\ 1 <= k /\ k <= m /\ k # i
    BY <1>1, <1>3
  <2> QED BY <1>1, <1>2, <1>3, <1>4, <2>1 DEF Turns
<1> QED BY <1>5, <1>6, <1>7

LEMMA DistNext ==
    ASSUME DistInv, [Next]_vars
    PROVE  DistInv'
<1>1. RefInv'
  BY RefNext DEF DistInv
<1>2. UNCHANGED call
  BY DEF Next, Move, Crash, GiveUp, vars
<1>3. Kangaroos' = Kangaroos /\ Size' = Size
  BY <1>2, FixedMeaning DEF Size, call, NegMap
<1>4. /\ steps \in 0 .. MaxSteps /\ turn \in 1 .. 2 * Size /\ Size \in Nat \ {0}
      /\ MaxSteps \in Nat /\ \A k \in Kangaroos : k \in Nat
  BY HerdsAre, Constants DEF DistInv
<1>5. CASE \E i \in Kangaroos : Move(i)
  <2>1. PICK i \in Kangaroos : Move(i)
    BY <1>5
  <2>2. /\ turn = i /\ steps < MaxSteps /\ MoveTo(i, Moved(i)) /\ outcome = "running"
        /\ AdvanceTurn /\ outcome' # "crashed"
    BY <2>1 DEF Move, Turn
  <2>3. /\ steps' \in 0 .. MaxSteps /\ turn' \in 1 .. 2 * Size /\ (steps' = MaxSteps => turn' = 1)
        /\ Turns(i)' = Turns(i) + 1 /\ \A k \in Kangaroos \ {i} : Turns(k)' = Turns(k)
    BY <2>1, TurnTaken
  <2>4. \A j : Longest(j)' =>
              \A k \in Kangaroos : Near(dist[k], Base + 2 * (Turns(k) * Growth(j)))'
    BY <1>2, <2>2, <2>3, DistMoves
  <2> QED BY <1>1, <1>3, <2>2, <2>3, <2>4 DEF DistInv, Near
<1>6. CASE \E i \in Kangaroos : Crash(i) /\ MoveTo(i, Moved(i))
  <2>1. PICK i \in Kangaroos : Crash(i) /\ MoveTo(i, Moved(i))
    BY <1>6
  <2>2. /\ turn = i /\ steps < MaxSteps /\ outcome = "running"
        /\ turn' = turn /\ steps' = steps /\ outcome' = "crashed"
    BY <2>1 DEF Crash, Turn
  <2>3. Turns(i)' = Turns(i) + 1 /\ \A k \in Kangaroos \ {i} : Turns(k)' = Turns(k)
    BY <1>4, <2>2 DEF Turns
  <2>4. \A j : Longest(j)' =>
              \A k \in Kangaroos : Near(dist[k], Base + 2 * (Turns(k) * Growth(j)))'
    BY <1>2, <2>1, <2>2, <2>3, DistMoves
  <2> QED BY <1>1, <1>3, <1>4, <2>2, <2>4 DEF DistInv, Near
<1>7. CASE (\E i \in Kangaroos : Crash(i) /\ UNCHANGED herds) \/ GiveUp \/ UNCHANGED vars
  <2>1. dist' = dist /\ steps' = steps /\ turn' = turn
    BY <1>7 DEF Crash, GiveUp, vars, herds
  <2>2. \/ outcome' = outcome
        \/ outcome = "running" /\ outcome' = "gaveUp"
        \/ outcome = "running" /\ outcome' = "crashed" /\ steps < MaxSteps
    BY <1>7 DEF Crash, Turn, GiveUp, vars
  <2>3. ASSUME NEW j, Longest(j)', NEW k \in Kangaroos
        PROVE  Near(dist[k], Base + 2 * (Turns(k) * Growth(j)))'
    <3>1. Longest(j) /\ Base' = Base /\ Growth(j)' = Growth(j)
      BY <1>2, <2>3 DEF call, Longest, Base, Growth, NegMap
    <3>2. Near(dist[k], Base + 2 * (Turns(k) * Growth(j))) /\ RefInv
      BY <3>1 DEF DistInv
    <3>3. PICK g \in Nat, b \in Int : g = Growth(j) /\ b = Base
      BY <3>1, <3>2, GrowthIs, BaseIs DEF RefInv
    <3>4. PICK n \in Nat, m \in Nat : n = Turns(k) /\ m = Turns(k)' /\ n <= m
      BY <1>4, <2>1, <2>2 DEF Turns
    <3>5. PICK q \in Nat, r \in Nat : q = n * g /\ r = m * g /\ q <= r
      BY <3>4, TimesLeq
    <3>6. Near(dist[k], b + 2 * q)
      BY <3>2, <3>3, <3>4, <3>5
    <3>7. Near(dist[k], b + 2 * r)
      BY <3>5, <3>6 DEF Near
    <3>8. Near(dist'[k], (Base + 2 * (Turns(k) * Growth(j)))')
      BY <2>1, <3>1, <3>3, <3>4, <3>5, <3>7
    <3> QED BY <3>8 DEF Near
  <2>4. outcome' = "crashed" => steps' < MaxSteps
    BY <2>1, <2>2 DEF DistInv
  <2>5. steps' \in 0 .. MaxSteps /\ (steps' = MaxSteps => turn' = 1) /\ turn' \in 1 .. 2 * Size
    BY <2>1 DEF DistInv
  <2> QED BY <1>1, <1>3, <2>3, <2>4, <2>5 DEF DistInv
<1> QED BY <1>5, <1>6, <1>7 DEF Next, Crash

LEMMA DistFits ==
    ASSUME DistInv, "negmap" \in Builds => RoomToEscape
    PROVE  DistancesFit
<1>1. CallType /\ width \in Nat /\ Herd \in Nat /\ N \in Nat /\ MaxSteps \in Nat
  BY CallIs, Constants DEF DistInv, RefInv
<1>2. PICK n \in Nat \ {0} : n = Len(scalars) /\ scalars \in [1 .. n -> 1 .. N - 1]
  <2>1. scalars \in Seq(1 .. N - 1) /\ scalars # <<>>
    BY <1>1, CallIs
  <2>2. Len(scalars) \in Nat \ {0}
    BY <2>1
  <2> QED BY <2>1, <2>2, LenProperties
<1>3. PICK i \in 1 .. n : \A k \in 1 .. n : scalars[k] <= scalars[i]
  <2>1. \A k \in 1 .. n : scalars[k] \in 0 .. N
    BY <1>1, <1>2
  <2> QED BY <1>1, <2>1, LargestExists
<1>4. PICK j \in 1 .. N - 1 : j = scalars[i]
  BY <1>2
<1>5. Longest(j) /\ i \in DOMAIN scalars
  BY <1>2, <1>3, <1>4 DEF Longest
<1> SUFFICES ASSUME NEW k \in Kangaroos PROVE Fits(dist[k])
  BY DEF DistancesFit
<1>6. PICK g \in Nat, m \in Nat : g = Growth(j) /\ m = Turns(k) /\ m <= MaxSteps
  <2>1. Turns(k) \in Nat /\ Turns(k) <= MaxSteps
    <3>1. /\ steps \in 0 .. MaxSteps /\ (steps = MaxSteps => turn = 1)
          /\ (outcome = "crashed" => steps < MaxSteps) /\ k \in Nat \ {0}
          /\ turn \in 1 .. 2 * Size /\ Size \in Nat
      BY HerdsAre DEF DistInv
    <3> QED BY <1>1, <3>1 DEF Turns
  <2> QED BY <1>5, <2>1, GrowthIs
<1>7. PICK q \in Nat, r \in Nat : q = m * g /\ r = MaxSteps * g /\ q <= r
  BY <1>1, <1>6, TimesLeq
<1>8. Near(dist[k], Base + 2 * q)
  BY <1>5, <1>6, <1>7 DEF DistInv
<1>9. Base \in Int /\ width + Base + 2 * r < N
  <2>1. CASE NegMap
    <3>1. "negmap" \in Builds /\ scalars \in JumpTables /\ width \in Widths
      BY <1>1, <2>1 DEF CallType, NegMap
    <3>2. 3 * width + 2 * Herd + 2 * (MaxSteps * ((MaxCyc + 1) * scalars[i] + 1)) < N
      BY <1>5, <3>1 DEF RoomToEscape
    <3>3. g = (MaxCyc + 1) * scalars[i] + 1
      BY <1>4, <1>6, <2>1 DEF Growth
    <3>4. 3 * width + 2 * Herd + 2 * r < N
      BY <1>7, <3>2, <3>3
    <3> QED BY <1>1, <1>7, <2>1, <3>4 DEF Base
  <2>2. CASE ~NegMap
    <3>1. scalars \in JumpTables /\ width \in Widths
      BY <1>1 DEF CallType
    <3>2. 2 * (width + MaxSteps * scalars[i]) < N
      BY <1>5, <3>1, KangarooRefAssumption
    <3>3. r = MaxSteps * scalars[i]
      BY <1>4, <1>6, <1>7, <2>2 DEF Growth
    <3>4. 2 * (width + r) < N
      BY <3>2, <3>3
    <3> QED BY <1>1, <1>7, <2>2, <3>4 DEF Base
  <2> QED BY <2>1, <2>2
<1> QED BY <1>1, <1>7, <1>8, <1>9 DEF Near, Fits

\* The distances stay below half of the group's order: in the plain reference,
\* and with the negation map as long as there is room to escape at every turn.
THEOREM DistancesStayFit ==
    ASSUME "negmap" \in Builds => RoomToEscape
    PROVE  Spec => []DistancesFit
<1>1. DistInv => DistancesFit
  BY DistFits
<1> QED BY <1>1, DistInit, DistNext, PTL DEF Spec

\* So no meeting is passed over: NoMeetingMissed, in the plain reference for
\* all its calls.
COROLLARY MeetingsEndSearch ==
    ASSUME "negmap" \in Builds => RoomToEscape
    PROVE  Spec => []NoMeetingMissed
BY DistancesStayFit, NoMeetingIsMissed, PTL

-----------------------------------------------------------------------------
(* Escapes *)

\* Where a step leads from a point: the rest of the state has no say in it.
Onward(e) == Step(<<e, 0, 0>>)[1]

\* The points of even y, on which the negation map's kangaroos stand.
Upper == {e \in 1 .. N - 1 : ~YIsOdd[e]}

\* h is a way of n steps over such points; one leads from p to q.
IsTrail(h, n) ==
    \A k \in 0 .. n : h[k] \in Upper /\ (k # 0 => h[k] = Onward(h[k - 1]))
Leads(p, n, q) == \E h : IsTrail(h, n) /\ h[0] = p /\ h[n] = q

\* The walk from p comes back to p before _escape gives up.
Returns(p) == \E n \in 1 .. MaxCyc : Leads(p, n, p)
Orbit(p) == {q \in Upper : \E n \in Nat : Leads(p, n, q)}
Places(states) == {t[1] : t \in states}

LEMMA StepIsOnward == \A s : Step(s)[1] = Onward(s[1])
<1> SUFFICES ASSUME NEW s PROVE Step(s)[1] = Onward(s[1])
  OBVIOUS
<1>1. \A e, x, y, z, w : Folded(e, x, y)[1] = Folded(e, z, w)[1]
  BY DEF Folded
<1> QED BY <1>1 DEF Step, Onward

LEMMA LeadsStep ==
    ASSUME NEW p \in Upper
    PROVE  Leads(p, 0, p) /\ (Onward(p) \in Upper => Leads(p, 1, Onward(p)))
<1>1. Leads(p, 0, p)
  <2> DEFINE h == [k \in 0 .. 0 |-> p]
  <2>1. h[0] = p /\ \A k \in 0 .. 0 : k = 0
    OBVIOUS
  <2> QED BY <2>1 DEF Leads, IsTrail
<1>2. ASSUME Onward(p) \in Upper
      PROVE  Leads(p, 1, Onward(p))
  <2> DEFINE h == [k \in 0 .. 1 |-> IF k = 0 THEN p ELSE Onward(p)]
  <2>1. h[0] = p /\ h[1] = Onward(p) /\ \A k \in 0 .. 1 : k = 0 \/ (k = 1 /\ k - 1 = 0)
    OBVIOUS
  <2> HIDE DEF h
  <2>2. \A k \in 0 .. 1 : h[k] \in Upper /\ (k # 0 => h[k] = Onward(h[k - 1]))
    BY <1>2, <2>1
  <2> QED BY <2>1, <2>2 DEF Leads, IsTrail
<1> QED BY <1>1, <1>2

LEMMA LeadsThrough ==
    ASSUME NEW m \in Nat, NEW n \in Nat, NEW p, NEW q, NEW r, Leads(p, m, q), Leads(q, n, r)
    PROVE  Leads(p, m + n, r)
<1>1. PICK f : IsTrail(f, m) /\ f[0] = p /\ f[m] = q
  BY DEF Leads
<1>2. PICK g : IsTrail(g, n) /\ g[0] = q /\ g[n] = r
  BY DEF Leads
<1> DEFINE h == [k \in 0 .. m + n |-> IF k <= m THEN f[k] ELSE g[k - m]]
<1>3. \A k \in 0 .. m : h[k] = f[k]
  OBVIOUS
<1>4. \A k \in 0 .. n : h[m + k] = g[k]
  <2> SUFFICES ASSUME NEW k \in 0 .. n PROVE h[m + k] = g[k]
    OBVIOUS
  <2>1. CASE k = 0
    BY <1>1, <1>2, <2>1
  <2>2. CASE k # 0
    <3>1. m + k \in 0 .. m + n /\ ~(m + k <= m) /\ (m + k) - m = k
      BY <2>2
    <3> QED BY <3>1
  <2> QED BY <2>1, <2>2
<1> HIDE DEF h
<1>5. ASSUME NEW k \in 0 .. m + n
      PROVE  h[k] \in Upper /\ (k # 0 => h[k] = Onward(h[k - 1]))
  <2>1. CASE k <= m
    <3>1. k \in 0 .. m /\ (k # 0 => k - 1 \in 0 .. m)
      BY <2>1
    <3> QED BY <1>1, <1>3, <3>1 DEF IsTrail
  <2>2. CASE k > m
    <3>1. PICK j \in 0 .. n : k = m + j /\ j # 0 /\ j - 1 \in 0 .. n /\ k - 1 = m + (j - 1)
      <4>1. k - m \in 0 .. n /\ k = m + (k - m) /\ k - m # 0
        BY <2>2
      <4> QED BY <4>1
    <3>2. h[k] = g[j] /\ h[k - 1] = g[j - 1]
      BY <1>4, <3>1
    <3> QED BY <1>2, <3>1, <3>2 DEF IsTrail
  <2> QED BY <2>1, <2>2
<1>6. h[0] = p /\ h[m + n] = r
  BY <1>1, <1>2, <1>3, <1>4
<1> QED BY <1>5, <1>6 DEF Leads, IsTrail

LEMMA LeadsApart ==
    ASSUME NEW n \in Nat, NEW h, IsTrail(h, n), NEW k \in 0 .. n
    PROVE  Leads(h[0], k, h[k]) /\ Leads(h[k], n - k, h[n])
<1>1. Leads(h[0], k, h[k])
  <2>1. 0 .. k \subseteq 0 .. n
    OBVIOUS
  <2> QED BY <2>1 DEF Leads, IsTrail
<1>2. Leads(h[k], n - k, h[n])
  <2> DEFINE g == [j \in 0 .. n - k |-> h[k + j]]
  <2>1. \A j \in 0 .. n - k : g[j] = h[k + j]
    OBVIOUS
  <2>2. 0 \in 0 .. n - k /\ n - k \in 0 .. n - k /\ k + 0 = k /\ k + (n - k) = n
    OBVIOUS
  <2> HIDE DEF g
  <2>3. ASSUME NEW j \in 0 .. n - k
        PROVE  g[j] \in Upper /\ (j # 0 => g[j] = Onward(g[j - 1]))
    <3>1. k + j \in 0 .. n /\ (j # 0 => k + j # 0 /\ j - 1 \in 0 .. n - k /\ (k + j) - 1 = k + (j - 1))
      OBVIOUS
    <3> QED BY <2>1, <3>1 DEF IsTrail
  <2>4. g[0] = h[k] /\ g[n - k] = h[n]
    BY <2>1, <2>2
  <2> QED BY <2>3, <2>4 DEF Leads, IsTrail
<1> QED BY <1>1, <1>2

\* The states f that _escape goes through from s until after e steps it is back
\* at the point of s, and their points h.
Circuit(s, f, h, e) ==
    /\ Traverse(s) = {f[k] : k \in 0 .. e - 1}
    /\ f[0] = s /\ Step(f[e - 1])[1] = s[1]
    /\ IsTrail(h, e) /\ h[e] = s[1] /\ \A k \in 0 .. e - 1 : f[k][1] = h[k]

\* What _escape goes through from a point that the walk comes back to: the
\* cycle, once.
LEMMA TraverseReturns ==
    ASSUME NEW s, Returns(s[1])
    PROVE  \E f, h : \E e \in 1 .. MaxCyc : Circuit(s, f, h, e)
<1> DEFINE f == CHOOSE f : IsWalk(f, s, MaxCyc)
<1>1. IsWalk(f, s, MaxCyc) /\ Traverse(s) = UpToReturn(f)
  <2>1. Traverse(s) = UpToReturn(f)
    BY DEF Traverse, IsWalk
  <2> QED BY <2>1, WalkExists, Constants
<1> HIDE DEF f
<1>2. PICK n \in 1 .. MaxCyc : Leads(s[1], n, s[1])
  BY DEF Returns
<1>3. PICK h : IsTrail(h, n) /\ h[0] = s[1] /\ h[n] = s[1]
  BY <1>2 DEF Leads
<1>4. MaxCyc \in Nat /\ n \in Nat
  BY <1>2, Constants
<1>5. f[0] = s /\ \A k \in 0 .. MaxCyc : k # 0 => f[k] = Step(f[k - 1])
  BY <1>1, <1>4 DEF IsWalk
<1>6. \A k \in 0 .. n : f[k][1] = h[k]
  <2> DEFINE T == {k \in Nat : k <= n => f[k][1] = h[k]}
  <2>1. 0 \in T
    BY <1>3, <1>5
  <2>2. ASSUME NEW k \in Nat, k \in T
        PROVE  k + 1 \in T
    <3> SUFFICES ASSUME k + 1 <= n PROVE f[k + 1][1] = h[k + 1]
      OBVIOUS
    <3>1. f[k][1] = h[k]
      BY <1>4, <2>2
    <3>2. k + 1 \in 0 .. n /\ k + 1 \in 0 .. MaxCyc /\ k + 1 # 0 /\ (k + 1) - 1 = k
      BY <1>2, <1>4
    <3>3. f[k + 1] = Step(f[k]) /\ h[k + 1] = Onward(h[k])
      BY <1>3, <1>5, <3>2 DEF IsTrail
    <3> QED BY <3>1, <3>3, StepIsOnward
  <2>3. Nat \subseteq T
    <3> HIDE DEF T
    <3> QED BY <2>1, <2>2, Induction
  <2> QED BY <1>4, <2>3
<1> DEFINE back == {k \in 1 .. MaxCyc : f[k][1] = f[0][1]}
           end == IF back = {} THEN MaxCyc + 1 ELSE CHOOSE k \in back : \A m \in back : k <= m
<1>7. n \in back
  <2>1. f[n][1] = h[n]
    BY <1>4, <1>6
  <2> QED BY <1>2, <1>3, <1>5, <2>1
<1>8. end \in back /\ end <= n
  <2>1. back \subseteq Nat
    BY <1>4
  <2>2. \E k \in back : \A m \in back : k <= m
    <3> HIDE DEF back
    <3> QED BY <1>7, <2>1, LeastExists
  <2>3. end \in back /\ \A m \in back : end <= m
    <3> HIDE DEF back
    <3> QED BY <1>7, <2>2
  <2> HIDE DEF back, end
  <2> QED BY <1>7, <2>3
<1>9. Traverse(s) = {f[k] : k \in 0 .. end - 1}
  BY <1>1 DEF UpToReturn
<1>10. PICK e \in 1 .. MaxCyc : e = end
  BY <1>8
<1>11. e <= n /\ f[e][1] = f[0][1]
  <2>1. end \in {k \in 1 .. MaxCyc : f[k][1] = f[0][1]}
    BY <1>8
  <2> HIDE DEF back, end
  <2> QED BY <1>8, <1>10, <2>1
<1> HIDE DEF back, end
<1>12. f[e] = Step(f[e - 1])
  <2>1. e \in 0 .. MaxCyc /\ e # 0
    BY <1>4
  <2> QED BY <1>5, <2>1
<1>13. IsTrail(h, e) /\ h[e] = s[1]
  <2>1. 0 .. e \subseteq 0 .. n /\ e \in 0 .. n
    BY <1>4, <1>11
  <2>2. h[e] = f[e][1]
    BY <1>6, <2>1
  <2> QED BY <1>3, <1>5, <1>11, <2>1, <2>2 DEF IsTrail
<1>14. \A k \in 0 .. e - 1 : f[k][1] = h[k]
  BY <1>4, <1>6, <1>11
<1>15. /\ Traverse(s) = {f[k] : k \in 0 .. e - 1}
       /\ f[0] = s /\ Step(f[e - 1])[1] = s[1]
  BY <1>5, <1>9, <1>10, <1>11, <1>12
<1> QED BY <1>13, <1>14, <1>15 DEF Circuit

\* So its points are all those that the walk ever comes to.
LEMMA PlacesAreOrbit ==
    ASSUME NEW s, Returns(s[1])
    PROVE  Places(Traverse(s)) = Orbit(s[1]) /\ s[1] \in Orbit(s[1])
<1>1. PICK f, h : \E e \in 1 .. MaxCyc : Circuit(s, f, h, e)
  BY TraverseReturns
<1> PICK e \in 1 .. MaxCyc : Circuit(s, f, h, e)
  BY <1>1
<1> USE DEF Circuit
<1>2. e \in Nat /\ 0 \in 0 .. e - 1 /\ 0 .. e - 1 \subseteq 0 .. e /\ h[0] = s[1]
  BY <1>1, Constants
<1>3. Places(Traverse(s)) = {h[k] : k \in 0 .. e - 1}
  BY <1>1 DEF Places
<1>4. ASSUME NEW k \in 0 .. e - 1 PROVE h[k] \in Orbit(s[1])
  <2>1. Leads(h[0], k, h[k]) /\ h[k] \in Upper /\ k \in Nat
    BY <1>1, <1>2, LeadsApart DEF IsTrail
  <2> QED BY <1>2, <2>1 DEF Orbit
<1>5. ASSUME NEW q \in Orbit(s[1]) PROVE q \in {h[k] : k \in 0 .. e - 1}
  <2>1. PICK n \in Nat : Leads(s[1], n, q)
    BY <1>5 DEF Orbit
  <2>2. PICK g : IsTrail(g, n) /\ g[0] = s[1] /\ g[n] = q
    BY <2>1 DEF Leads
  <2> DEFINE T == {j \in Nat : j <= n => g[j] \in {h[k] : k \in 0 .. e - 1}}
  <2>3. 0 \in T
    BY <1>2, <2>2
  <2>4. ASSUME NEW j \in Nat, j \in T
        PROVE  j + 1 \in T
    <3> SUFFICES ASSUME j + 1 <= n PROVE g[j + 1] \in {h[k] : k \in 0 .. e - 1}
      OBVIOUS
    <3>1. PICK k \in 0 .. e - 1 : g[j] = h[k]
      BY <2>4
    <3>2. j + 1 \in 0 .. n /\ j + 1 # 0 /\ (j + 1) - 1 = j
      OBVIOUS
    <3>3. k + 1 \in 0 .. e /\ k + 1 # 0 /\ (k + 1) - 1 = k
      BY <1>2
    <3>4. g[j + 1] = Onward(g[j]) /\ h[k + 1] = Onward(h[k])
      BY <1>1, <2>2, <3>2, <3>3 DEF IsTrail
    <3>5. g[j + 1] = h[k + 1]
      BY <3>1, <3>4
    <3>6. CASE k + 1 = e
      BY <1>1, <1>2, <3>5, <3>6
    <3>7. CASE k + 1 # e
      <4>1. k + 1 \in 0 .. e - 1
        BY <1>2, <3>7
      <4> QED BY <3>5, <4>1
    <3> QED BY <3>6, <3>7
  <2>5. Nat \subseteq T
    <3> HIDE DEF T
    <3> QED BY <2>3, <2>4, Induction
  <2> QED BY <2>2, <2>5
<1>6. {h[k] : k \in 0 .. e - 1} \subseteq Orbit(s[1])
  BY <1>4
<1>7. Orbit(s[1]) \subseteq {h[k] : k \in 0 .. e - 1}
  BY <1>5
<1>8. s[1] \in {h[k] : k \in 0 .. e - 1}
  BY <1>2
<1> QED BY <1>3, <1>6, <1>7, <1>8

\* It is one cycle, wherever the walk enters it.
LEMMA OrbitsAgree ==
    ASSUME NEW s, Returns(s[1]), NEW t \in Traverse(s)
    PROVE  Returns(t[1]) /\ Orbit(t[1]) = Orbit(s[1])
<1>1. PICK f, h : \E e \in 1 .. MaxCyc : Circuit(s, f, h, e)
  BY TraverseReturns
<1> PICK e \in 1 .. MaxCyc : Circuit(s, f, h, e)
  BY <1>1
<1> USE DEF Circuit
<1>2. PICK k \in 0 .. e - 1 : t = f[k]
  BY <1>1
<1>3. /\ e \in Nat /\ 0 \in 0 .. e - 1 /\ k \in 0 .. e /\ k \in Nat /\ e - k \in Nat
      /\ k + (e - k) = e /\ (e - k) + k = e
  BY <1>1, <1>2, Constants
<1>4. PICK p, q : p = s[1] /\ q = t[1] /\ h[0] = p /\ h[k] = q
  BY <1>1, <1>2, <1>3
<1>5. Leads(p, k, q) /\ Leads(q, e - k, p)
  BY <1>1, <1>3, <1>4, LeadsApart
<1>6. Leads(q, e, q)
  BY <1>3, <1>5, LeadsThrough
<1>7. Orbit(q) \subseteq Orbit(p)
  <2> SUFFICES ASSUME NEW r \in Upper, NEW n \in Nat, Leads(q, n, r)
               PROVE  \E m \in Nat : Leads(p, m, r)
    BY DEF Orbit
  <2>1. k + n \in Nat /\ Leads(p, k + n, r)
    BY <1>3, <1>5, LeadsThrough
  <2> QED BY <2>1
<1>8. Orbit(p) \subseteq Orbit(q)
  <2> SUFFICES ASSUME NEW r \in Upper, NEW n \in Nat, Leads(p, n, r)
               PROVE  \E m \in Nat : Leads(q, m, r)
    BY DEF Orbit
  <2>1. (e - k) + n \in Nat /\ Leads(q, (e - k) + n, r)
    BY <1>3, <1>5, LeadsThrough
  <2> QED BY <2>1
<1>9. Returns(q)
  BY <1>6 DEF Returns
<1>10. Orbit(q) = Orbit(p)
  BY <1>7, <1>8
<1> QED BY <1>4, <1>9, <1>10

\* No two points of even y have one x.
LEMMA UpperXs == \A p, q \in Upper : XOf[p] = XOf[q] => p = q
<1> SUFFICES ASSUME NEW p \in Upper, NEW q \in Upper, XOf[p] = XOf[q], p # q
             PROVE  FALSE
  OBVIOUS
<1>1. p \in 1 .. N - 1 /\ q \in 1 .. N - 1 /\ ~YIsOdd[p] /\ ~YIsOdd[q]
  BY DEF Upper
<1>2. q = N - p
  BY <1>1, XsTellApart
<1>3. YIsOdd[N - p] <=> ~YIsOdd[p]
  BY <1>1, OddIs
<1> QED BY <1>1, <1>2, <1>3

\* _escape ends at the same point from anywhere in a cycle.
LEMMA EscapesAlike ==
    ASSUME NEW s, Returns(s[1]), NEW t \in Traverse(s)
    PROVE  Escape(t)[1] = Escape(s)[1]
<1>1. Returns(t[1]) /\ Orbit(t[1]) = Orbit(s[1])
  BY OrbitsAgree
<1>2. PICK S, T, O : S = Traverse(s) /\ T = Traverse(t) /\ O = Orbit(s[1])
  OBVIOUS
<1>3. Places(S) = O /\ Places(T) = O /\ O # {} /\ O \subseteq Upper
  <2>1. Places(S) = O /\ O # {}
    BY <1>2, PlacesAreOrbit
  <2>2. Places(T) = O
    BY <1>1, <1>2, PlacesAreOrbit
  <2> QED BY <1>2, <2>1, <2>2 DEF Orbit
<1>4. S # {} /\ T # {} /\ (\A u \in S : u[1] \in O) /\ (\A v \in T : v[1] \in O)
  BY <1>3 DEF Places
<1>5. O \subseteq 0 .. N - 1
  BY <1>3, Constants DEF Upper
<1>6. PICK u \in S : u = LeastX(S) /\ \A w \in S : XOf[u[1]] <= XOf[w[1]]
  BY <1>4, <1>5, LeastXIs
<1>7. PICK v \in T : v = LeastX(T) /\ \A w \in T : XOf[v[1]] <= XOf[w[1]]
  BY <1>4, <1>5, LeastXIs
<1>8. PICK w \in S, z \in T : w[1] = v[1] /\ z[1] = u[1]
  BY <1>3, <1>4 DEF Places
<1>9. XOf[u[1]] <= XOf[v[1]] /\ XOf[v[1]] <= XOf[u[1]]
  <2>1. XOf[u[1]] <= XOf[w[1]] /\ XOf[v[1]] <= XOf[z[1]]
    BY <1>6, <1>7, <1>8
  <2> QED BY <1>8, <2>1
<1>10. u[1] = v[1]
  <2>1. u[1] \in Upper /\ v[1] \in Upper
    BY <1>3, <1>4
  <2>2. XOf[u[1]] \in Nat /\ XOf[v[1]] \in Nat
    BY <1>4, <1>5, XIs
  <2>3. XOf[u[1]] = XOf[v[1]]
    BY <1>9, <2>2
  <2> QED BY <2>1, <2>3, UpperXs
<1>11. JumpByOne(u)[1] = JumpByOne(v)[1]
  <2>1. \A e, x, y, z1, z2 : Folded(e, x, y)[1] = Folded(e, z1, z2)[1]
    BY DEF Folded
  <2> QED BY <1>10, <2>1 DEF JumpByOne
<1> QED BY <1>2, <1>6, <1>7, <1>11 DEF Escape

\* A point in a window: the kangaroo has walked from it since, or the point is
\* one of a cycle that the kangaroo has escaped from.
Caught(p) == \E n \in 1 .. CycWindow : Leads(p, n, p)
Walked(p, n, q) == n \in Nat \ {0} /\ Leads(p, n, q)
Remembered(i, p) == Walked(p, Turns(i) - wins[i][p], pos[i]) \/ Caught(p)

WindowInv ==
    /\ DistInv /\ DOMAIN wins = Kangaroos
    /\ NegMap /\ outcome = "running" =>
          \A i \in Kangaroos : \A p \in DOMAIN wins[i] :
              wins[i][p] \in Nat /\ Remembered(i, p)

LEMMA WindowInit == Init => WindowInv
<1> SUFFICES ASSUME Init PROVE WindowInv
  OBVIOUS
<1>1. DOMAIN wins = Kangaroos /\ \A i \in Kangaroos : DOMAIN wins[i] = {}
  BY DEF Init
<1> QED BY <1>1, DistInit DEF WindowInv

LEMMA LeadsFixed ==
    ASSUME UNCHANGED call
    PROVE  /\ \A p : Caught(p)' <=> Caught(p)
           /\ \A p, n, q : Walked(p, n, q)' <=> Walked(p, n, q)
<1>1. scalars' = scalars /\ build' = build
  BY DEF call
<1>2. \A e : Onward(e)' = Onward(e)
  BY <1>1 DEF Onward, Step, JumpOf, Folded, NegMap
<1>3. \A h, n : IsTrail(h, n)' <=> IsTrail(h, n)
  BY <1>2 DEF IsTrail
<1>4. \A p, n, q : Leads(p, n, q)' <=> Leads(p, n, q)
  BY <1>3 DEF Leads
<1> QED BY <1>4 DEF Caught, Walked

\* The window takes a point for one of a cycle only if it is.
LEMMA RepeatsCaught ==
    ASSUME WindowInv, outcome = "running", NEW i \in Kangaroos, turn = i, Repeats(i)
    PROVE  Caught(pos[i])
<1>1. NegMap /\ pos[i] \in DOMAIN wins[i] /\ steps - wins[i][pos[i]] <= CycWindow
  BY DEF Repeats
<1>2. steps \in Nat /\ i \in Nat /\ CycWindow \in Nat
  BY HerdsAre, Constants, KangarooRefAssumption DEF WindowInv, DistInv
<1>3. Turns(i) = steps
  BY <1>2 DEF Turns
<1>4. PICK n : n = steps - wins[i][pos[i]]
  OBVIOUS
<1>5. Walked(pos[i], n, pos[i]) \/ Caught(pos[i])
  BY <1>1, <1>3, <1>4 DEF WindowInv, Remembered
<1>6. n <= CycWindow
  BY <1>1, <1>4
<1>7. n \in Nat \ {0} => n \in 1 .. CycWindow
  BY <1>2, <1>6
<1> QED BY <1>5, <1>7 DEF Walked, Caught

\* Where a kangaroo stands at its turn, and after it.
LEMMA StandsUpper ==
    ASSUME RefInv, NegMap, NEW i \in Kangaroos, Move(i)
    PROVE  pos[i] \in Upper /\ Moved(i)[1] \in Upper /\ pos'[i] = Moved(i)[1]
<1>1. pos[i] # Identity /\ Moved(i)[1] # Identity /\ MoveTo(i, Moved(i))
  BY DEF Move
<1>2. Backed(i \in Tame, State(i)) /\ Backed(i \in Tame, Moved(i)) /\ DOMAIN pos = Kangaroos
  BY MovedIsBacked DEF RefInv
<1>3. \A e \in 0 .. N - 1 : e # Identity /\ ~YIsOdd[e] => e \in Upper
  BY Constants DEF Upper, Identity
<1>4. pos[i] \in Upper /\ Moved(i)[1] \in Upper
  BY <1>1, <1>2, <1>3 DEF Backed, State
<1>5. pos'[i] = Moved(i)[1]
  BY <1>1, <1>2 DEF MoveTo
<1> QED BY <1>4, <1>5

LEMMA WindowMove ==
    ASSUME WindowInv, NEW i \in Kangaroos, Move(i), DistInv'
    PROVE  WindowInv'
<1>1. /\ UNCHANGED call /\ outcome = "running" /\ turn = i
      /\ wins' = [wins EXCEPT ![i] = Window(i)] /\ pos' = [pos EXCEPT ![i] = Moved(i)[1]]
  BY DEF Move, Turn, MoveTo
<1>2. Kangaroos' = Kangaroos /\ (NegMap' <=> NegMap)
  BY <1>1, FixedMeaning
<1>3. DOMAIN wins = Kangaroos /\ DOMAIN pos = Kangaroos /\ DOMAIN wins' = Kangaroos
  BY <1>1 DEF WindowInv, DistInv, RefInv
<1>4. steps \in Nat /\ Turns(i) = steps /\ Turns(i)' = steps + 1
      /\ \A k \in Kangaroos \ {i} : Turns(k)' = Turns(k)
  BY TurnTaken DEF WindowInv, DistInv
<1> SUFFICES ASSUME NegMap, NEW k \in Kangaroos, NEW p \in DOMAIN (wins'[k])
             PROVE  wins'[k][p] \in Nat /\ Remembered(k, p)'
  BY <1>2, <1>3 DEF WindowInv
<1>5. CASE k # i
  <2>1. wins'[k] = wins[k] /\ pos'[k] = pos[k] /\ Turns(k)' = Turns(k)
    BY <1>1, <1>3, <1>4, <1>5
  <2>2. wins[k][p] \in Nat /\ Remembered(k, p)
    BY <1>1, <2>1 DEF WindowInv
  <2>3. PICK n, q : n = Turns(k) - wins[k][p] /\ q = pos[k]
    OBVIOUS
  <2>4. Walked(p, n, q)' \/ Caught(p)'
    BY <1>1, <2>2, <2>3, LeadsFixed DEF Remembered
  <2>5. n = (Turns(k) - wins[k][p])' /\ q = pos[k]'
    BY <2>1, <2>3
  <2> QED BY <2>1, <2>2, <2>4, <2>5 DEF Remembered
<1>6. CASE k = i
  <2>1. pos[i] \in Upper /\ Moved(i)[1] \in Upper /\ pos'[i] = Moved(i)[1]
    BY StandsUpper DEF WindowInv, DistInv
  <2>2. wins'[i] = Window(i)
    BY <1>1, <1>3
  <2>3. CASE Repeats(i)
    <3>1. wins'[i] = [z \in {pos[i]} |-> steps]
      BY <2>2, <2>3 DEF Window, Put
    <3>2. p = pos[i] /\ wins'[i][p] = steps
      BY <1>6, <3>1
    <3>3. Caught(p)
      BY <1>1, <2>3, <3>2, RepeatsCaught
    <3>4. Caught(p)'
      BY <1>1, <3>3, LeadsFixed
    <3> QED BY <1>4, <1>6, <3>2, <3>4 DEF Remembered
  <2>4. CASE ~Repeats(i)
    <3>1. PICK r, q : r = pos[i] /\ q = Onward(r) /\ q \in Upper /\ pos'[i] = q /\ r \in Upper
      <4>1. Moved(i)[1] = Onward(pos[i])
        BY <2>4, StepIsOnward DEF Moved, State
      <4> QED BY <2>1, <4>1
    <3>2. Leads(r, 1, q)
      BY <3>1, LeadsStep
    <3>3. wins'[i] = [z \in DOMAIN wins[i] \cup {r} |-> IF z = r THEN steps ELSE wins[i][z]]
      BY <2>2, <2>4, <3>1 DEF Window, Put
    <3>4. CASE p = r
      <4>1. wins'[i][p] = steps
        BY <3>3, <3>4
      <4>2. Walked(p, 1, q)'
        <5>1. Walked(p, 1, q)
          BY <3>2, <3>4 DEF Walked
        <5> QED BY <1>1, <5>1, LeadsFixed
      <4>3. (Turns(i) - wins[i][p])' = 1 /\ pos[i]' = q
        BY <1>4, <3>1, <4>1
      <4> QED BY <1>4, <1>6, <4>1, <4>2, <4>3 DEF Remembered
    <3>5. CASE p # r
      <4>1. p \in DOMAIN wins[i] /\ wins'[i][p] = wins[i][p]
        BY <1>6, <3>3, <3>5
      <4>2. PICK w \in Nat : w = wins[i][p]
        BY <1>1, <4>1 DEF WindowInv
      <4>3. Walked(p, steps - w, r) \/ Caught(p)
        BY <1>1, <1>4, <3>1, <4>1, <4>2 DEF WindowInv, Remembered
      <4>4. Walked(p, (steps - w) + 1, q) \/ Caught(p)
        <5>1. ASSUME Walked(p, steps - w, r)
              PROVE  Walked(p, (steps - w) + 1, q)
          <6>1. PICK m \in Nat : m = steps - w /\ Leads(p, m, r)
            BY <5>1 DEF Walked
          <6>2. Leads(p, m + 1, q)
            BY <3>2, <6>1, LeadsThrough
          <6> QED BY <6>1, <6>2 DEF Walked
        <5> QED BY <4>3, <5>1
      <4>5. PICK n : n = (steps - w) + 1
        OBVIOUS
      <4>6. Walked(p, n, q)' \/ Caught(p)'
        BY <1>1, <4>4, <4>5, LeadsFixed
      <4>7. n = (Turns(i) - wins[i][p])' /\ q = pos[i]'
        BY <1>4, <3>1, <4>1, <4>2, <4>5
      <4> QED BY <1>6, <4>1, <4>2, <4>6, <4>7 DEF Remembered
    <3> QED BY <3>4, <3>5
  <2> QED BY <2>3, <2>4
<1> QED BY <1>5, <1>6

LEMMA WindowNext ==
    ASSUME WindowInv, [Next]_vars
    PROVE  WindowInv'
<1>1. DistInv'
  BY DistNext DEF WindowInv
<1>2. CASE \E i \in Kangaroos : Move(i)
  BY <1>1, <1>2, WindowMove
<1>3. CASE (\E i \in Kangaroos : Crash(i)) \/ GiveUp
  <2>1. outcome' # "running" /\ UNCHANGED call
    BY <1>3 DEF Crash, GiveUp
  <2>2. DOMAIN wins' = DOMAIN wins
    BY <1>3 DEF Crash, GiveUp, MoveTo, herds
  <2> QED BY <1>1, <2>1, <2>2, FixedMeaning DEF WindowInv
<1>4. CASE UNCHANGED vars
  <2>1. UNCHANGED call /\ wins' = wins /\ pos' = pos /\ outcome' = outcome
        /\ turn' = turn /\ steps' = steps
    BY <1>4 DEF vars, herds
  <2>2. ASSUME NegMap, outcome = "running", NEW i \in Kangaroos, NEW p \in DOMAIN wins[i]
        PROVE  (wins[i][p] \in Nat /\ Remembered(i, p))'
    <3>1. PICK n, q : /\ n = Turns(i) - wins[i][p] /\ q = pos[i]
                      /\ n = (Turns(i) - wins[i][p])' /\ q = pos[i]'
      BY <2>1 DEF Turns
    <3>2. wins[i][p] \in Nat /\ (Walked(p, n, q) \/ Caught(p))
      BY <2>2, <3>1 DEF WindowInv, Remembered
    <3>3. Walked(p, n, q)' \/ Caught(p)'
      BY <2>1, <3>2, LeadsFixed
    <3> QED BY <2>1, <3>1, <3>2, <3>3 DEF Remembered
  <2> QED BY <1>1, <2>1, <2>2, FixedMeaning DEF WindowInv
<1> QED BY <1>2, <1>3, <1>4 DEF Next

\* EscapesTogether: whenever the window makes a kangaroo escape, its walk does
\* come back to where it stands, however many escapes there were before, and
\* wherever in this cycle a walk is caught it escapes to the same point.
THEOREM EscapesMerge == Spec => EscapesTogether
<1>1. ASSUME WindowInv, [Next]_vars, NEW i \in Kangaroos, turn = i, Repeats(i), pos' # pos
      PROVE  /\ pos[i] \in {Step(t)[1] : t \in Traverse(State(i))}
             /\ \A t \in Traverse(State(i)) : pos'[i] = Escape(t)[1]
  <2>1. outcome = "running" /\ MoveTo(i, Moved(i))
    <3>1. \/ \E k \in Kangaroos : Turn(k) /\ MoveTo(k, Moved(k))
          \/ pos' = pos
      BY <1>1 DEF Next, Move, Crash, GiveUp, vars, herds
    <3> QED BY <1>1, <3>1 DEF Turn
  <2>2. DOMAIN pos = Kangaroos
    BY <1>1 DEF WindowInv, DistInv, RefInv
  <2>3. PICK s : s = State(i) /\ s[1] = pos[i]
    <3>1. State(i)[1] = pos[i]
      BY DEF State
    <3> QED BY <3>1
  <2>4. pos'[i] = Escape(s)[1]
    BY <1>1, <2>1, <2>2, <2>3 DEF MoveTo, Moved
  <2>5. Returns(s[1])
    <3>1. Caught(pos[i])
      BY <1>1, <2>1, RepeatsCaught
    <3>2. 1 .. CycWindow \subseteq 1 .. MaxCyc
      BY KangarooRefAssumption
    <3> QED BY <2>3, <3>1, <3>2 DEF Caught, Returns
  <2>6. pos[i] \in {Step(t)[1] : t \in Traverse(s)}
    <3>1. PICK f, h : \E e \in 1 .. MaxCyc : Circuit(s, f, h, e)
      BY <2>5, TraverseReturns
    <3>2. PICK e \in 1 .. MaxCyc : Circuit(s, f, h, e)
      BY <3>1
    <3>3. e - 1 \in 0 .. e - 1
      BY Constants
    <3> QED BY <2>3, <3>2, <3>3 DEF Circuit
  <2>7. \A t \in Traverse(s) : pos'[i] = Escape(t)[1]
    BY <2>4, <2>5, EscapesAlike
  <2> QED BY <2>3, <2>6, <2>7
<1>2. WindowInv /\ [Next]_vars => WindowInv'
  BY WindowNext
<1>3. WindowInv /\ [Next]_vars =>
        [\A i \in Kangaroos :
            turn = i /\ Repeats(i) /\ pos' # pos =>
                /\ pos[i] \in {Step(t)[1] : t \in Traverse(State(i))}
                /\ \A t \in Traverse(State(i)) : pos'[i] = Escape(t)[1]]_vars
  BY <1>1
<1> QED BY <1>2, <1>3, WindowInit, PTL DEF Spec, EscapesTogether

=============================================================================
