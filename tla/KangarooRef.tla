----------------------------- MODULE KangarooRef -----------------------------
(***************************************************************************)
(* kernels/kangaroo/kangaroo_ref.py (solve_kat) and kangaroo_negmap_ref.py *)
(* (solve_kat_negmap): the serial references of the kangaroo solver.  Both *)
(* move their kangaroos in turn and look for a tame and a wild one at the  *)
(* same distinguished x.  The first has one of each; the second has herds, *)
(* folds P and -P into the one with even y, and escapes from the cycles    *)
(* that the folding creates.                                               *)
(*                                                                         *)
(* The group is the library coincurve's: a point is its discrete logarithm *)
(* modulo N, and SmallCurve says what its x and its parity are.  Scalars   *)
(* and distances are Python integers, never reduced.                       *)
(***************************************************************************)
EXTENDS SmallCurve, FiniteSets

CONSTANTS Builds,     \* of {"plain", "negmap"}
          Lo, Widths, \* the intervals [Lo, Lo + W]
          Keys,       \* the keys behind the public keys given
          Herd,       \* M of solve_kat_negmap (the code never goes below 8)
          JumpTables, \* the choices of `scalars`
          DPMask,     \* dp_mask + 1
          CycWindow,  \* CYC_WINDOW
          MaxCyc,     \* MAX_CYC
          MaxSteps

\* The distances stay below half of the group's order, as in the real group.
ASSUME KangarooRefAssumption ==
    /\ Builds \subseteq {"plain", "negmap"}
    /\ Lo \in Nat /\ Widths \subseteq Nat /\ Keys \subseteq 1 .. N - 1
    /\ Herd \in Nat \ {0} /\ DPMask \in Nat \ {0}
    /\ CycWindow \in Nat /\ MaxCyc \in Nat /\ CycWindow <= MaxCyc /\ MaxSteps \in Nat
    /\ JumpTables \subseteq Seq(1 .. N - 1) \ {<<>>}
    /\ \A s \in JumpTables : \A i \in DOMAIN s, wd \in Widths :
        2 * (wd + MaxSteps * s[i]) < N

ASSUME GroupAssumption == GroupLaws

VARIABLES build, width, key, scalars,  \* the call; the code never sees key
          pos, sgn, dist,    \* each kangaroo's point, of logarithm a * d' + w: a and w
          wins,              \* its window: the step at which it left each point
          tameDP, wildDP,    \* the tables: x to <<a, w>>
          steps, turn,       \* the loop's counter, and the kangaroo to move
          outcome            \* "running", "solved", "crashed" or "gaveUp"

call == <<build, width, key, scalars>>
herds == <<pos, sgn, dist, wins>>
vars == <<call, herds, tameDP, wildDP, steps, turn, outcome>>

NegMap == build = "negmap"

\* _x_of of the identity is 0; _xy of it raises.
Identity == 0
XOf == [e \in 0 .. N - 1 |-> IF e = Identity THEN 0 ELSE MulG[e].x]
YIsOdd == [e \in 0 .. N - 1 |-> e # Identity /\ FeIsOdd(MulG[e].y)]

Distinguished(e) == XOf[e] % DPMask = 0

\* A kangaroo's state <<point, a, w>>, and _canon applied to it.
Folded(e, x, y) ==
    IF NegMap /\ YIsOdd[e] THEN <<N - e, -x, -y>> ELSE <<e, x, y>>

JumpOf(e) == scalars[1 + (XOf[e] % Len(scalars))]

\* Mutant: the sign of the key's share is left alone.
Step_LosesSign(s) ==
    LET t == Folded((s[1] + JumpOf(s[1])) % N, s[2], s[3] + JumpOf(s[1]))
    IN <<t[1], s[2], t[3]>>
\* _step
Step(s) == Folded((s[1] + JumpOf(s[1])) % N, s[2], s[3] + JumpOf(s[1]))

\* The states of a walk up to its return to the point where it began.
UpToReturn(walk) ==
    LET back == {n \in 1 .. MaxCyc : walk[n][1] = walk[0][1]}
        end == IF back = {} THEN MaxCyc + 1 ELSE CHOOSE n \in back : \A m \in back : n <= m
    IN {walk[n] : n \in 0 .. end - 1}

\* The states that _escape goes through from s.
Traverse(s) ==
    LET walk[n \in 0 .. MaxCyc] == IF n = 0 THEN s ELSE Step(walk[n - 1])
    IN UpToReturn(walk)

LeastX(states) == CHOOSE t \in states : \A u \in states : XOf[t[1]] <= XOf[u[1]]
JumpByOne(s) == Folded((s[1] + 1) % N, s[2], s[3] + 1)

\* Mutant: the escape starts from where the walk happens to be.
Escape_Here(s) == JumpByOne(s)
\* _escape: the fixed jump of 1 from the cycle's point of least x.
Escape(s) == JumpByOne(LeastX(Traverse(s)))

-----------------------------------------------------------------------------
(* The call *)

Size == IF NegMap THEN Herd ELSE 1
Tame == 1 .. Size
Wild == Size + 1 .. 2 * Size
Kangaroos == Tame \cup Wild

Stride == IF width \div Herd < 1 THEN 1 ELSE width \div Herd
Offset(g) == Stride \div 2 + g * Stride
AtLeastOne(n) == IF n < 1 THEN 1 ELSE n

\* Q' = Q - lo*G, the wild start; the tame one is in the middle, or the tame
\* herd is spread over [0, W] and the wild one over the same offsets from Q'.
Shifted == (key + N - (Lo % N)) % N
Start(i) ==
    IF NegMap
    THEN IF i \in Tame THEN LET st == AtLeastOne(Offset(i - 1)) IN Folded(st % N, 0, st)
         ELSE LET off == Offset(i - Herd - 1) IN Folded((Shifted + off) % N, 1, off)
    ELSE IF i \in Tame THEN <<(width \div 2) % N, 0, width \div 2>> ELSE <<Shifted, 1, 0>>

Init ==
    /\ build \in Builds /\ width \in Widths /\ key \in Keys /\ scalars \in JumpTables
    /\ pos = [i \in Kangaroos |-> Start(i)[1]]
    /\ sgn = [i \in Kangaroos |-> Start(i)[2]]
    /\ dist = [i \in Kangaroos |-> Start(i)[3]]
    /\ wins = [i \in Kangaroos |-> <<>>]
    /\ tameDP = <<>> /\ wildDP = <<>>
    /\ steps = 0 /\ turn = 1
    /\ outcome = "running"

-----------------------------------------------------------------------------
(* One kangaroo's turn *)

State(i) == <<pos[i], sgn[i], dist[i]>>

\* The point was left within the window: the walk is in a cycle.
Repeats(i) ==
    NegMap /\ pos[i] \in DOMAIN wins[i] /\ steps - wins[i][pos[i]] <= CycWindow

Moved(i) == IF Repeats(i) THEN Escape(State(i)) ELSE Step(State(i))

Put(f, k, v) == [z \in DOMAIN f \cup {k} |-> IF z = k THEN v ELSE f[z]]

Window(i) ==
    IF ~NegMap THEN wins[i]
    ELSE Put(IF Repeats(i) THEN <<>> ELSE wins[i], pos[i], steps)

\* Mutant: a meeting is looked for when a tame kangaroo reports only.
Candidates_TameOnly(i, s) ==
    IF XOf[s[1]] \in DOMAIN wildDP /\ i \in Tame
    THEN {Lo + wildDP[XOf[s[1]]][1] * (s[3] - wildDP[XOf[s[1]]][2])} ELSE {}
\* The key that the other table's entry for this x gives: _solve_pair, whose
\* divisor is the wild kangaroo's a, negated.
Candidates(i, s) ==
    LET x == XOf[s[1]]
    IN IF i \in Tame
       THEN IF x \in DOMAIN wildDP THEN {Lo + wildDP[x][1] * (s[3] - wildDP[x][2])} ELSE {}
       ELSE IF x \in DOMAIN tameDP THEN {Lo + s[2] * (tameDP[x][2] - s[3])} ELSE {}

\* _verify
Verified(cand) == cand >= Lo /\ cand <= Lo + width /\ cand % N # 0 /\ cand % N = key

Solves(i, s) == Distinguished(s[1]) /\ \E c \in Candidates(i, s) : Verified(c)

\* The plain tables keep the last report for an x, the others the first.
Report(table, s) ==
    IF NegMap /\ XOf[s[1]] \in DOMAIN table THEN table
    ELSE Put(table, XOf[s[1]], <<s[2], s[3]>>)

AdvanceTurn ==
    /\ turn' = (turn % (2 * Size)) + 1
    /\ steps' = IF turn = 2 * Size THEN steps + 1 ELSE steps

MoveTo(i, s) ==
    /\ pos' = [pos EXCEPT ![i] = s[1]]
    /\ sgn' = [sgn EXCEPT ![i] = s[2]]
    /\ dist' = [dist EXCEPT ![i] = s[3]]
    /\ wins' = [wins EXCEPT ![i] = Window(i)]

Turn(i) == outcome = "running" /\ steps < MaxSteps /\ turn = i

\* _xy has no coordinates for the identity: at the start of a turn for a
\* kangaroo that began there, at the end of one for a kangaroo that got there.
Crash(i) ==
    /\ Turn(i) /\ NegMap
    /\ \/ pos[i] = Identity /\ UNCHANGED herds
       \/ pos[i] # Identity /\ Moved(i)[1] = Identity /\ MoveTo(i, Moved(i))
    /\ outcome' = "crashed"
    /\ UNCHANGED <<call, tameDP, wildDP, steps, turn>>

Move(i) ==
    /\ Turn(i)
    /\ \E s \in {Moved(i)} : \E solved \in {Solves(i, s)} :
          /\ NegMap => pos[i] # Identity /\ s[1] # Identity
          /\ MoveTo(i, s)
          /\ outcome' = IF solved THEN "solved" ELSE "running"
          /\ tameDP' = IF i \in Tame /\ Distinguished(s[1]) /\ ~solved
                       THEN Report(tameDP, s) ELSE tameDP
          /\ wildDP' = IF i \in Wild /\ Distinguished(s[1]) /\ ~solved
                       THEN Report(wildDP, s) ELSE wildDP
    /\ AdvanceTurn
    /\ UNCHANGED call

GiveUp ==
    /\ outcome = "running" /\ steps = MaxSteps
    /\ outcome' = "gaveUp"
    /\ UNCHANGED <<call, herds, tameDP, wildDP, steps, turn>>

Next == (\E i \in Kangaroos : Move(i) \/ Crash(i)) \/ GiveUp

Spec == Init /\ [][Next]_vars

-----------------------------------------------------------------------------
(* Properties *)

\* The unknown d' = d - lo, as an integer, and as what a search outside of the
\* interval has for it.
InRange == key - Lo \in 0 .. width
DPrime == IF InRange THEN key - Lo ELSE Shifted

\* kangaroo_negmap_ref.py, "THE BOOKKEEPING (where correctness lives)": through
\* every jump, fold and escape a kangaroo's point is (a * d' + w) * G, with a
\* tame kangaroo's a at 0 and a wild one's at 1 or -1, and so is the point that
\* each table entry stands for.
Bookkeeping ==
    /\ \A i \in Kangaroos :
          /\ pos[i] = (sgn[i] * DPrime + dist[i]) % N
          /\ i \in Tame => sgn[i] = 0
          /\ i \in Wild => sgn[i] \in {1, -1}
    /\ \A x \in DOMAIN tameDP : x = XOf[tameDP[x][2] % N]
    /\ \A x \in DOMAIN wildDP : x = XOf[(wildDP[x][1] * DPrime + wildDP[x][2]) % N]

\* No meeting is passed over: while the search for a key of the interval goes
\* on, no x has been reported by both herds, whatever came first.  Without the
\* folding an x is shared by P and -P too, and only those may have been.
NoMeetingMissed ==
    outcome = "running" /\ InRange =>
        \A x \in DOMAIN tameDP \cap DOMAIN wildDP :
            /\ ~NegMap
            /\ tameDP[x][2] % N # (DPrime + wildDP[x][2]) % N

\* The window never takes a chance repeat for a cycle, and what _escape does
\* depends on the cycle alone ("so merged kangaroos escape identically"): any
\* other walk caught in it, wherever it is caught, comes out at the same point.
EscapesTogether ==
    [][\A i \in Kangaroos :
          turn = i /\ Repeats(i) /\ pos' # pos =>
              /\ pos[i] \in {Step(t)[1] : t \in Traverse(State(i))}
              /\ \A t \in Traverse(State(i)) : pos'[i] = Escape(t)[1]]_vars

=============================================================================
