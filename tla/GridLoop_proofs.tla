---------------------------- MODULE GridLoop_proofs ----------------------------
(* The loop that cuts the keyspace into blocks, for every keyspace and size. *)
EXTENDS GridLoop, Numbers_proofs

\* Two different blocks of the grid share no key.
LEMMA GridDisjoint ==
    ASSUME NEW first \in Int, NEW end \in Int, NEW step \in Nat \ {0},
           NEW j \in Nat, NEW k \in Nat, j # k
    PROVE  ~Overlap(LoOf(first, step, j), HiOf(first, end, step, j),
                    LoOf(first, step, k), HiOf(first, end, step, k))
<1>1. /\ j * step \in Int /\ (j + 1) * step \in Int
      /\ k * step \in Int /\ (k + 1) * step \in Int
  OBVIOUS
<1> QED BY <1>1, StridesApart DEF LoOf, HiOf, Overlap

\* Where the loop is when it has built idx blocks, and what it has built.
IInv ==
    /\ LoopTypeOK
    /\ Valid(lo, hi, size)
    /\ cur = (IF lo + idx * size < hi THEN lo + idx * size ELSE hi)
    /\ OnGrid
    /\ \A x \in lo .. (cur - 1) :
           \E k \in DOMAIN blocks : blocks[k].lo <= x /\ x < blocks[k].hi

\* A block index is at most the number of keys below the block.
LEMMA IndexBelowKeys ==
    ASSUME NEW k \in Nat, NEW size1 \in Nat \ {0}
    PROVE  k <= k * size1
  <1>1. k * 1 <= k * size1
    <2>1. k * (size1 - 1) >= 0
      <3> DEFINE d == size1 - 1
      <3>1. d \in Nat
        OBVIOUS
      <3> HIDE DEF d
      <3>2. k * d >= 0
        BY <3>1
      <3>3. QED
        BY <3>2 DEF d
    <2>2. k * size1 = k + k * (size1 - 1)
      OBVIOUS
    <2>3. QED
      BY <2>1, <2>2
  <1>2. QED
    BY <1>1

LEMMA InitIInv == LoopInit => IInv
  <1> SUFFICES ASSUME LoopInit PROVE IInv
    OBVIOUS
  <1>1. lo \in Int /\ size \in Int /\ hi \in Int
    BY GridLoopAssumption DEF LoopInit
  <1>2. DOMAIN blocks = {} /\ 0 .. (idx - 1) = {} /\ idx = 0
    BY DEF LoopInit
  <1>3. LoopTypeOK
    BY <1>1, <1>2 DEF LoopInit, LoopTypeOK
  <1>4. 0 * size = 0 /\ cur = lo /\ lo < hi
    BY <1>1 DEF LoopInit, Valid
  <1>5. OnGrid
    BY <1>2 DEF OnGrid
  <1>6. QED
    BY <1>1, <1>2, <1>3, <1>4, <1>5 DEF IInv, LoopInit

LEMMA AppendBlockIInv == IInv /\ AppendBlock => IInv'
  <1> SUFFICES ASSUME IInv, AppendBlock PROVE IInv'
    OBVIOUS
  <1> USE DEF IInv, LoopTypeOK
  <1>1. size \in Nat \ {0} /\ lo < hi /\ idx + 1 \in Nat
    BY DEF Valid
  <1>2. idx * size \in Int /\ (idx + 1) * size = idx * size + size
    BY <1>1
  <1>3. cur = lo + idx * size /\ lo + idx * size < hi
    BY <1>2 DEF AppendBlock
  <1>4. Top \in Int /\ cur < Top /\ Top <= hi
    BY <1>1, <1>3 DEF Top
  <1>5. /\ DOMAIN blocks = 0 .. (idx - 1) /\ DOMAIN blocks' = 0 .. idx
        /\ \A k \in 0 .. (idx - 1) : blocks'[k] = blocks[k]
        /\ blocks'[idx] = [lo |-> cur, hi |-> Top]
    BY DEF AppendBlock
  <1>6. LoopTypeOK'
    <2>1. blocks' \in [0 .. idx -> [lo : Int, hi : Int]]
      BY <1>4 DEF AppendBlock
    <2>2. QED
      BY <1>1, <1>4, <2>1 DEF AppendBlock
  <1>7. cur' = (IF lo + (idx + 1) * size < hi THEN lo + (idx + 1) * size ELSE hi)
    BY <1>2, <1>3 DEF AppendBlock, Top
  <1>8. OnGrid'
    <2>1. idx \in BlocksOf(lo, hi, size)
      <3>1. idx <= idx * size
        BY <1>1, IndexBelowKeys
      <3>2. idx <= hi - lo
        <4> DEFINE p == idx * size
        <4>1. p \in Int /\ idx <= p /\ lo + p < hi
          BY <1>2, <1>3, <3>1
        <4> HIDE DEF p
        <4>2. QED
          BY <4>1
      <3>3. idx \in 0 .. (hi - lo)
        BY <3>2
      <3>4. QED
        BY <1>3, <3>3 DEF BlocksOf
    <2>2. blocks'[idx].lo = LoOf(lo, size, idx) /\ blocks'[idx].hi = HiOf(lo, hi, size, idx)
      BY <1>2, <1>3, <1>5 DEF LoOf, HiOf, Top
    <2>3. ASSUME NEW k \in 0 .. (idx - 1)
          PROVE  /\ k \in BlocksOf(lo, hi, size)
                 /\ blocks'[k].lo = LoOf(lo, size, k)
                 /\ blocks'[k].hi = HiOf(lo, hi, size, k)
      BY <1>5 DEF OnGrid
    <2>4. \A k \in 0 .. idx : k = idx \/ k \in 0 .. (idx - 1)
      OBVIOUS
    <2>5. lo' = lo /\ hi' = hi /\ size' = size
      BY DEF AppendBlock
    <2>6. QED
      BY <1>5, <2>1, <2>2, <2>3, <2>4, <2>5 DEF OnGrid
  <1>9. ASSUME NEW x \in lo .. (cur' - 1)
        PROVE  \E k \in 0 .. idx : blocks'[k].lo <= x /\ x < blocks'[k].hi
    <2>1. cur' = Top
      BY DEF AppendBlock
    <2>2. CASE x < cur
      <3>1. x \in lo .. (cur - 1)
        BY <2>2
      <3>2. PICK k \in 0 .. (idx - 1) : blocks[k].lo <= x /\ x < blocks[k].hi
        BY <3>1, <1>5
      <3>3. QED
        BY <3>2, <1>5
    <2>3. CASE x >= cur
      <3>1. x < Top /\ idx \in 0 .. idx
        BY <2>1, <1>4
      <3>2. blocks'[idx].lo <= x /\ x < blocks'[idx].hi
        BY <2>3, <3>1, <1>5
      <3>3. QED
        BY <3>1, <3>2
    <2>4. QED
      BY <2>2, <2>3
  <1>10. QED
    BY <1>5, <1>6, <1>7, <1>8, <1>9 DEF AppendBlock, Valid

\* The loop's position, the blocks built so far and the keys they cover.
THEOREM GridInvariant == LoopSpec => []IInv
  <1>1. IInv /\ [LoopNext]_loopVars => IInv'
    <2>1. IInv /\ UNCHANGED loopVars => IInv'
      BY DEF loopVars, IInv, LoopTypeOK, OnGrid, Valid
    <2>2. QED
      BY <2>1, AppendBlockIInv DEF LoopNext
  <1>2. QED
    BY <1>1, InitIInv, PTL DEF LoopSpec

\* The blocks are the fixed grid of the closed form, and share no key.
THEOREM GridIsFixedAndDisjoint == LoopSpec => [](OnGrid /\ Disjoint)
  <1>1. IInv => OnGrid /\ Disjoint
    <2> SUFFICES ASSUME IInv, NEW j \in DOMAIN blocks, NEW k \in DOMAIN blocks, j # k
                 PROVE  ~Overlap(blocks[j].lo, blocks[j].hi, blocks[k].lo, blocks[k].hi)
      BY DEF IInv, Disjoint
    <2>1. j \in Nat /\ k \in Nat /\ lo \in Int /\ hi \in Int /\ size \in Nat \ {0}
      BY DEF IInv, LoopTypeOK, Valid
    <2>2. QED
      BY <2>1, GridDisjoint DEF IInv, OnGrid
  <1>2. QED
    BY <1>1, GridInvariant, PTL

\* When the loop ends the blocks cover [lo, hi) exactly, and none is missing.
THEOREM GridCovers == LoopSpec => []CoversWhenDone
  <1>1. IInv => CoversWhenDone
    <2> SUFFICES ASSUME IInv, cur >= hi
                 PROVE  /\ DOMAIN blocks = BlocksOf(lo, hi, size)
                        /\ \A x \in lo .. (hi - 1) :
                               \E k \in DOMAIN blocks : blocks[k].lo <= x /\ x < blocks[k].hi
                        /\ \A k \in DOMAIN blocks : lo <= blocks[k].lo /\ blocks[k].hi <= hi
      BY DEF CoversWhenDone
    <2> USE DEF IInv, LoopTypeOK
    <2>1. size \in Nat \ {0} /\ idx * size \in Int /\ cur = hi /\ lo + idx * size >= hi
      BY DEF Valid
    <2>2. ASSUME NEW k \in BlocksOf(lo, hi, size) PROVE k \in 0 .. (idx - 1)
      <3>1. k \in Nat /\ lo + k * size < hi /\ k * size \in Int
        BY <2>1 DEF BlocksOf
      <3>2. ~(idx <= k)
        <4> DEFINE p == idx * size
                   q == k * size
        <4>1. idx <= k => p <= q
          BY <3>1, <2>1, StepMonotone
        <4>2. p \in Int /\ q \in Int /\ lo + p >= hi /\ lo + q < hi
          BY <3>1, <2>1
        <4> HIDE DEF p, q
        <4>3. QED
          BY <4>1, <4>2
      <3>3. QED
        BY <3>1, <3>2
    <2>3. DOMAIN blocks = BlocksOf(lo, hi, size)
      BY <2>2 DEF OnGrid
    <2>4. ASSUME NEW k \in DOMAIN blocks PROVE lo <= blocks[k].lo /\ blocks[k].hi <= hi
      <3>1. k \in Nat /\ blocks[k].lo = LoOf(lo, size, k) /\ blocks[k].hi = HiOf(lo, hi, size, k)
        BY DEF OnGrid
      <3>2. k * size >= 0 /\ (k + 1) * size \in Int
        BY <3>1, <2>1, IndexBelowKeys
      <3>3. QED
        BY <3>1, <3>2, <2>1 DEF LoOf, HiOf
    <2>5. QED
      BY <2>1, <2>3, <2>4
  <1>2. QED
    BY <1>1, GridInvariant, PTL

=============================================================================
