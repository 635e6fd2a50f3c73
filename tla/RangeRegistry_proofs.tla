------------------------- MODULE RangeRegistry_proofs -------------------------
(***************************************************************************)
(* Proofs about RangeRegistry, for every keyspace, block size, TTL, set of *)
(* workers and number of leases.                                           *)
(***************************************************************************)
EXTENDS RangeRegistry, Numbers_proofs

\* Two different blocks of the grid share no key.
LEMMA GridDisjoint ==
    ASSUME NEW first \in Int, NEW end \in Int, NEW step \in Nat \ {0},
           NEW j \in Nat, NEW k \in Nat, j # k
    PROVE  ~Overlap(LoOf(first, step, j), HiOf(first, end, step, j),
                    LoOf(first, step, k), HiOf(first, end, step, k))
<1>1. /\ j * step \in Int /\ (j + 1) * step \in Int
      /\ k * step \in Int /\ (k + 1) * step \in Int
  OBVIOUS
<1> QED BY <1>1, StridesApart DEF LoOf, HiOf, Overlap

\* The invariant as a predicate of any five values, so that it can be said of
\* the tables as they are after a reclaim, in the middle of an action.
Consistent(st, of, tab, ls, n) ==
    /\ n \in Nat \ {0}
    /\ st \in [Blocks -> LeaseState]
    /\ of \in [Blocks -> {NoLease} \cup 1 .. (n - 1)]
    /\ tab \subseteq 1 .. (n - 1)
    /\ ls \in [1 .. (n - 1) -> Lease]
    /\ \A i \in tab : st[ls[i].block] = "leased" /\ of[ls[i].block] = i
    /\ \A b \in Blocks : st[b] = "leased" => of[b] \in tab
    /\ \A b \in Blocks : /\ st[b] = "free" <=> of[b] = NoLease
                         /\ of[b] # NoLease => ls[of[b]].block = b

LEMMA ConsistentIsIInv == IInv <=> Consistent(state, leaseOf, leasesById, lease, nextId)
  BY DEF IInv, TypeOK, TableMatchesBlocks, LeaseFitsBlock, Consistent, Issued

LEMMA ConsistentIsIInvPrime ==
    IInv' <=> Consistent(state', leaseOf', leasesById', lease', nextId')
  BY DEF IInv, TypeOK, TableMatchesBlocks, LeaseFitsBlock, Consistent, Issued

LEMMA BlocksAreInts == Blocks \subseteq Nat
  BY RegistryAssumption DEF Blocks, BlocksOf

\* A new deadline changes nothing else in a lease.
LEMMA SetLeft ==
    ASSUME NEW r \in Lease, NEW t \in 0 .. LeaseTTL
    PROVE  LET r2 == [r EXCEPT !.left = t]
           IN  r2 \in Lease /\ r2.block = r.block /\ r2.worker = r.worker /\ r2.left = t
  BY DEF Lease

-----------------------------------------------------------------------------
(* The reclaim *)

\* A reclaim leaves consistent tables consistent.
LEMMA ReclaimConsistent ==
    ASSUME IInv
    PROVE  Consistent(ReclaimedState, ReclaimedLeaseOf, ReclaimedTable, lease, nextId)
  <1> USE DEF IInv, TypeOK, TableMatchesBlocks, LeaseFitsBlock, Issued
  <1>1. /\ ReclaimedState \in [Blocks -> LeaseState]
        /\ ReclaimedLeaseOf \in [Blocks -> {NoLease} \cup 1 .. (nextId - 1)]
        /\ ReclaimedTable \subseteq 1 .. (nextId - 1)
    BY DEF ReclaimedState, ReclaimedLeaseOf, ReclaimedTable, LeaseState
  <1>2. ASSUME NEW i \in ReclaimedTable
        PROVE  ReclaimedState[lease[i].block] = "leased" /\ ReclaimedLeaseOf[lease[i].block] = i
    <2>1. i \in leasesById /\ lease[i].block \in Blocks /\ leaseOf[lease[i].block] = i
      BY DEF ReclaimedTable, Lease
    <2>2. lease[i].block \notin ExpiredBlocks
      BY <2>1 DEF ReclaimedTable
    <2>3. QED
      BY <2>1, <2>2 DEF ReclaimedState, ReclaimedLeaseOf
  <1>3. ASSUME NEW b \in Blocks, ReclaimedState[b] = "leased"
        PROVE  ReclaimedLeaseOf[b] \in ReclaimedTable
    <2>1. b \notin ExpiredBlocks /\ state[b] = "leased" /\ ReclaimedLeaseOf[b] = leaseOf[b]
      BY <1>3 DEF ReclaimedState, ReclaimedLeaseOf
    <2>2. leaseOf[b] \in leasesById
      BY <2>1
    <2>3. \A c \in ExpiredBlocks : leaseOf[c] # leaseOf[b]
      BY <2>1, <2>2 DEF ExpiredBlocks
    <2>4. QED
      BY <2>1, <2>2, <2>3 DEF ReclaimedTable
  <1>4. ASSUME NEW b \in Blocks
        PROVE  /\ ReclaimedState[b] = "free" <=> ReclaimedLeaseOf[b] = NoLease
               /\ ReclaimedLeaseOf[b] # NoLease => lease[ReclaimedLeaseOf[b]].block = b
    BY DEF ReclaimedState, ReclaimedLeaseOf
  <1>5. QED
    BY <1>1, <1>2, <1>3, <1>4 DEF Consistent

\* What is left in the table is exactly the live leases.
LEMMA ReclaimedTableIsLive ==
    ASSUME IInv, NEW i \in Issued
    PROVE  i \in ReclaimedTable <=> Live(i)
  <1> USE DEF IInv, TypeOK, TableMatchesBlocks, LeaseFitsBlock
  <1>1. lease[i].left \in Nat /\ lease[i].block \in Blocks /\ i # NoLease
    BY RegistryAssumption DEF Lease, Issued, NoLease
  <1>2. ASSUME i \in ReclaimedTable PROVE Live(i)
    <2>1. i \in leasesById /\ lease[i].block \notin ExpiredBlocks
      BY <1>2 DEF ReclaimedTable
    <2>2. QED
      BY <1>1, <2>1 DEF ExpiredBlocks, Live
  <1>3. ASSUME Live(i) PROVE i \in ReclaimedTable
    BY <1>3 DEF Live, ReclaimedTable, ExpiredBlocks
  <1>4. QED
    BY <1>2, <1>3

-----------------------------------------------------------------------------
(* The inductive invariant *)

LEMMA InitIInv == Init => IInv
  BY RegistryAssumption
  DEF Init, IInv, TypeOK, TableMatchesBlocks, LeaseFitsBlock, Issued, LeaseState, Lease, NoLease

LEMMA OnlyReclaimIInv == IInv /\ OnlyReclaim => IInv'
  BY ReclaimConsistent, ConsistentIsIInvPrime DEF OnlyReclaim, ReclaimTables

LEMMA LeaseBlockIInv ==
    ASSUME IInv, NEW b \in Blocks, NEW w \in Workers, LeaseBlock(b, w)
    PROVE  IInv'
  <1> DEFINE st == ReclaimedState
             of == ReclaimedLeaseOf
             tab == ReclaimedTable
  <1>1. Consistent(st, of, tab, lease, nextId)
    BY ReclaimConsistent
  <1>2. NewLease(b, w) \in Lease
    BY RegistryAssumption DEF NewLease, Lease
  <1>3. st[b] = "free" /\ of[b] = NoLease /\ nextId \in Nat \ {0} /\ nextId # NoLease
    BY <1>1 DEF LeaseBlock, FirstFree, Consistent, NoLease
  <1> HIDE DEF st, of, tab
  <1>4. Consistent([st EXCEPT ![b] = "leased"], [of EXCEPT ![b] = nextId],
                   tab \cup {nextId},
                   [i \in 1 .. nextId |-> IF i = nextId THEN NewLease(b, w) ELSE lease[i]],
                   nextId + 1)
    <2> DEFINE ls == [i \in 1 .. nextId |-> IF i = nextId THEN NewLease(b, w) ELSE lease[i]]
               st2 == [st EXCEPT ![b] = "leased"]
               of2 == [of EXCEPT ![b] = nextId]
    <2>1. /\ st2 \in [Blocks -> LeaseState]
          /\ of2 \in [Blocks -> {NoLease} \cup 1 .. nextId]
          /\ tab \cup {nextId} \subseteq 1 .. nextId
          /\ ls \in [1 .. nextId -> Lease]
      BY <1>1, <1>2, <1>3 DEF Consistent, LeaseState
    <2>2. /\ \A i \in 1 .. (nextId - 1) : ls[i] = lease[i]
          /\ ls[nextId] = NewLease(b, w)
          /\ ls[nextId].block = b
      BY <1>3 DEF NewLease
    <2>3. /\ st2[b] = "leased" /\ of2[b] = nextId
          /\ \A c \in Blocks \ {b} : st2[c] = st[c] /\ of2[c] = of[c]
      BY <1>1 DEF Consistent
    <2> HIDE DEF ls, st2, of2
    <2>4. ASSUME NEW i \in tab \cup {nextId}
          PROVE  st2[ls[i].block] = "leased" /\ of2[ls[i].block] = i
      <3>1. CASE i = nextId
        BY <3>1, <2>2, <2>3
      <3>2. CASE i \in tab
        <4>1. ls[i] = lease[i] /\ lease[i].block \in Blocks
          BY <3>2, <2>2, <1>1 DEF Consistent, Lease
        <4>2. st[lease[i].block] = "leased" /\ of[lease[i].block] = i
          BY <3>2, <1>1 DEF Consistent
        <4>3. lease[i].block # b
          BY <4>2, <1>3
        <4>4. QED
          BY <4>1, <4>2, <4>3, <2>3
      <3>3. QED
        BY <3>1, <3>2
    <2>5. ASSUME NEW c \in Blocks, st2[c] = "leased"
          PROVE  of2[c] \in tab \cup {nextId}
      BY <2>3, <2>5, <1>1 DEF Consistent
    <2>6. ASSUME NEW c \in Blocks
          PROVE  /\ st2[c] = "free" <=> of2[c] = NoLease
                 /\ of2[c] # NoLease => ls[of2[c]].block = c
      <3>1. CASE c = b
        BY <3>1, <2>2, <2>3, <1>3
      <3>2. CASE c # b
        BY <3>2, <2>2, <2>3, <1>1 DEF Consistent
      <3>3. QED
        BY <3>1, <3>2
    <2>7. nextId + 1 \in Nat \ {0} /\ (nextId + 1) - 1 = nextId
      BY <1>3
    <2>8. Consistent(st2, of2, tab \cup {nextId}, ls, nextId + 1)
      BY <2>1, <2>4, <2>5, <2>6, <2>7 DEF Consistent
    <2>9. QED
      BY <2>8 DEF ls, st2, of2
  <1>5. QED
    BY <1>4, ConsistentIsIInvPrime DEF LeaseBlock, st, of, tab

LEMMA RearmIInv ==
    ASSUME IInv, NEW i, NEW w \in Workers, Rearm(i, w)
    PROVE  IInv'
  <1>1. Consistent(ReclaimedState, ReclaimedLeaseOf, ReclaimedTable, lease, nextId)
    BY ReclaimConsistent
  <1>2. i \in 1 .. (nextId - 1)
    BY <1>1 DEF Rearm, Known, Consistent
  <1>3. /\ lease' \in [1 .. (nextId - 1) -> Lease]
        /\ \A j \in 1 .. (nextId - 1) : lease'[j].block = lease[j].block
    <2>1. lease \in [1 .. (nextId - 1) -> Lease]
      BY <1>1 DEF Consistent
    <2>2. lease' = [lease EXCEPT ![i] = [lease[i] EXCEPT !.left = LeaseTTL]]
      BY DEF Rearm
    <2>3. /\ [lease[i] EXCEPT !.left = LeaseTTL] \in Lease
          /\ [lease[i] EXCEPT !.left = LeaseTTL].block = lease[i].block
      BY <1>2, <2>1, SetLeft, RegistryAssumption
    <2>4. QED
      BY <1>2, <2>1, <2>2, <2>3
  <1>4. Consistent(ReclaimedState, ReclaimedLeaseOf, ReclaimedTable, lease', nextId)
    BY <1>1, <1>3 DEF Consistent
  <1>5. QED
    BY <1>4, ConsistentIsIInvPrime DEF Rearm, ReclaimTables

LEMMA MarkSweptIInv ==
    ASSUME IInv, NEW i, NEW w \in Workers, MarkSwept(i, w)
    PROVE  IInv'
  <1> DEFINE st == ReclaimedState
             of == ReclaimedLeaseOf
             tab == ReclaimedTable
             blk == lease[i].block
  <1>1. Consistent(st, of, tab, lease, nextId)
    BY ReclaimConsistent
  <1>2. i \in tab /\ blk \in Blocks /\ of[blk] = i /\ st[blk] = "leased"
    BY <1>1 DEF MarkSwept, Known, Consistent, Lease
  <1> HIDE DEF st, of, tab, blk
  <1>3. Consistent([st EXCEPT ![blk] = "swept"], of, tab \ {i}, lease, nextId)
    <2> DEFINE st2 == [st EXCEPT ![blk] = "swept"]
    <2>1. st2 \in [Blocks -> LeaseState]
      BY <1>1 DEF Consistent, LeaseState
    <2>2. st2[blk] = "swept" /\ \A c \in Blocks \ {blk} : st2[c] = st[c]
      BY <1>1, <1>2 DEF Consistent
    <2> HIDE DEF st2
    <2>3. ASSUME NEW j \in tab \ {i}
          PROVE  st2[lease[j].block] = "leased" /\ of[lease[j].block] = j
      BY <1>1, <1>2, <2>2 DEF Consistent, Lease
    <2>4. ASSUME NEW c \in Blocks, st2[c] = "leased" PROVE of[c] \in tab \ {i}
      <3>1. c # blk /\ st[c] = "leased"
        BY <2>2, <2>4
      <3>2. of[c] \in tab /\ lease[of[c]].block = c
        BY <3>1, <1>1 DEF Consistent, NoLease
      <3>3. QED
        BY <3>1, <3>2 DEF blk
    <2>5. ASSUME NEW c \in Blocks
          PROVE  /\ st2[c] = "free" <=> of[c] = NoLease
                 /\ of[c] # NoLease => lease[of[c]].block = c
      BY <1>1, <1>2, <2>2 DEF Consistent
    <2>6. QED
      BY <1>1, <2>1, <2>3, <2>4, <2>5 DEF Consistent, st2
  <1>4. QED
    BY <1>3, ConsistentIsIInvPrime DEF MarkSwept, st, of, tab, blk

LEMMA ReleaseWorkerIInv ==
    ASSUME IInv, NEW w \in Workers, ReleaseWorker(w)
    PROVE  IInv'
  <1> USE DEF IInv, TypeOK, TableMatchesBlocks, LeaseFitsBlock, Issued
  <1>1. /\ state' \in [Blocks -> LeaseState]
        /\ leaseOf' \in [Blocks -> {NoLease} \cup 1 .. (nextId - 1)]
        /\ leasesById' \subseteq 1 .. (nextId - 1)
        /\ lease' = lease /\ nextId' = nextId
    BY DEF ReleaseWorker, LeaseState
  <1>2. ASSUME NEW i \in leasesById'
        PROVE  state'[lease[i].block] = "leased" /\ leaseOf'[lease[i].block] = i
    <2>1. i \in leasesById /\ lease[i].block \in Blocks /\ leaseOf[lease[i].block] = i
      BY DEF ReleaseWorker, Lease
    <2>2. lease[i].block \notin HeldBy(w)
      BY <2>1 DEF ReleaseWorker
    <2>3. QED
      BY <2>1, <2>2 DEF ReleaseWorker
  <1>3. ASSUME NEW b \in Blocks, state'[b] = "leased"
        PROVE  leaseOf'[b] \in leasesById'
    <2>1. b \notin HeldBy(w) /\ state[b] = "leased" /\ leaseOf'[b] = leaseOf[b]
      BY <1>3 DEF ReleaseWorker
    <2>2. \A c \in HeldBy(w) : leaseOf[c] # leaseOf[b]
      BY <2>1 DEF HeldBy
    <2>3. QED
      BY <2>1, <2>2 DEF ReleaseWorker
  <1>4. ASSUME NEW b \in Blocks
        PROVE  /\ state'[b] = "free" <=> leaseOf'[b] = NoLease
               /\ leaseOf'[b] # NoLease => lease[leaseOf'[b]].block = b
    BY DEF ReleaseWorker
  <1>5. QED
    BY <1>1, <1>2, <1>3, <1>4

LEMMA TickIInv == IInv /\ Tick => IInv'
  <1> SUFFICES ASSUME IInv, Tick PROVE IInv'
    OBVIOUS
  <1> USE DEF IInv, TypeOK, Issued
  <1>1. /\ lease' \in [1 .. (nextId - 1) -> Lease]
        /\ \A i \in 1 .. (nextId - 1) : lease'[i].block = lease[i].block
    <2>1. ASSUME NEW i \in 1 .. (nextId - 1)
          PROVE  /\ Ticked(i) \in Lease
                 /\ Ticked(i).block = lease[i].block
      <3>1. lease[i] \in Lease
        OBVIOUS
      <3>2. (IF lease[i].left > 0 THEN lease[i].left - 1 ELSE 0) \in 0 .. LeaseTTL
        BY <3>1, RegistryAssumption DEF Lease
      <3>3. QED
        BY <3>1, <3>2, SetLeft DEF Ticked
    <2>2. lease' = [i \in 1 .. (nextId - 1) |-> Ticked(i)]
      BY DEF Tick
    <2>3. QED
      BY <2>1, <2>2
  <1>2. TypeOK'
    BY <1>1 DEF Tick
  <1>3. TableMatchesBlocks' /\ LeaseFitsBlock'
    BY <1>1 DEF Tick, TableMatchesBlocks, LeaseFitsBlock, NoLease
  <1>4. QED
    BY <1>2, <1>3

LEMMA NextIInv == IInv /\ [Next]_vars => IInv'
  <1> SUFFICES ASSUME IInv, [Next]_vars PROVE IInv'
    OBVIOUS
  <1>1. ASSUME NEW w \in Workers, Call(w) PROVE IInv'
    <2>1. ASSUME NEW b \in Blocks, LeaseBlock(b, w) PROVE IInv'
      BY <2>1, LeaseBlockIInv
    <2>2. CASE LeaseNone
      BY <2>2, OnlyReclaimIInv DEF LeaseNone
    <2>3. CASE ReleaseWorker(w)
      BY <2>3, ReleaseWorkerIInv
    <2>4. ASSUME NEW i \in CallerIds,
                 AckLease(i, w) \/ RenewLease(i, w) \/ MarkSwept(i, w) \/ Stale(i, w)
          PROVE  IInv'
      BY <2>4, RearmIInv, MarkSweptIInv, OnlyReclaimIInv DEF AckLease, RenewLease, Stale
    <2>5. QED
      BY <1>1, <2>1, <2>2, <2>3, <2>4 DEF Call
  <1>2. CASE ReclaimExpired
    BY <1>2, OnlyReclaimIInv DEF ReclaimExpired
  <1>3. CASE Tick
    BY <1>3, TickIInv
  <1>4. CASE UNCHANGED vars
    BY <1>4 DEF vars, IInv, TypeOK, TableMatchesBlocks, LeaseFitsBlock, Issued
  <1>5. QED
    BY <1>1, <1>2, <1>3, <1>4 DEF Next

\* The registry's two records of what is leased, the blocks and the table, are
\* well typed and agree in every reachable state.
THEOREM RegistryInvariant == Spec => []IInv
  BY InitIInv, NextIInv, PTL DEF Spec

THEOREM TypeCorrect == Spec => []TypeOK
  BY RegistryInvariant, PTL DEF IInv

\* The id table and the blocks tell one story after every sequence of calls:
\* an id is in the table if and only if the LEASED block of its lease refers
\* to it.
THEOREM TablesAgree == Spec => []TableMatchesBlocks
  BY RegistryInvariant, PTL DEF IInv

-----------------------------------------------------------------------------
(* Safety *)

\* No key is in two leases of the table: the disjointness that registry.py's
\* docstring promises, from the table and the blocks agreeing and from the
\* grid.
THEOREM LeasesAreDisjoint == Spec => []DisjointLeases
  <1>1. IInv => DisjointLeases
    <2> SUFFICES ASSUME IInv,
                        NEW i \in leasesById, NEW j \in leasesById, i # j
                 PROVE  ~Overlap(BlockLo(lease[i].block), BlockHi(lease[i].block),
                                 BlockLo(lease[j].block), BlockHi(lease[j].block))
      BY DEF DisjointLeases
    <2>1. /\ lease[i].block \in Blocks /\ lease[j].block \in Blocks
          /\ leaseOf[lease[i].block] = i /\ leaseOf[lease[j].block] = j
      BY DEF IInv, TypeOK, TableMatchesBlocks, Lease
    <2>2. lease[i].block # lease[j].block
      BY <2>1
    <2>3. QED
      BY <2>1, <2>2, BlocksAreInts, GridDisjoint, RegistryAssumption DEF BlockLo, BlockHi
  <1>2. QED
    BY <1>1, RegistryInvariant, PTL

\* mark_swept's guard against a block that holds another lease is dead code.
THEOREM SweptNeverMismatches == Spec => []NoSweptMismatch
  <1>1. IInv => NoSweptMismatch
    BY ReclaimConsistent DEF NoSweptMismatch, SweptMismatch, Known, Consistent
  <1>2. QED
    BY <1>1, RegistryInvariant, PTL

-----------------------------------------------------------------------------
(* What a step does to the live leases *)

\* The effect of any step on the view that Live and LeaseFitsBlock give: the
\* case analysis every action property and the refinement start from.
LEMMA OnlyReclaimLive ==
    ASSUME IInv, OnlyReclaim
    PROVE  \A i \in Issued : Live(i)' <=> Live(i)
  BY ReclaimedTableIsLive DEF OnlyReclaim, ReclaimTables, Live, IInv, TypeOK

LEMMA NextNoResurrection ==
    ASSUME IInv, [Next]_vars, NEW i \in Issued, ~Live(i)
    PROVE  ~Live(i)'
  <1> USE DEF IInv, TypeOK
  <1>1. i \notin ReclaimedTable
    BY ReclaimedTableIsLive
  <1>2. ASSUME OnlyReclaim PROVE ~Live(i)'
    BY <1>2, OnlyReclaimLive
  <1>3. ASSUME NEW b \in Blocks, NEW w \in Workers, LeaseBlock(b, w) PROVE ~Live(i)'
    <2>1. leasesById' = ReclaimedTable \cup {nextId} /\ i # nextId
      BY <1>3 DEF LeaseBlock, Issued
    <2>2. QED
      BY <1>1, <2>1 DEF Live
  <1>4. ASSUME NEW w \in Workers, ReleaseWorker(w) PROVE ~Live(i)'
    BY <1>4 DEF ReleaseWorker, Live
  <1>5. ASSUME NEW k, NEW w \in Workers, Rearm(k, w) \/ MarkSwept(k, w) PROVE ~Live(i)'
    BY <1>1, <1>5 DEF Rearm, MarkSwept, ReclaimTables, Live
  <1>6. ASSUME Tick PROVE ~Live(i)'
    <2>1. lease'[i] = Ticked(i) /\ lease[i] \in Lease /\ leasesById' = leasesById
      BY <1>6 DEF Tick
    <2>2. lease'[i].left = IF lease[i].left > 0 THEN lease[i].left - 1 ELSE 0
      BY <2>1 DEF Ticked, Lease
    <2>3. lease[i].left \in Nat
      BY <2>1, RegistryAssumption DEF Lease
    <2>4. QED
      BY <2>1, <2>2, <2>3 DEF Live
  <1>7. CASE UNCHANGED vars
    BY <1>7 DEF vars, Live
  <1>8. QED
    BY <1>2, <1>3, <1>4, <1>5, <1>6, <1>7
    DEF Next, Call, LeaseNone, Stale, AckLease, RenewLease, ReclaimExpired

\* A lease whose deadline has passed is gone for good: no message that arrives
\* late can renew it, ack it or sweep under it.
THEOREM ExpiredStaysExpired == Spec => NoResurrection
  <1>1. IInv /\ [Next]_vars => [\A i \in Issued : ~Live(i) => ~Live(i)']_vars
    BY NextNoResurrection
  <1>2. QED
    BY <1>1, RegistryInvariant, PTL DEF Spec, NoResurrection

-----------------------------------------------------------------------------
(* SWEPT blocks *)

\* A reclaim takes no SWEPT block and leaves the references of the others.
LEMMA ReclaimKeeps ==
    ASSUME IInv, NEW b \in Blocks
    PROVE  /\ ReclaimedState[b] = "swept" <=> state[b] = "swept"
           /\ state[b] = "swept" => ReclaimedLeaseOf[b] = leaseOf[b]
           /\ ReclaimedLeaseOf[b] # NoLease => ReclaimedLeaseOf[b] = leaseOf[b]
           /\ ReclaimedState[b] = "free" <=> Available(b)
  <1> USE DEF IInv, TypeOK, TableMatchesBlocks, LeaseFitsBlock
  <1>1. /\ ReclaimedState[b] = "swept" <=> state[b] = "swept"
        /\ state[b] = "swept" => ReclaimedLeaseOf[b] = leaseOf[b]
        /\ ReclaimedLeaseOf[b] # NoLease => ReclaimedLeaseOf[b] = leaseOf[b]
    BY DEF ReclaimedState, ReclaimedLeaseOf, ExpiredBlocks
  <1>2. CASE state[b] = "leased"
    <2>1. leaseOf[b] \in leasesById /\ leaseOf[b] \in Issued /\ leaseOf[b] # NoLease
      BY <1>2
    <2>2. lease[leaseOf[b]].left \in Nat
      BY <2>1, RegistryAssumption DEF Lease
    <2>3. QED
      BY <1>1, <1>2, <2>1, <2>2 DEF Available, Live, ReclaimedState, ExpiredBlocks
  <1>3. CASE state[b] = "free"
    <2>1. leaseOf[b] = NoLease /\ NoLease \notin leasesById
      BY <1>3 DEF NoLease, Issued
    <2>2. QED
      BY <1>1, <1>3, <2>1 DEF Available, Live, ReclaimedState, ExpiredBlocks
  <1>4. CASE state[b] = "swept"
    BY <1>1, <1>4 DEF Available, ReclaimedState, ExpiredBlocks
  <1>5. QED
    BY <1>1, <1>2, <1>3, <1>4 DEF LeaseState

LEMMA NextSwept ==
    ASSUME IInv, [Next]_vars, NEW b \in Blocks
    PROVE  /\ state[b] # "swept" /\ state'[b] = "swept" =>
                  Live(leaseOf[b]) /\ leaseOf'[b] = leaseOf[b]
           /\ state[b] = "swept" => state'[b] = "swept" /\ leaseOf'[b] = leaseOf[b]
  <1> DEFINE Goal == /\ state[b] # "swept" /\ state'[b] = "swept" =>
                            Live(leaseOf[b]) /\ leaseOf'[b] = leaseOf[b]
                     /\ state[b] = "swept" => state'[b] = "swept" /\ leaseOf'[b] = leaseOf[b]
  <1>1. ASSUME ReclaimTables PROVE Goal
    BY <1>1, ReclaimKeeps DEF ReclaimTables
  <1>2. ASSUME NEW c \in Blocks, NEW w \in Workers, LeaseBlock(c, w) PROVE Goal
    <2>1. ReclaimedState[c] = "free" /\ state[c] # "swept"
      BY <1>2, ReclaimKeeps DEF LeaseBlock, FirstFree
    <2>2. /\ state' = [ReclaimedState EXCEPT ![c] = "leased"]
          /\ leaseOf' = [ReclaimedLeaseOf EXCEPT ![c] = nextId]
      BY <1>2 DEF LeaseBlock
    <2>3. state'[b] = (IF b = c THEN "leased" ELSE ReclaimedState[b])
      BY <2>2 DEF ReclaimedState
    <2>4. b # c => leaseOf'[b] = ReclaimedLeaseOf[b]
      BY <2>2 DEF ReclaimedLeaseOf
    <2>5. QED
      BY <2>1, <2>3, <2>4, ReclaimKeeps
  <1>3. ASSUME NEW w \in Workers, ReleaseWorker(w) PROVE Goal
    BY <1>3 DEF ReleaseWorker, HeldBy
  <1>4. ASSUME NEW k, NEW w \in Workers, MarkSwept(k, w) PROVE Goal
    <2> DEFINE blk == lease[k].block
    <2>1. k \in ReclaimedTable /\ k \in Issued /\ blk \in Blocks /\ Live(k)
      BY <1>4, ReclaimConsistent, ReclaimedTableIsLive
      DEF MarkSwept, Known, Consistent, Issued, Lease
    <2>2. /\ state' = [ReclaimedState EXCEPT ![blk] = "swept"]
          /\ leaseOf' = ReclaimedLeaseOf
          /\ ReclaimedLeaseOf[blk] = k
      BY <1>4 DEF MarkSwept
    <2>3. k # NoLease
      BY <2>1 DEF Issued, NoLease, IInv, TypeOK
    <2>4. leaseOf[blk] = k
      BY <2>1, <2>2, <2>3, ReclaimKeeps
    <2>5. state'[b] = (IF b = blk THEN "swept" ELSE ReclaimedState[b])
      BY <2>2 DEF ReclaimedState
    <2> HIDE DEF blk
    <2>6. CASE b = blk
      BY <2>6, <2>1, <2>2, <2>4, <2>5
    <2>7. CASE b # blk
      BY <2>7, <2>2, <2>5, ReclaimKeeps
    <2>8. QED
      BY <2>6, <2>7
  <1>5. ASSUME Tick PROVE Goal
    BY <1>5 DEF Tick
  <1>6. CASE UNCHANGED vars
    BY <1>6 DEF vars
  <1>7. QED
    BY <1>1, <1>2, <1>3, <1>4, <1>5, <1>6
    DEF Next, Call, LeaseNone, Stale, AckLease, RenewLease, Rearm, ReclaimExpired, OnlyReclaim

\* Only the holder of the live lease can turn a block SWEPT, and a SWEPT block
\* is never leased again.
THEOREM SweptByHolderForEver == Spec => SweptOnlyByHolder
  <1>1. IInv /\ [Next]_vars =>
          [\A b \in Blocks :
             /\ state[b] # "swept" /\ state'[b] = "swept" =>
                    Live(leaseOf[b]) /\ leaseOf'[b] = leaseOf[b]
             /\ state[b] = "swept" =>
                    state'[b] = "swept" /\ leaseOf'[b] = leaseOf[b]]_vars
    BY NextSwept
  <1>2. QED
    BY <1>1, RegistryInvariant, PTL DEF Spec, SweptOnlyByHolder

-----------------------------------------------------------------------------
(* The ledger *)

\* Holder, in terms of the live leases alone.
HoldersAreLive ==
    \A b \in Blocks :
        /\ Holder[b] \in {NoLease} \cup Issued
        /\ \A i \in Issued : Holder[b] = i <=> Live(i) /\ lease[i].block = b
        /\ Available(b) <=> Ledger!Open(b)

LEMMA HolderIsLive == IInv => HoldersAreLive
  <1> SUFFICES ASSUME IInv, NEW b \in Blocks
               PROVE  /\ Holder[b] \in {NoLease} \cup Issued
                      /\ \A i \in Issued : Holder[b] = i <=> Live(i) /\ lease[i].block = b
                      /\ Available(b) <=> Ledger!Open(b)
    BY DEF HoldersAreLive
  <1> USE DEF IInv, TypeOK, TableMatchesBlocks, LeaseFitsBlock
  <1>1. NoLease \notin Issued /\ NoLease = 0
    BY DEF Issued, NoLease
  <1>2. state[b] = "leased" => leaseOf[b] \in leasesById /\ leaseOf[b] # NoLease
    BY <1>1
  <1>3. leaseOf[b] \in leasesById => state[b] = "leased"
    BY <1>1
  <1>4. Holder[b] = IF Live(leaseOf[b]) THEN leaseOf[b] ELSE NoLease
    BY <1>2, <1>3 DEF Holder, Live
  <1>5. ASSUME NEW i \in Issued
        PROVE  Holder[b] = i <=> Live(i) /\ lease[i].block = b
    BY <1>1, <1>4 DEF Live
  <1>6. Available(b) <=> Ledger!Open(b)
    BY <1>1, <1>2, <1>3, <1>4 DEF Available, Ledger!Open, Ledger!Nobody, Live, SweptBlocks
  <1>7. QED
    BY <1>1, <1>4, <1>5, <1>6

LEMMA HolderIsLivePrime == IInv' => HoldersAreLive'
  BY HolderIsLive, PTL

\* A step that issues no lease, keeps every lease's block and worker, and
\* makes no lease live, looks like a Lapse to the ledger if it sweeps nothing.
LEMMA LosingIsLapse ==
    ASSUME IInv, IInv', nextId' = nextId,
           \A i \in Issued : /\ lease'[i].block = lease[i].block
                             /\ lease'[i].worker = lease[i].worker
                             /\ Live(i)' => Live(i),
           SweptBlocks' = SweptBlocks
    PROVE  \E B \in SUBSET Blocks : Ledger!Lapse(B)
  <1> DEFINE B == {b \in Blocks : Holder'[b] = NoLease}
  <1>1. HoldersAreLive /\ HoldersAreLive'
    BY HolderIsLive, HolderIsLivePrime
  <1>2. Issued' = Issued
    BY DEF Issued
  <1>3. ASSUME NEW b \in Blocks, b \notin B PROVE Holder'[b] = Holder[b]
    <2>1. Holder'[b] \in Issued
      BY <1>1, <1>2, <1>3 DEF HoldersAreLive
    <2>2. Live(Holder'[b]) /\ lease[Holder'[b]].block = b
      BY <2>1, <1>1, <1>2 DEF HoldersAreLive
    <2>3. QED
      BY <2>1, <2>2, <1>1 DEF HoldersAreLive
  <1>4. Holder' = [b \in Blocks |-> IF b \in B THEN NoLease ELSE Holder[b]]
    BY <1>3 DEF Holder
  <1>5. Owner' = Owner
    BY <1>2 DEF Owner
  <1>6. Ledger!Lapse(B)
    BY <1>4, <1>5 DEF Ledger!Lapse, Ledger!Nobody, NoLease
  <1>7. QED
    BY <1>6

\* Without a lease lost, it is a stutter.
LEMMA KeepingIsStutter ==
    ASSUME IInv, IInv', nextId' = nextId,
           \A i \in Issued : /\ lease'[i].block = lease[i].block
                             /\ lease'[i].worker = lease[i].worker
                             /\ Live(i)' <=> Live(i),
           SweptBlocks' = SweptBlocks
    PROVE  UNCHANGED <<Holder, nextId - 1, Owner, SweptBlocks>>
  <1>1. HoldersAreLive /\ HoldersAreLive'
    BY HolderIsLive, HolderIsLivePrime
  <1>2. Issued' = Issued
    BY DEF Issued
  <1>3. ASSUME NEW b \in Blocks PROVE Holder'[b] = Holder[b]
    <2>1. \A i \in Issued : Holder'[b] = i <=> Holder[b] = i
      BY <1>1, <1>2 DEF HoldersAreLive
    <2>2. QED
      BY <2>1, <1>1, <1>2 DEF HoldersAreLive
  <1>4. Holder' = Holder
    BY <1>3 DEF Holder
  <1>5. Owner' = Owner
    BY <1>2 DEF Owner
  <1>6. QED
    BY <1>4, <1>5

\* A reclaim sweeps nothing.
LEMMA ReclaimTablesSwept ==
    ASSUME IInv, ReclaimTables
    PROVE  SweptBlocks' = SweptBlocks
  BY ReclaimKeeps DEF ReclaimTables, SweptBlocks

LEMMA OnlyReclaimRefines ==
    ASSUME IInv, OnlyReclaim
    PROVE  UNCHANGED <<Holder, nextId - 1, Owner, SweptBlocks>>
  <1>1. IInv' /\ SweptBlocks' = SweptBlocks
    BY OnlyReclaimIInv, ReclaimTablesSwept DEF OnlyReclaim
  <1>2. nextId' = nextId /\ lease' = lease
    BY DEF OnlyReclaim
  <1>3. QED
    BY <1>1, <1>2, OnlyReclaimLive, KeepingIsStutter

LEMMA RearmRefines ==
    ASSUME IInv, NEW k, NEW w \in Workers, Rearm(k, w)
    PROVE  UNCHANGED <<Holder, nextId - 1, Owner, SweptBlocks>>
  <1> USE DEF IInv, TypeOK
  <1>1. IInv' /\ SweptBlocks' = SweptBlocks
    BY RearmIInv, ReclaimTablesSwept DEF Rearm
  <1>2. k \in Issued /\ k \in ReclaimedTable /\ Live(k)
    BY ReclaimedTableIsLive DEF Rearm, Known, ReclaimedTable
  <1>3. lease' = [lease EXCEPT ![k] = [lease[k] EXCEPT !.left = LeaseTTL]]
    BY DEF Rearm
  <1>4. LeaseTTL \in 0 .. LeaseTTL /\ LeaseTTL > 0
    BY RegistryAssumption
  <1>5. ASSUME NEW i \in Issued
        PROVE  /\ lease'[i].block = lease[i].block
               /\ lease'[i].worker = lease[i].worker
               /\ lease'[i].left = IF i = k THEN LeaseTTL ELSE lease[i].left
    BY <1>2, <1>3, <1>4, SetLeft
  <1>6. ASSUME NEW i \in Issued PROVE Live(i)' <=> Live(i)
    <2>1. leasesById' = ReclaimedTable
      BY DEF Rearm, ReclaimTables
    <2>2. i \in ReclaimedTable <=> Live(i)
      BY ReclaimedTableIsLive
    <2>3. QED
      BY <1>2, <1>4, <1>5, <2>1, <2>2 DEF Live
  <1>7. nextId' = nextId
    BY DEF Rearm
  <1>8. QED
    BY <1>1, <1>5, <1>6, <1>7, KeepingIsStutter

LEMMA ReleaseWorkerRefines ==
    ASSUME IInv, NEW w \in Workers, ReleaseWorker(w)
    PROVE  \E B \in SUBSET Blocks : Ledger!Lapse(B)
  <1>1. IInv'
    BY ReleaseWorkerIInv
  <1>2. SweptBlocks' = SweptBlocks
    BY DEF ReleaseWorker, HeldBy, SweptBlocks
  <1>3. /\ nextId' = nextId /\ lease' = lease
        /\ \A i \in Issued : Live(i)' => Live(i)
    BY DEF ReleaseWorker, Live
  <1>4. QED
    BY <1>1, <1>2, <1>3, LosingIsLapse

LEMMA TickRefines ==
    ASSUME IInv, Tick
    PROVE  \E B \in SUBSET Blocks : Ledger!Lapse(B)
  <1> USE DEF IInv, TypeOK
  <1>1. IInv' /\ nextId' = nextId /\ SweptBlocks' = SweptBlocks
    BY TickIInv DEF Tick, SweptBlocks
  <1>2. ASSUME NEW i \in Issued
        PROVE  /\ lease'[i].block = lease[i].block
               /\ lease'[i].worker = lease[i].worker
    <2>1. lease'[i] = Ticked(i) /\ lease[i] \in Lease
      BY DEF Tick
    <2>2. (IF lease[i].left > 0 THEN lease[i].left - 1 ELSE 0) \in 0 .. LeaseTTL
      BY <2>1, RegistryAssumption DEF Lease
    <2>3. QED
      BY <2>1, <2>2, SetLeft DEF Ticked
  <1>3. Next
    BY DEF Next
  <1>4. \A i \in Issued : Live(i)' => Live(i)
    BY <1>3, NextNoResurrection
  <1>5. QED
    BY <1>1, <1>2, <1>4, LosingIsLapse

LEMMA MarkSweptRefines ==
    ASSUME IInv, NEW k, NEW w \in Workers, MarkSwept(k, w)
    PROVE  \E b \in Blocks : Ledger!Finish(b)
  <1> USE DEF IInv, TypeOK
  <1> DEFINE blk == lease[k].block
  <1>1. k \in Issued /\ Live(k) /\ blk \in Blocks /\ k # NoLease
    BY ReclaimedTableIsLive DEF MarkSwept, Known, ReclaimedTable, Lease, Issued, NoLease
  <1>2. HoldersAreLive /\ HoldersAreLive'
    BY MarkSweptIInv, HolderIsLive, HolderIsLivePrime
  <1>3. Issued' = Issued /\ nextId' = nextId /\ lease' = lease /\ Owner' = Owner
    BY DEF MarkSwept, Issued, Owner
  <1>4. ASSUME NEW i \in Issued PROVE Live(i)' <=> Live(i) /\ i # k
    <2>1. leasesById' = ReclaimedTable \ {k}
      BY DEF MarkSwept
    <2>2. i \in ReclaimedTable <=> Live(i)
      BY ReclaimedTableIsLive
    <2>3. QED
      BY <1>3, <2>1, <2>2 DEF Live
  <1>5. Holder[blk] = k
    BY <1>1, <1>2 DEF HoldersAreLive
  <1>6. state' = [ReclaimedState EXCEPT ![blk] = "swept"]
    BY DEF MarkSwept
  <1> HIDE DEF blk
  <1>7. ASSUME NEW b \in Blocks
        PROVE  Holder'[b] = IF b = blk THEN NoLease ELSE Holder[b]
    <2>1. \A i \in Issued : Holder'[b] = i <=> Holder[b] = i /\ i # k
      BY <1>2, <1>3, <1>4 DEF HoldersAreLive
    <2>2. Holder[b] = k => b = blk
      BY <1>1, <1>2 DEF HoldersAreLive, blk
    <2>3. QED
      BY <2>1, <2>2, <1>1, <1>2, <1>3, <1>5 DEF HoldersAreLive
  <1>8. Holder' = [Holder EXCEPT ![blk] = NoLease]
    BY <1>7 DEF Holder
  <1>9. SweptBlocks' = SweptBlocks \cup {blk}
    <2>1. \A b \in Blocks : state'[b] = IF b = blk THEN "swept" ELSE ReclaimedState[b]
      BY <1>6 DEF ReclaimedState
    <2>2. QED
      BY <2>1, <1>1, ReclaimKeeps DEF SweptBlocks
  <1>10. Ledger!Finish(blk)
    BY <1>1, <1>3, <1>5, <1>8, <1>9 DEF Ledger!Finish, Ledger!Nobody, NoLease
  <1>11. QED
    BY <1>1, <1>10

LEMMA LeaseBlockRefines ==
    ASSUME IInv, NEW b \in Blocks, NEW w \in Workers, LeaseBlock(b, w)
    PROVE  Ledger!Grant(b, w)
  <1> USE DEF IInv, TypeOK
  <1>1. HoldersAreLive /\ HoldersAreLive'
    BY LeaseBlockIInv, HolderIsLive, HolderIsLivePrime
  <1>2. \A c \in Blocks : ReclaimedState[c] = "free" <=> Ledger!Open(c)
    BY <1>1, ReclaimKeeps DEF HoldersAreLive
  <1>3. Ledger!Open(b) /\ \A c \in Blocks : c < b => ~Ledger!Open(c)
    BY <1>2 DEF LeaseBlock, FirstFree
  <1>4. /\ nextId \in Nat \ {0} /\ nextId' = nextId + 1
        /\ Issued' = Issued \cup {nextId} /\ nextId \notin Issued
        /\ Issued' = 1 .. nextId
    BY DEF LeaseBlock, Issued
  <1>5. /\ \A i \in Issued : lease'[i] = lease[i]
        /\ lease'[nextId] = NewLease(b, w)
        /\ leasesById' = ReclaimedTable \cup {nextId}
    BY <1>4 DEF LeaseBlock
  <1>6. ASSUME NEW i \in Issued PROVE Live(i)' <=> Live(i)
    <2>1. i \in ReclaimedTable <=> Live(i)
      BY ReclaimedTableIsLive
    <2>2. QED
      BY <2>1, <1>4, <1>5 DEF Live
  <1>7. /\ nextId \in leasesById' /\ lease'[nextId].left > 0
        /\ lease'[nextId].block = b /\ lease'[nextId].worker = w
    BY <1>5, RegistryAssumption DEF NewLease
  <1>8. ASSUME NEW c \in Blocks
        PROVE  /\ Holder'[c] \in {NoLease, nextId} \cup Issued
               /\ Holder'[c] = nextId <=> c = b
               /\ \A i \in Issued : Holder'[c] = i <=> Holder[c] = i
    <2>1. \A i \in Issued' :
             Holder'[c] = i <=> /\ i \in leasesById' /\ lease'[i].left > 0
                                /\ lease'[i].block = c
      BY <1>1 DEF HoldersAreLive, Live
    <2>2. Holder'[c] = nextId <=> c = b
      BY <2>1, <1>4, <1>7
    <2>3. ASSUME NEW i \in Issued PROVE Holder'[c] = i <=> Holder[c] = i
      BY <2>1, <1>1, <1>4, <1>5, <1>6 DEF HoldersAreLive, Live
    <2>4. QED
      BY <2>2, <2>3, <1>1, <1>4 DEF HoldersAreLive
  <1>9. ASSUME NEW c \in Blocks
        PROVE  Holder'[c] = IF c = b THEN nextId ELSE Holder[c]
    <2>1. Holder[c] \in {NoLease} \cup Issued
      BY <1>1 DEF HoldersAreLive
    <2>2. QED
      BY <2>1, <1>8
  <1>10. Holder' = [Holder EXCEPT ![b] = nextId]
    BY <1>9 DEF Holder
  <1>11. Owner' = [i \in 1 .. nextId |-> IF i = nextId THEN w ELSE Owner[i]]
    BY <1>4, <1>5, <1>7 DEF Owner
  <1>12. SweptBlocks' = SweptBlocks
    <2>1. \A c \in Blocks : state'[c] = IF c = b THEN "leased" ELSE ReclaimedState[c]
      BY DEF LeaseBlock, ReclaimedState
    <2>2. ReclaimedState[b] = "free"
      BY DEF LeaseBlock, FirstFree
    <2>3. QED
      BY <2>1, <2>2, ReclaimKeeps DEF SweptBlocks
  <1>13. nextId' - 1 = (nextId - 1) + 1 /\ nextId' - 1 = nextId
    BY <1>4
  <1>14. QED
    BY <1>3, <1>10, <1>11, <1>12, <1>13 DEF Ledger!Grant

LEMMA NextRefines ==
    ASSUME IInv, [Next]_vars
    PROVE  [Ledger!Next]_(Ledger!vars)
  <1>1. ASSUME OnlyReclaim PROVE UNCHANGED Ledger!vars
    BY <1>1, OnlyReclaimRefines DEF Ledger!vars
  <1>2. ASSUME NEW b \in Blocks, NEW w \in Workers, LeaseBlock(b, w) PROVE Ledger!Next
    BY <1>2, LeaseBlockRefines DEF Ledger!Next
  <1>3. ASSUME NEW w \in Workers, ReleaseWorker(w) PROVE Ledger!Next
    BY <1>3, ReleaseWorkerRefines DEF Ledger!Next
  <1>4. ASSUME NEW k, NEW w \in Workers, Rearm(k, w) PROVE UNCHANGED Ledger!vars
    BY <1>4, RearmRefines DEF Ledger!vars
  <1>5. ASSUME NEW k, NEW w \in Workers, MarkSwept(k, w) PROVE Ledger!Next
    BY <1>5, MarkSweptRefines DEF Ledger!Next
  <1>6. ASSUME Tick PROVE Ledger!Next
    BY <1>6, TickRefines DEF Ledger!Next
  <1>7. ASSUME UNCHANGED vars PROVE UNCHANGED Ledger!vars
    BY <1>7 DEF vars, Ledger!vars, Holder, Owner, SweptBlocks, Issued
  <1>8. QED
    BY <1>1, <1>2, <1>3, <1>4, <1>5, <1>6, <1>7
    DEF Next, Call, LeaseNone, Stale, AckLease, RenewLease, ReclaimExpired

LEMMA InitRefines == Init => Ledger!Init
  BY DEF Init, Ledger!Init, Ledger!Nobody, NoLease, Holder, Owner, SweptBlocks, Issued

\* The registry with its lazy reclaim implements the ledger in which a hold
\* ends at its deadline.
THEOREM RegistryImplementsLedger == Spec => ImplementsLedger
  BY InitRefines, NextRefines, RegistryInvariant, PTL DEF Spec, ImplementsLedger, Ledger!Spec

\* lease_block gives out the lowest block that nobody holds and nobody swept.
THEOREM LowestAvailableFirst == Spec => LeasesLowestAvailable
  <1>1. ASSUME IInv, [Next]_vars, nextId' # nextId
        PROVE  LET b == lease'[nextId].block
               IN  Available(b) /\ \A c \in Blocks : c < b => ~Available(c)
    <2>1. PICK b \in Blocks, w \in Workers : LeaseBlock(b, w)
      BY <1>1
      DEF Next, Call, LeaseNone, Stale, AckLease, RenewLease, Rearm, MarkSwept,
          ReleaseWorker, ReclaimExpired, OnlyReclaim, Tick, vars
    <2>2. lease'[nextId].block = b
      BY <1>1, <2>1 DEF LeaseBlock, NewLease, IInv, TypeOK
    <2>3. QED
      BY <1>1, <2>1, <2>2, ReclaimKeeps DEF LeaseBlock, FirstFree
  <1>2. IInv /\ [Next]_vars =>
          [nextId' # nextId =>
             LET b == lease'[nextId].block
             IN  Available(b) /\ \A c \in Blocks : c < b => ~Available(c)]_vars
    BY <1>1
  <1>3. QED
    BY <1>2, RegistryInvariant, PTL DEF Spec, LeasesLowestAvailable

=============================================================================
