---------------------------- MODULE RangeRegistry ----------------------------
(***************************************************************************)
(* orchestrator/coordinator/registry.py: the registry that leases disjoint *)
(* blocks of the keyspace to workers.                                      *)
(*                                                                         *)
(* Every public method holds the registry's lock from its first to its     *)
(* last line, so each is one action.  A method that begins with            *)
(* _reclaim_expired_locked() has that reclaim inside its action: the       *)
(* Reclaimed... names below are the values AFTER the reclaim.              *)
(*                                                                         *)
(* A Lease is an object that the code shares between the block that is     *)
(* leased (b.lease) and the table _leases_by_id.  Here the objects live in *)
(* `lease`, indexed by lease id, and the two references are `leaseOf` and  *)
(* `leasesById`; that they never disagree is an invariant, not a           *)
(* convention.                                                             *)
(*                                                                         *)
(* Time: the code compares the clock with expires_at and with nothing      *)
(* else, so a lease carries `left`, the ticks until expires_at, which Tick *)
(* counts down to 0; `now >= expires_at` is `left = 0`.                    *)
(***************************************************************************)
EXTENDS KeyGrid

CONSTANTS Lo, Hi, BlockSize,  \* the keyspace [Lo, Hi) and the grid's step
          LeaseTTL,           \* lease_ttl, in ticks
          Workers,            \* the worker ids
          MaxLeases           \* bound: leases issued in a behaviour

\* __init__ raises ValueError otherwise; MaxLeases bounds the model only.
ASSUME RegistryAssumption ==
    /\ Lo \in Int /\ Hi \in Int /\ Lo < Hi
    /\ BlockSize \in Nat \ {0}
    /\ LeaseTTL \in Nat \ {0}
    /\ MaxLeases \in Nat

VARIABLES
    state,       \* block.state of every block
    leaseOf,     \* block.lease of every block: a lease id, or NoLease
    leasesById,  \* the keys of the table _leases_by_id
    lease,       \* the Lease objects, by lease id
    nextId       \* the next value of the counter _lease_ids

vars == <<state, leaseOf, leasesById, lease, nextId>>

Blocks == BlocksOf(Lo, Hi, BlockSize)
BlockLo(b) == LoOf(Lo, BlockSize, b)
BlockHi(b) == HiOf(Lo, Hi, BlockSize, b)

LeaseState == {"free", "leased", "swept"}

\* The counter starts at 1, so 0 is free to stand for None.
NoLease == 0
Issued == 1 .. (nextId - 1)

\* leased_at, acked and lease.state are written and never read: left out.
Lease == [block : Blocks, worker : Workers, left : 0 .. LeaseTTL]

Init ==
    /\ state = [b \in Blocks |-> "free"]
    /\ leaseOf = [b \in Blocks |-> NoLease]
    /\ leasesById = {}
    /\ lease = [i \in {} |-> [block |-> 0]]
    /\ nextId = 1

-----------------------------------------------------------------------------
(* TTL reclaim *)

\* The blocks that _reclaim_expired_locked returns to FREE.
ExpiredBlocks ==
    {b \in Blocks : /\ state[b] = "leased"
                    /\ leaseOf[b] # NoLease
                    /\ lease[leaseOf[b]].left = 0}

\* state, leaseOf and leasesById once the expired leases are reclaimed.
ReclaimedState == [b \in Blocks |-> IF b \in ExpiredBlocks THEN "free" ELSE state[b]]
ReclaimedLeaseOf == [b \in Blocks |-> IF b \in ExpiredBlocks THEN NoLease ELSE leaseOf[b]]
\* Mutant: the reclaim frees the block and leaves the dead id in the table.
ReclaimedTable_NoPop == leasesById

ReclaimedTable == leasesById \ {leaseOf[b] : b \in ExpiredBlocks}

ReclaimTables ==
    /\ state' = ReclaimedState
    /\ leaseOf' = ReclaimedLeaseOf
    /\ leasesById' = ReclaimedTable

\* A method that reclaims and changes nothing more.
OnlyReclaim == ReclaimTables /\ UNCHANGED <<lease, nextId>>

\* reclaim_expired; also snapshot_states, active_leases, counts and
\* is_exhausted, which reclaim before they look.
ReclaimExpired == OnlyReclaim

\* Mutant: exhausted when no block is FREE.
Exhausted_NoneFree == \A b \in Blocks : ReclaimedState[b] # "free"

\* What is_exhausted returns.
Exhausted == \A b \in Blocks : ReclaimedState[b] = "swept"

-----------------------------------------------------------------------------
(* Lease lifecycle *)

\* Mutant: lease_block takes the first block that has not been swept.
FirstFree_NotSwept(b) ==
    /\ ReclaimedState[b] # "swept"
    /\ \A c \in Blocks : c < b => ReclaimedState[c] = "swept"

FirstFree(b) ==
    /\ ReclaimedState[b] = "free"
    /\ \A c \in Blocks : c < b => ReclaimedState[c] # "free"

NewLease(b, w) == [block |-> b, worker |-> w, left |-> LeaseTTL]

\* lease_block returns a new lease on b.
LeaseBlock(b, w) ==
    /\ nextId <= MaxLeases
    /\ FirstFree(b)
    /\ state' = [ReclaimedState EXCEPT ![b] = "leased"]
    /\ leaseOf' = [ReclaimedLeaseOf EXCEPT ![b] = nextId]
    /\ leasesById' = ReclaimedTable \cup {nextId}
    /\ lease' = [i \in 1 .. nextId |-> IF i = nextId THEN NewLease(b, w) ELSE lease[i]]
    /\ nextId' = nextId + 1

\* lease_block returns None.
LeaseNone ==
    /\ \A b \in Blocks : ReclaimedState[b] # "free"
    /\ OnlyReclaim

\* The lookup of ack_lease, renew_lease and mark_swept, after their reclaim.
Known(i, w) == i \in ReclaimedTable /\ lease[i].worker = w

\* Mutant: the deadline is pushed back instead of set from the clock.
Rearm_Extend(i, w) ==
    /\ Known(i, w)
    /\ lease' = [lease EXCEPT ![i].left = @ + LeaseTTL]
    /\ ReclaimTables
    /\ UNCHANGED nextId

\* Mutant: ack_lease and renew_lease do not reclaim first.
Rearm_NoReclaim(i, w) ==
    /\ i \in leasesById /\ lease[i].worker = w
    /\ lease' = [lease EXCEPT ![i].left = LeaseTTL]
    /\ UNCHANGED <<state, leaseOf, leasesById, nextId>>

\* A worker's sign of life arms the deadline anew.
Rearm(i, w) ==
    /\ Known(i, w)
    /\ lease' = [lease EXCEPT ![i].left = LeaseTTL]
    /\ ReclaimTables
    /\ UNCHANGED nextId

\* The two methods differ in lease.acked alone, which nothing reads: an ack
\* is a first heartbeat.
AckLease(i, w) == Rearm(i, w)
RenewLease(i, w) == Rearm(i, w)

\* Mutant: mark_swept does not pop the id.
MarkSwept_NoPop(i, w) ==
    /\ Known(i, w)
    /\ ReclaimedLeaseOf[lease[i].block] = i
    /\ state' = [ReclaimedState EXCEPT ![lease[i].block] = "swept"]
    /\ leaseOf' = ReclaimedLeaseOf
    /\ leasesById' = ReclaimedTable
    /\ UNCHANGED <<lease, nextId>>

\* Mutant: mark_swept does not reclaim first.
MarkSwept_NoReclaim(i, w) ==
    /\ i \in leasesById /\ lease[i].worker = w
    /\ leaseOf[lease[i].block] = i
    /\ state' = [state EXCEPT ![lease[i].block] = "swept"]
    /\ leasesById' = leasesById \ {i}
    /\ UNCHANGED <<leaseOf, lease, nextId>>

\* Mutant: the lease ends and the block is never retired.
MarkSwept_OnlyPops(i, w) ==
    /\ Known(i, w)
    /\ state' = ReclaimedState
    /\ leaseOf' = ReclaimedLeaseOf
    /\ leasesById' = ReclaimedTable \ {i}
    /\ UNCHANGED <<lease, nextId>>

\* The block keeps its reference to the lease; only the table drops it.
MarkSwept(i, w) ==
    /\ Known(i, w)
    /\ ReclaimedLeaseOf[lease[i].block] = i
    /\ state' = [ReclaimedState EXCEPT ![lease[i].block] = "swept"]
    /\ leaseOf' = ReclaimedLeaseOf
    /\ leasesById' = ReclaimedTable \ {i}
    /\ UNCHANGED <<lease, nextId>>

\* mark_swept's second return False; the invariants show it cannot happen.
SweptMismatch(i, w) ==
    /\ Known(i, w)
    /\ ReclaimedLeaseOf[lease[i].block] # i

\* ack_lease, renew_lease and mark_swept return False.
Stale(i, w) ==
    /\ ~Known(i, w)
    /\ OnlyReclaim

\* release_worker, the one method that does not reclaim first.
\* Mutant: the worker id is not compared.
HeldBy_Anyone(w) == {b \in Blocks : state[b] = "leased" /\ leaseOf[b] # NoLease}

HeldBy(w) ==
    {b \in Blocks : /\ state[b] = "leased"
                    /\ leaseOf[b] # NoLease
                    /\ lease[leaseOf[b]].worker = w}

ReleaseWorker(w) ==
    /\ state' = [b \in Blocks |-> IF b \in HeldBy(w) THEN "free" ELSE state[b]]
    /\ leaseOf' = [b \in Blocks |-> IF b \in HeldBy(w) THEN NoLease ELSE leaseOf[b]]
    /\ leasesById' = leasesById \ {leaseOf[b] : b \in HeldBy(w)}
    /\ UNCHANGED <<lease, nextId>>

-----------------------------------------------------------------------------
(* The clock *)

Ticked(i) ==
    [lease[i] EXCEPT !.left = IF lease[i].left > 0 THEN lease[i].left - 1 ELSE 0]

\* Enabled while some deadline lies ahead: later ticks change nothing.
Tick ==
    /\ \E i \in Issued : lease[i].left > 0
    /\ lease' = [i \in Issued |-> Ticked(i)]
    /\ UNCHANGED <<state, leaseOf, leasesById, nextId>>

-----------------------------------------------------------------------------

\* The ids a caller may present: those issued, and one never issued.
CallerIds == 1 .. nextId

Call(w) ==
    \/ \E b \in Blocks : LeaseBlock(b, w)
    \/ LeaseNone
    \/ ReleaseWorker(w)
    \/ \E i \in CallerIds :
          AckLease(i, w) \/ RenewLease(i, w) \/ MarkSwept(i, w) \/ Stale(i, w)

Next ==
    \/ \E w \in Workers : Call(w)
    \/ ReclaimExpired
    \/ Tick

Spec == Init /\ [][Next]_vars

-----------------------------------------------------------------------------
(* Invariants *)

TypeOK ==
    /\ nextId \in Nat \ {0}
    /\ state \in [Blocks -> LeaseState]
    /\ leaseOf \in [Blocks -> {NoLease} \cup Issued]
    /\ leasesById \subseteq Issued
    /\ lease \in [Issued -> Lease]

\* The table and the blocks tell the same story: an id is in the table iff
\* the block it was issued for is LEASED under that very id.  registry.py
\* calls the table "the source of truth for disjointness checks"; the
\* methods read one side and write the other.
TableMatchesBlocks ==
    /\ \A i \in leasesById : state[lease[i].block] = "leased" /\ leaseOf[lease[i].block] = i
    /\ \A b \in Blocks : state[b] = "leased" => leaseOf[b] \in leasesById

\* A block refers to a lease exactly when it is not FREE, and only to a lease
\* that was issued for it.
LeaseFitsBlock ==
    \A b \in Blocks :
        /\ state[b] = "free" <=> leaseOf[b] = NoLease
        /\ leaseOf[b] # NoLease => lease[leaseOf[b]].block = b

IInv == TypeOK /\ TableMatchesBlocks /\ LeaseFitsBlock

\* A lease that its worker may rely on: known to the registry and not past
\* its deadline.
Live(i) == i \in leasesById /\ lease[i].left > 0

\* registry.py: "two *concurrent* LEASED blocks can never overlap".  Of two
\* leases in the table, expired or not, no key is in both.
DisjointLeases ==
    \A i, j \in leasesById :
        i # j => ~Overlap(BlockLo(lease[i].block), BlockHi(lease[i].block),
                          BlockLo(lease[j].block), BlockHi(lease[j].block))

\* The second test of mark_swept is unreachable: a known lease is always the
\* lease of its block.
NoSweptMismatch == \A i \in CallerIds, w \in Workers : ~SweptMismatch(i, w)

-----------------------------------------------------------------------------
(* Action properties *)

\* An issued lease that is not live never becomes live again, whatever its
\* worker still sends: a heartbeat, an ack or a late Swept that arrives after
\* the deadline cannot win the block back, even if no one has reclaimed it.
NoResurrection == [][\A i \in Issued : ~Live(i) => ~Live(i)']_vars

\* A block becomes SWEPT only by the report of the worker that holds the
\* live lease on it, and stays SWEPT, under that lease, for ever.
SweptOnlyByHolder ==
    [][\A b \in Blocks :
          /\ state[b] # "swept" /\ state'[b] = "swept" =>
                 Live(leaseOf[b]) /\ leaseOf'[b] = leaseOf[b]
          /\ state[b] = "swept" =>
                 state'[b] = "swept" /\ leaseOf'[b] = leaseOf[b]]_vars

\* A block with a live lease is not given to anyone else: the step that
\* issues a lease takes the lowest block that has no live lease and has not
\* been swept, reclaimed already or not.
Available(b) == state[b] # "swept" /\ ~Live(leaseOf[b])

LeasesLowestAvailable ==
    [][nextId' # nextId =>
          LET b == lease'[nextId].block
          IN  Available(b) /\ \A c \in Blocks : c < b => ~Available(c)]_vars

-----------------------------------------------------------------------------
(* The promise *)

\* The registry seen from outside: a block is held while its lease is live.
Holder == [b \in Blocks |-> IF state[b] = "leased" /\ lease[leaseOf[b]].left > 0
                            THEN leaseOf[b] ELSE NoLease]
Owner == [i \in Issued |-> lease[i].worker]
SweptBlocks == {b \in Blocks : state[b] = "swept"}

Ledger == INSTANCE LeaseLedger
            WITH holder <- Holder, issued <- nextId - 1,
                 owner <- Owner, done <- SweptBlocks

\* Reclaiming late, inside whichever method runs next, is indistinguishable
\* from ending every hold at its deadline: no method lets a caller use, keep
\* or revive an expired lease that nobody has reclaimed yet.
ImplementsLedger == Ledger!Spec

=============================================================================
