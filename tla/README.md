# TLA+ models of secp256k1-oxide-search

The repository searches an interval of the secp256k1 keyspace for a known test
key.  A coordinator (Python, threads, TCP) leases blocks of the interval to worker
processes; kernels (CUDA, Rust, Python references) do the elliptic-curve work.
This directory models the program's own logic in TLA+, checks the models on small
instances with TLC, and proves the main facts about them with TLAPS.

## 1. Inventory

| part | source | state | operations | what makes it correct |
|---|---|---|---|---|
| Range registry | `orchestrator/coordinator/registry.py` | the grid of blocks (state, lease), the table `_leases_by_id`, the id counter, the clock | `lease_block`, `ack_lease`, `renew_lease`, `mark_swept`, `release_worker`, `reclaim_expired`, introspection (which reclaims too) | leases disjoint; an expired lease is dead for every method; a block is SWEPT only by its live holder; table and blocks agree |
| Coordinator server | `orchestrator/coordinator/server.py` | `found`, `allocator.halted`, `coverage`, `coverage_conflict`, `workers`; one handler thread per connection, acceptor, reaper | handlers of Hello, WantLease, LeaseAck, Heartbeat, Swept, Found, DpBatch, Goodbye; the `finally` block; `stop` | FOUND latched once and stops leasing; nobody left waiting; no coverage lost; a dead worker's block comes back |
| Worker | `orchestrator/worker/worker.py`, `stub_kernel.py`, `__main__.py` | socket, local loop variables | `connect`, `run`, heartbeats, `close` | request and answer in step; stops only when nothing is left to do |
| Wire protocol | `orchestrator/proto.py` | the two byte streams | `encode`, `_recv_exact`, `read_msg`, `send_msg` | messages come out once, in order, and on an untorn stream all of them |
| DP store | `orchestrator/coordinator/dp_store.py` | points by x, collisions | `add_batch`, `observed_dp_rate` | a tame and a wild point at one x are always noticed; what is reported is the key |
| Allocator | `orchestrator/coordinator/allocator.py` | arms, `halted` | index of an arm, `allocate`, `halt` | never a worse arm while a better one is at hand; nothing after halt |
| Kangaroo | `kernels/kangaroo/kangaroo_ref.py`, `kangaroo_negmap_ref.py`, `kangaroo.cu` | herds (point, distance), DP table, the host's round loop | init, walk, negation-map walk with escape, pairing, verify | point = distance * G along every walk; a pair solves the key; walks do not get stuck |
| Field, curve, scan kernels | `kernels/cuda-ref/*`, `kernels/oxide-ec/src/*` | limbs, projective points, scan batches | field add/mul/fold/inverse, point add/double/mul, batch inversion, scans | agree with modular arithmetic and the group law, also at the edges |
| Hashes | `hash.cuh`, `hash.rs` | none | SHA-256, RIPEMD-160 | published vectors |
| Toy quantum ECDLP | `research/quantum-toy/shor_toy_ecdlp.py` | none | small-curve group law, oracle, `recover_d` | the recovery inverts the oracle |

Interactions.  Workers and handlers exchange messages over TCP; handler threads,
the reaper and callers of the coordinator's methods share the registry (one lock)
and the server's state (another lock, never held together with the first).  The
kernels share no state with the coordinator: the worker runs the stub kernel.

Hard behaviours: handlers take several critical sections per message; leases
expire between any two of them; expired leases are reclaimed lazily, by whichever
method runs next; workers die, give up waiting, go silent or come back under their
old id; messages of a dead worker are still read; reads and sends time out in the
middle of a frame; `stop()` closes everything under running handlers.  `PROJECT.json`
lists the hazards line by line.

## 2. Modules

| module | models |
|---|---|
| `KeyGrid` | the blocks of a keyspace in closed form |
| `GridLoop` | the loop of `RangeRegistry.__init__`, iteration by iteration, for every small keyspace |
| `RangeRegistry`, `MCRangeRegistry` | the registry: one action per public method; the MC module runs the loop first, then the methods |
| `LeaseLedger` | the abstract promise of the registry |
| `Coordinator`, `MCCoordinator`, `MCRestart` | server, workers and connections around one registry (`Reg == INSTANCE RangeRegistry`) |
| `Framing` | one direction of a connection as a byte stream under `send_msg` and `read_msg` |
| `Channel` | the abstract promise of that direction |
| `DPStore` | the store of distinguished points |
| `DPIngest`, `MCDPIngest` | a connection, its handler and the store: `Framing` and `DPStore` composed |
| `SmallCurve` | the kernels' point formulas, on a curve over a small field |
| `Kangaroo`, `MCKangaroo` | `kangaroo.cu`, both builds: herds, launches, report buffer, host tables |
| `KangarooRef`, `MCKangarooRef` | the two Python references, plain and with the negation map |
| `FieldLimbs` | field addition, subtraction and multiplication with the carries of their passes |
| `KernelCalls` | one call of a kernel routine, against what the routine is for |
| `Allocator`, `ShorToy` | operators: the allocator's choice of an arm; the classical half of the toy quantum ECDLP |
| `PureCalls`, `MCPureCalls` | `KernelCalls` and calls of the scans, the allocator and the toy |
| `GridLoop_proofs`, `RangeRegistry_proofs`, `Coordinator_proofs`, `DPIngest_proofs`, `PureCalls_proofs`, `Kangaroo_proofs`, `KangarooRef_proofs` | the proofs about the module each is named after; `DPIngest_proofs` has those about `Framing` and `DPStore` too |
| `Numbers_proofs` | lemmas about numbers that several of them use: least elements, induction, recursive functions, remainders, products, Fermat's theorem |

### RangeRegistry
Each public method holds the registry's lock throughout, so it is one action, with
the reclaim it starts with inside it: `ReclaimedState`, `ReclaimedLeaseOf` and
`ReclaimedTable` are the values after `_reclaim_expired_locked`.  `release_worker` is
the one method that does not reclaim.  The `Lease` objects, which the code shares
between the block and the table, live in `lease`, indexed by id; `leaseOf` and
`leasesById` are the two references.  A lease carries `left`, the ticks to its
deadline, since the code only compares the clock with `expires_at`.  Left out because
nothing reads them: `leased_at`, `acked`, `lease.state`, the lists of indices that the
methods return.

`LeaseLedger` knows only holders, owners and finished blocks; a hold lapses at its
deadline.  `ImplementsLedger` says that lazy reclaim cannot be told from this.

### Coordinator
An action is one critical section, joined by the handler's local work before it.
`handlerAt` says where a handler stands between two sections: `OnWantLease` (test of
the latch), `Grant`/`GrantNone` (`lease_block`), `Refuse` (`is_exhausted`); `OnSwept` or
`OnFound`, then `RecordCoverage`; `OnGoodbye`, `OnConnectionLost` or `EndLoop`, then
`Cleanup` (the `finally` block).  A process is an element of `Procs` together with its one
connection; a restart is another element with the same `WorkerId`.  Each direction of a
connection is a FIFO of messages, which is what `Framing` shows of an untorn one.  `Crash`
kills a process at any moment; its messages stay readable, and its connection may stay silent
for ever.  `OnConnectionLost` ends the loop of any handler that is reading, whether its process is dead or
alive: a reset, or bytes that are no message, as after a torn frame, break the loop for both, and
the `finally` block then frees the leases.  A live process goes on and finds its connection closed
when it next uses it (`Disconnected`).  `TimeOut` is the worker's socket time-out, after which
`close` still says Goodbye.

`Stop` is `stop()`: the flag ends the reaper's loop at once and each handler's loop before
its next read (`EndLoop`); what a handler has read by then it still handles.  A
process whose handler has ended finds its connection closed (`Disconnected`).  `MayStop`
is TRUE in `MCCoordinatorLive`, where it matters: after it nobody reaps, and the leases
have to come back through the `finally` blocks.

The messages carry lease ids; block index and bounds, which the code sends along, are
those of the lease.  `sweep_block` is one step, `ReportSwept` or `ReportFound`, depending on
whether the target lies in the block.  The target is chosen in `Init` (`target`).
Left out: telemetry stored from heartbeats and never read, `_lease_owner` (never read),
the list of connections, key counts' use in displays.

### Framing
The stream is a sequence of bytes `<<i, o>>`, byte `o` of the frame of the i-th message.
`Push(k)` moves any number of bytes into a connection of `BufferSize`; `RecvSome(k)` is a
`recv` that returns a part of what `_recv_exact` wants, and `RecvHeader`/`RecvPayload` the one that
completes it.  A header or payload that is made of other bytes, as after a torn frame,
decodes to any length or to garbage, which raises.  A time-out is possible exactly where the
code has one: a read finds no byte, a send finds no room.  What follows differs by
`side`: the handler reads again, with the chunks lost; the worker leaves; a
failed heartbeat is ignored; a failed send otherwise ends in `close`, which still sends a
Goodbye.  `torn` records that bytes were lost in mid-frame; nothing reads it but the
properties.

`Channel` knows messages only: they are delivered at most once and in order, and without
gaps while the stream is intact.

### DPStore and DPIngest
`add_batch` holds the store's lock for the whole batch; the model inserts it point by
point, so that the early ends (`RaiseBadKind`, `Collide`) leave what they leave, and lets no
other call in between (`Free`).  `inserted` and `reported` are history.  Arrival times and
worker ids of records are left out, as is the solve callback, which no caller passes.

`DPIngest` joins the handler's `RecvPayload` with its `DP_BATCH` branch (`HandleMessage`); the exception
of a bad kind ends the handler (`RaiseEndsHandler`).  Points are positions on the line of
discrete logarithms; x identifies a position and its mirror image, as on the curve.  No
worker in the repository sends batches: the stub kernel has none, so their contents
(`BatchOf`) are what the store's own documentation describes, and walks on the mirrored
side as in the negation-map references.

### Kangaroo
`SmallCurve` has the formulas of `secp256k1_ec.cuh` and `secp256k1_affine.cuh` with the field as
residues; none of them depends on the size of the field, so a curve of 199 points meets
doubling, inverse points, infinity and the sentinel (0,0), from which the walk goes on with
the kernel's formula, off the curve too.  `Step(g)` is one step of one kangaroo: jump, distance,
sign, canonical point, report.  Steps of different kangaroos commute except in the report
buffer, so their interleavings cover the batched kernels, which add with a shared inverse
(the same sums: `WalkEmitsKeys`), and the single one.  `px` is global memory between launches,
`pt` the threads' copy.  `build` selects the file compiled with or without NEGMAP.  `Join` handles one
report of the buffer as the host's loop does; the first pair that gives a key in range ends the
program, right or wrong.  What the kernels look at of an x (jump index, distinguished points,
cycle detection) is its low limb, `Low`; the tables use all of it.

Abstractions: a herd below the code's minimum of 64, four jump scalars for 32, `Limb` 64 for 2^32;
the sizing of herd, steps and budget from the interval is given by constants; distances stay
below half of the group order (`KangarooAssumption`), as real ones do, and never wrap.
`GroupAssumption` is what the formulas owe to the theory of elliptic curves (`GroupLaws`): they add
multiples of G as `Z_N` adds, and no third point has the x of a point and its negative.
TLC evaluates it on the curve of each run; `FormulasObeyLaws` derives it from two facts of the textbooks.

### KangarooRef
The references are sequential: `turn` walks round the tame and then the wild kangaroos and
`Move(i)` is the whole body of the loop for one of them: window, escape or jump, fold, the look-up
in the other table, the check of the candidate, the entry in its own table.  The group is
the library coincurve's, so a point is its discrete logarithm; x and parity come from
`SmallCurve`.  `Escape` finds the least x on the cycle by walking round it, as `_escape` does.  The
point at infinity has no coordinates and `_xy` raises: the outcome is then "crashed".  Herd
size, jumps and budget are constants, and `GroupAssumption` is as in `Kangaroo`.

### FieldLimbs, KernelCalls and PureCalls
A pass over the limbs with carry is one addition modulo `Modulus` and a carry out, so a routine
is a few lines; where its carries go is kept.  `FieldAssumption` is what makes each fold leave
few bits.  `KernelCalls` makes one call a behaviour, for every operand of the bounds, and
compares with reference definitions: modular arithmetic, chords and tangents, multiples of G
by repeated addition.  Inverses are not taken on limbs; `SmallCurve` has `fe_inv`'s exponentiation.

`PureCalls` adds more code that keeps no state between calls.  `ScanCall` is the fast `mode_scan`
with its window below the key, its order of hashing, both encodings, the found flag, the
63 threads whose start point is whatever lies behind the first one's in memory (`Strays`, points on
the curve or off it; limbs that are not reduced are left out), and what the host makes of the report:
`Verdict` compares the reported word with the key's and says FOUND, FOUND-BUT-MISMATCH or NOT FOUND.
`RefScanCall` is the reference scan, judged in the same way.  A hash of a point is abstracted to its compressed
encoding.  Scalars wrap at `Words`, which like 2^256 is beyond the group order by more than a window.
`ScanFindsKey` says what a scan of a key above `BACK` guarantees: there is a report, and one that is not
FOUND is a stray thread's or names the mirror of the key, `N - key`, or `2N - key` when the scan runs past the
end of the group.  Section 3 says where this is less than the program's comments do.

`AllocateCall` gives `Allocate` every set of arms of the bounds.  Floats are exact fractions and
`exp(-x)` is `2^-x`: of exp the code uses only that it is positive, decreasing and 1 at 0.
Rounding is not modelled.

`ToyCall` runs the vote on every set of pairs that the circuit can measure.  Circuit and simulator are
external: what they return is orthogonal to every period of the oracle's table, which
is modelled and computed.  `ToyMulCall` checks the toy's scalar multiplication on three curves.

## 3. Runs

| run | question | bounds |
|---|---|---|
| `MCRangeRegistry` | does the loop build the fixed, disjoint, covering grid, and is the registry on it safe under any sequence of calls? | loop: every keyspace of up to 9 keys at three origins and every block size up to 10, so that one block, whole blocks and a short last block all occur; methods: 3 blocks, the last one short; TTL 2; 2 workers; 4 leases, so a block can be leased, lost, and leased again twice beside another; ids include stale and unknown ones |
| `MCCoordinator` | do server, workers and registry stay consistent in every interleaving and failure? | 2 processes, 2 blocks, 2 blocks per process, TTL 1, 4 leases (never reached as a bound); a heartbeat is sent while nothing else is unread |
| `MCCoordinatorLive` | are waiting workers answered and dead holders evicted, also across `stop()`? | 2 processes that compete for 1 block |
| `MCSteady` | does a swarm without failures finish its job, and stop once the key is found? | 2 processes, 3 blocks of 2 keys, the key at either end, in the middle, or absent |
| `MCStopMeansDone` | a comment on NoWork, refuted | as `MCCoordinator` |
| `MCRestart` | does a restarted worker keep its lease? refuted | one block, a worker id run twice, a second worker |
| `MCDPIngest` | do messages survive the byte stream, and is every pair of points noticed? | both directions; headers of 2 bytes, payloads of 1 and 2, 3 bytes in flight; 2 messages and a Goodbye of: heartbeat, tame batch, wild batch, batch with a bad kind; walks at equal and mirrored positions |
| `MCTornFrame` | is a partial read treated as a dropped worker? refuted | as `MCDPIngest` |
| `MCKangaroo` | does the search report the right key, and miss no collision it has? | herds of 2, 3 launches of 3 steps, a report buffer of 2 that overflows, an interval of 7 keys and one key on either side of it |
| `MCKangarooRef` | the same for the references, and do merged walks leave a cycle together? | herds of 2, 12 steps, five small jump tables, intervals of 4, 16 and 31 keys, keys inside and outside |
| `MCPureCalls` | do the stateless routines compute what they are for? | Modulus 256, Prime 249, all pairs; 31 points in 3 scalings, all pairs; all x; a walk of 3 batches of 4 from every key, which passes the end of the group; scans for every key from 2 keys below it, so that a batch runs past it, with every stray point of the curve and three of each x that need not be on it; two brute-force and up to two kangaroo arms; every set of measured pairs for every secret |
| `MCFieldProduct` | is every product exact? refuted | as `MCPureCalls` |

Deadlock checking is off where the system really stops: the grids on which no method is
called end with the loop, the swarm is at rest when every process is gone and every lease
has ended, a connection ends, a search is done, a call has returned.

Bounds, all named: `MaxLeases` (leases issued), `MaxBlocks` (the code's own
`--max-blocks`), `MaxQueue` (no further heartbeat while so many messages are unread), `MaxFrames`
(messages on a connection), `MaxSteps`, `Rounds` (the code's budgets).

### Fairness
`MCCoordinatorLive` assumes weak fairness of each handler thread and each live process
(the operating system runs them), of the reaper (it loops on a timer, until `stop()`) and of
the clock.  Nothing is assumed of `Crash`, `TimeOut`, `OnConnectionLost`, `Stop` or heartbeats: a
process need not stay alive, a dead connection need not ever be noticed, and any connection may fail.  `MCSteady` removes
the faults and the clock: every heartbeat arrives before its deadline.  `MCDPIngest` assumes weak
fairness of the handler thread only; time-outs, senders and deaths are free.

### Findings
* `StopMeansDone`: every NoWork ends a worker, also `no_free_block`, which a worker gets
  while others hold leases.  If a holder then dies, its block returns to FREE with nobody
  left to sweep it (`worker.py:103-105`).
* `SweeperKeepsLease` in `MCRestart`: the `finally` block releases by worker id, so the handler of
  a worker's first process takes the lease of its second (`server.py:219-221`).
* `PartialReadDropsWorker` in `MCTornFrame`: the handler's read times out after a second without a
  byte, also in the middle of a frame, drops the bytes it had and reads on (`server.py:194`), where
  `proto.py:103-104` has a partial read treated as a dropped worker.  The next length comes from
  inside the frame.  `ImplementsChannel` shows how far the damage goes: messages are lost, none
  is invented, repeated or reordered, as long as a misread frame does not decode.
* `ProductExact` in `MCFieldProduct`: the carry out of the pass that adds `e*977` is added at the weight
  2^32 only, so the product is 977 short (`secp256k1_field.cuh:211`, `field.rs:202`).  The operands in
  `PROJECT.json` show it at the code's own size; for random operands the chance is about 2^-213.
  `ProductOrOneFoldShort` says that nothing else goes wrong.

Noticed on the way, and no run of their own:

* `_on_swept` ignores the result of `mark_swept`, so a late report is logged; when the block has
  been leased again, `coverage_conflict` is raised although no two leases overlapped
  (`server.py:281-287`).  `ConflictMeansLeasedTwice` is what does hold.
* `_on_want_lease` tests the latch under one lock and takes the lease under another, so a handler
  between the two hands out one more lease after FOUND (`server.py:249-254`), where `server.py:9` and `247`
  say that leasing stops.  `FoundEndsSweeping` says what this may cost: each process at most the
  block it had asked for.
* In `kangaroo.cu` a kangaroo leaves a 2-cycle from the point where it entered it, since the test looks
  at its own memory (`370`); two that entered at different points leave from different points by
  different jumps, where `335-336` says that they merge.  With TLC we saw it for jumps 2, 3, 5, 6 and
  `Limb` 256 on the curve of `MCKangaroo`.  The Python reference's escape does merge them: `EscapesTogether`.
* The store takes the difference of distances for the key (`dp_store.py:115`).  For walks at opposite points,
  which share an x, it is not, where `dp_store.py:6-8` says that a collision yields the key; `MCDPIngest` has
  such walks.  The Python references keep the sign for this.
* The fast `mode_scan` launches 64 threads on one start point (`secp256k1_fast.cu:507`, `521`), and a stray thread
  may report the key first, under a number of its own.  For keys up to `BACK` the window begins at zero
  or wraps below it (`497`), and the scan ends NOT FOUND.  The NEGMAP build records `k` for a match of the
  mirror side and compares `k`, not `n-k`, with the key (`535`), so the scan's own match there always
  ends FOUND-BUT-MISMATCH.  `ScanFindsKey` is what is left.
* The negation-map walk can stand on the sentinel (0,0), which `secp256k1_affine.cuh:33` says a walk
  never stores; `Bookkeeping` holds there all the same.  The negation-map reference raises
  at infinity.

## 4. Proofs

`GridLoop_proofs`: the inductive invariant says that after `idx` iterations `cur` is the start
of block `idx` (or `hi`) and the blocks built are those of `KeyGrid`; disjointness then is
`GridDisjoint`, arithmetic on closed forms, and coverage follows at the exit.

`RangeRegistry_proofs`: `IInv` is type correctness, `TableMatchesBlocks` and `LeaseFitsBlock`.
Disjointness of leases is not inductive alone: a method that finds a lease through the
table writes the block, so one must know that the table's leases are exactly those of
the LEASED blocks.  The lemmas show that a reclaim preserves `IInv` and then that each method
does from a reclaimed state.  From `IInv` follow `TableMatchesBlocks`, `DisjointLeases` (two leases in the
table are on different blocks, whose intervals are disjoint by `GridDisjoint`), `NoSweptMismatch`, the
action properties, and the refinement: a tick maps to a lapse of the holds that reach their
deadline, every reclaim to a stutter, every method to the ledger's step or to a stutter.
The only assumptions are those of `RegistryAssumption` (what `__init__` enforces).

`Coordinator_proofs`: every lease id the server acts on comes from a message a worker made of a lease
it got, or from the registry's own table, so it has been issued, and each critical section is a
call of one registry method (`SwarmDrivesRegistry`).  By that refinement the registry's `IInv` holds in the
swarm, and with it `SwarmLeasesDisjoint`.  The other theorems rest on `TypeInv` and one strengthening each:

- `AnswersFitRequests` (`InStep`, `Dialogue`): as long as its handler is in its loop, of request, handler at work on it and answer there is exactly
  one while a process waits and none otherwise, and what a process awaits is of the kind it asked for.
  `stop()` closes a connection under a waiting process, hence `~stopped` in the property.
- `FoundRetiresWorkers` (`Retired`): a process that waits for nothing has, by `Dialogue`, no lease on its way to it
  and no handler past the latch; after FOUND only such a handler could grant one, and none gets there again.
- `SweptReachesLog`: only `OnSwept` retires a block, and nothing takes a handler away from "record".
- `KeyNeverWrittenOff` (`KeyBlockOpen`): no process reports the key's block swept and no message in
  flight says so, hence the registry does not retire it and is never exhausted.
- `OneSweeperIsBacked` (`OneHolder`): one process at most has to do with a lease, in one of four ways: the
  lease is on its way to it, it sweeps, its report is in flight, or its handler is about to
  log that report; and a live lease is the one its block names
  (`TableMatchesBlocks`), so two processes on one block are not both backed.
- `ConflictHasCause` (`LoggedBySpent`): a block that is in the log got there by a lease that nobody has to do
  with any more, and with the one being logged its handler still has, so the two differ.
- `SweeperKeepsItsLease`: what takes a lease out of the table is a reclaim, a report of that very lease
  (which its one holder does not send before its sweep is over) or the `finally` block of its worker id.
  The theorem speaks of a process whose own handler is in its loop: when its connection fails, that handler's
  `finally` block takes the lease while the process sweeps on.  It assumes that no two processes share a
  worker id; `MCRestart` shows that without this the property fails.

They assume `CoordinatorAssumption`: what `RegistryAssumption` asks, and a registry bound `MaxLeases` no run reaches.

`DPIngest_proofs`: that the framing implements the channel (`FramingIsChannel`) rests on the bytes the
reader still has before it, the chunks in `got` and then the stream.  Each belongs to a message of
which so much was pushed, they come in order, and all come after the last message returned; while
nothing is torn they also run without a gap from the byte the reader expects to the one
`sendall` pushes next.  A step of the reader takes bytes from the front and one of the sender
adds some at the end; a lost chunk, a frame given up or a false length costs only "no
gap".  The handler takes steps of this reader only, so the whole implements the channel (`IngestIsChannel`)
and does to the store nothing that `StoreSpec` does not.  A pair may arrive over many batches that other
errors and collisions cut short, and the store keeps only the first point at an x.
`FirstIsKept` is the strengthening: every point ever inserted has a stored point at its x, of its own
kind unless a collision at that x has been reported.  Two points of different kinds cannot
both agree with the one stored (`IngestReportsPairs`).

`PureCalls_proofs` shows the stateless routines right for every value of the constants.

- Limbs: `fe_add` and `fe_sub` are exact for every limb size, number of limbs and Fold,
  from `FieldAssumption` alone: a remainder within one modulus of the range is a case distinction
  (`ModNear`), and after the folded carry of a sum of two residues there is no second one.
  For the product (`LimbMulOneFoldShort`), each pass of `fold_product` replaces a multiple `m*q` of the
  modulus by `q*Excess`, which is congruent; bounds on what is left after each pass show that only
  the carry of the pass with `e*977` can be added at too small a weight, that it is at most one, and that
  nothing wraps after it.
- Field: `FeInv` and `FeSqrt` are the code's square-and-multiply chains.  `PowIsPower` shows that they are powers,
  Fermat's theorem (in `Numbers_proofs`: the multiples of a nonzero residue permute the nonzero residues,
  so both products agree) that the first is the inverse and the second a root of every square.
- Points: `JacobianAdds` and `AddsAreGroupLaw` compare `jpoint_add` with chords and tangents.  Each branch comes
  down to polynomial identities modulo P, once the slope times its denominator replaces the quotient.  `DecompressIsRight` follows from the square root and from P being odd.
- Walks: `Stands` relates a Jacobian point to the affine one it stands for.  Double-and-add gives the
  multiples of G (`MulGIs`).  The shared inverse of a batch is right for every slot, also where the code
  puts a 1 for a vanishing difference (`Factor`): by induction the k-th partial product is that of the first k
  factors, and on the way back what is left is its inverse.  So each step is the group's sum and, batch after
  batch, each slot the multiple of its key (`WalksEmitKeys`).  `FormulasObeyLaws` draws from the same
  lemmas all that `Kangaroo` and `KangarooRef` assume as `GroupLaws`.
- Scans: `ScansFindKey` needs in addition that encodings tell multiples of G apart.  The key is in the
  first batch, so the scan's own thread has a hit and the host a report.  The first hit in the code's order
  of hashing is the key or its mirror, each perhaps a whole group further on; the first gives the
  verdict FOUND, and every mismatch is the second or a stray thread's.
- Allocator: `AllocateFunds` rests on the comparison of exact fractions being a total order, so that a finite
  set of candidates has a best one, and on each index growing with the prize and falling with range and
  contention.  `AllocatesWell` is the same of every call.

The curve's part assumes `CurveAssumption` (a prime P that is 3 modulo 4, an odd N, and G on the curve),
`AxesAssumption` (no point on an axis: 7 is no square and -7 no cube, true of secp256k1) and
`GroupAssumption` of `KernelCalls`: adding G by chords and tangents is associative, and G has order N.  These are
textbook facts about the curve and say nothing of the code; TLC evaluates them on the curve of the run.
Associativity for every curve is a computation with rational functions that is out of the solver's reach.

`Kangaroo_proofs`, in both builds unless said otherwise:

- `ReportsArrive` (`OnItsWay`): a distinguished point at which a launch ends is in the buffer or its herd's
  table, unless the buffer was full.
- `SearchIsSound`: as long as no kangaroo has been at infinity, each stands on `LogPoint` of its
  sign and distance; then so does every report and every table entry.  Two entries of one x are the
  same point or opposite ones (`GroupLaws`), and as distances are below half of the order the
  difference that the host solves is an equation of integers: the candidate is the key and an x
  in both tables has ended the search.  The condition is there because the negation-map walk may get to infinity,
  which the kernel stores as the sentinel (0,0); from there its formula goes on off the curve, where
  nothing is known of the points.
- `PlainSearchIsSound`, `PlainBuildFindsKey`: without NEGMAP distances only grow and for a key in the interval
  never add up to a multiple of the order, so the condition always holds.  A run of the
  plain build on a key outside the interval can report a false candidate: a key of 179, with 199 points,
  `Lo` 3, `W` 10 and jumps 1, 3, 2, 4, has a tame and a wild kangaroo on opposite points.
  `CandidateIsKey` therefore speaks of keys of the interval, and of all keys with the negation map.

`KangarooRef_proofs`: `BookkeepingHolds` follows a point, sign and distance through jump, fold and escape; an escape
walks round a cycle of any length, so it needs an induction along that walk (`WalkIsBacked`).
`NoMeetingIsMissed` solves the same equation as above and needs the distances below half of the order
(`DistancesFit`).  `DistancesStayFit` proves that by the longest way a kangaroo can have gone
after its turns: in the plain reference from `KangarooRefAssumption`; with the negation map, where a
turn may be an escape after up to `MaxCyc` jumps, under `RoomToEscape`.  The reference's own sizes satisfy
it by many orders of magnitude; the 199 points of `MCKangarooRef` do not, and there it is TLC that
checks `NoMeetingMissed`.
`EscapesMerge` (`WindowInv`): a kangaroo has walked on, without an escape, from every point whose x is in
its window, or else that point lies itself on a cycle no longer than the window.  So a repeat in the
window is always the return of the walk to where it stands.
The points met on a way round a cycle are the same set wherever one enters it, and as the walk
keeps to one of P and -P no two of them share an x: the point of least x, and with it the
escape, is the same from everywhere on the cycle.

`Numbers_proofs`: the library's induction theorems take a predicate as a parameter, which the installed provers
cannot instantiate.  Induction over a set of numbers can be cited; it follows from the existence of
least elements, and that from the well-foundedness of proper inclusion of finite sets.
That a function defined by recursion on the naturals exists and obeys its equation is `Recursion`, proved once
from the parts of it on 0 .. n.

Model-checked only: `ToyRecovers` (one fixed instance of the toy, which TLC checks exhaustively, and scalar
multiplication on three curves: the toy's recursions take several arguments at a time); the
violations of the runs that refute something; in `Kangaroo` the negation-map build after a kangaroo has been at
infinity; and every liveness property (TLAPS does not reason about fairness and ENABLED).

## 5. Not modelled, and the plan

What is left to prove: `ToyRecovers` for curves other than the toy's; associativity of the chord-and-tangent law.

What is left to model: the constructors of arms in the allocator, the launches of the Rust
`main.rs`, the choice of herd, jumps and budgets from the interval in the kangaroo programs, and
messages too large for msgpack's integers.

Not planned: the hash functions (fixed bit-level functions, tested against vectors),
the known-answer oracle (an independent reference for tests), the quantum state
simulation (numerical), the verify and bench harnesses of the kernels, process spawning and timing of
the benchmark.
