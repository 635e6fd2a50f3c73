------------------------------- MODULE DPStore -------------------------------
(***************************************************************************)
(* orchestrator/coordinator/dp_store.py: the store of distinguished points *)
(* of the coordinator, keyed by x.  A batch is inserted point by point     *)
(* under the store's lock, so batches of different connections never mix;  *)
(* batch holds what the lock's owner has still to insert.                  *)
(***************************************************************************)
EXTENDS Integers, Sequences

CONSTANTS Xs,      \* x-coordinates
          Dists,   \* walk distances, as the workers report them
          BadKind  \* a kind that is neither "tame" nor "wild"

ASSUME DPStoreAssumption ==
    /\ Dists \subseteq Int
    /\ BadKind \notin {"tame", "wild"}

Kinds == {"tame", "wild"}
Points == [x : Xs, kind : Kinds \cup {BadKind}, dist : Dists]

VARIABLES
    byX,        \* self._by_x, as a function on the x-coordinates stored
    collision,  \* self._collision, or NoCollision
    dpCount,    \* self._dp_count
    batch,      \* the points that add_batch has still to insert
    \* History.
    inserted,   \* every point of a good kind that add_batch has looked at
    reported    \* every x at which a collision has been returned

storeVars == <<byX, collision, dpCount, batch, inserted, reported>>

NoCollision == [x |-> "none"]

StoreInit ==
    /\ byX = <<>>
    /\ collision = NoCollision
    /\ dpCount = 0
    /\ batch = <<>>
    /\ inserted = {} /\ reported = {}

Free == batch = <<>>
Point == Head(batch)
Prior == byX[Point.x]
Known == Point.x \in DOMAIN byX

\* add_batch takes the lock, with any one of some batches.
AddBatch(choices) ==
    /\ Free
    /\ batch' \in choices
    /\ UNCHANGED <<byX, collision, dpCount, inserted, reported>>

\* Every point is counted, before anything is known of it.
Take == ~Free /\ dpCount' = dpCount + 1

GoodPoint == Take /\ Point.kind \in Kinds /\ inserted' = inserted \cup {Point}

\* The rest of the batch is dropped with the exception; what was inserted stays.
RaiseBadKind ==
    /\ Take
    /\ Point.kind \notin Kinds
    /\ batch' = <<>>
    /\ UNCHANGED <<byX, collision, inserted, reported>>

InsertNew ==
    /\ GoodPoint
    /\ ~Known
    /\ byX' = [x \in DOMAIN byX \cup {Point.x} |-> IF x = Point.x THEN Point ELSE byX[x]]
    /\ batch' = Tail(batch)
    /\ UNCHANGED <<collision, reported>>

\* Mutant: whatever comes to a known x is taken for a fruitless cycle.
SkipRehit_AnyKind ==
    /\ GoodPoint
    /\ Known
    /\ batch' = Tail(batch)
    /\ UNCHANGED <<byX, collision, reported>>

\* A point of the same kind at a known x: the earlier one stays.
SkipRehit ==
    /\ GoodPoint
    /\ Known /\ Prior.kind = Point.kind
    /\ batch' = Tail(batch)
    /\ UNCHANGED <<byX, collision, reported>>

\* Mutant: the collision is returned and not kept.
Collide_NotKept ==
    /\ GoodPoint
    /\ Known /\ Prior.kind # Point.kind
    /\ reported' = reported \cup {Point.x}
    /\ batch' = <<>>
    /\ UNCHANGED <<byX, collision>>

\* A point of the other kind: add_batch returns, and drops what is left of
\* the batch.  No caller passes a solve callback.
Collide ==
    /\ GoodPoint
    /\ Known /\ Prior.kind # Point.kind
    /\ LET tame == IF Prior.kind = "tame" THEN Prior ELSE Point
           wild == IF Prior.kind = "tame" THEN Point ELSE Prior
       IN  collision' = [x |-> Point.x, tame |-> tame, wild |-> wild,
                         key |-> tame.dist - wild.dist]
    /\ reported' = reported \cup {Point.x}
    /\ batch' = <<>>
    /\ UNCHANGED byX

\* observed_dp_rate: the count becomes a rate, and starts again.
ObservedDpRate ==
    /\ Free
    /\ dpCount > 0
    /\ dpCount' = 0
    /\ UNCHANGED <<byX, collision, batch, inserted, reported>>

InsertStep == InsertNew \/ SkipRehit \/ Collide

StoreNext ==
    \/ AddBatch(Seq(Points))
    \/ InsertStep
    \/ RaiseBadKind
    \/ ObservedDpRate

StoreSpec == StoreInit /\ [][StoreNext]_storeVars

-----------------------------------------------------------------------------
(* Properties *)

Records == [x : Xs, kind : Kinds, dist : Dists]
Collisions == [x : Xs, tame : Records, wild : Records, key : Int]

TypeOK ==
    /\ DOMAIN byX \subseteq Xs
    /\ \A x \in DOMAIN byX : byX[x] \in Records /\ byX[x].x = x
    /\ collision = NoCollision \/ collision \in Collisions
    /\ dpCount \in Nat
    /\ batch \in Seq(Points)
    /\ inserted \subseteq Records
    /\ reported \subseteq Xs

\* A tame and a wild point at one x are a collision that some add_batch has
\* returned, whichever came first, in one batch or in two, and whatever other
\* points came to that x before and between (the store keeps only the first).
PairsAreReported ==
    \A p, q \in inserted : p.x = q.x /\ p.kind # q.kind => p.x \in reported

=============================================================================
