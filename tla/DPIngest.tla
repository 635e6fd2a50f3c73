------------------------------ MODULE DPIngest ------------------------------
(***************************************************************************)
(* Distinguished points on their way from a worker's walk into the store:  *)
(* the byte stream of Framing, the handler of server.py at its end, and    *)
(* the DPStore that _on_dp_batch feeds.                                    *)
(*                                                                         *)
(* A walk stands at a position, the discrete logarithm of its point: a     *)
(* tame one at its distance, a wild one at its distance from the key, or   *)
(* from minus the key where a worker's walk runs on the mirrored side of   *)
(* the negation map.  P and -P have the same x; the wire carries x, kind   *)
(* and distance, and not the side.                                         *)
(***************************************************************************)
EXTENDS Framing, DPStore

CONSTANTS Key,      \* the key of the attacked point
          BatchOf   \* the walk points of each DPBatch message

Walks == [kind : Kinds \cup {BadKind}, side : {1, -1}, dist : Dists]

AbsVal(n) == IF n < 0 THEN -n ELSE n
Position(w) == IF w.kind = "wild" THEN w.side * Key + w.dist ELSE w.dist
Wire(w) == [x |-> AbsVal(Position(w)), kind |-> w.kind, dist |-> w.dist]

ASSUME DPIngestAssumption ==
    /\ Key \in Nat
    /\ DOMAIN BatchOf \subseteq Messages \ ({Goodbye} \cup Heartbeats)
    /\ \A m \in DOMAIN BatchOf :
        /\ BatchOf[m] \in Seq(Walks)
        /\ \A k \in DOMAIN BatchOf[m] : Wire(BatchOf[m][k]).x \in Xs

PointsOf(m) == [k \in DOMAIN BatchOf[m] |-> Wire(BatchOf[m][k])]

allVars == <<vars, storeVars>>

IngestInit == Init /\ StoreInit

\* read_msg returns, and the handler runs its branch.  A worker, at the end of
\* the other direction, has no store.
HandleMessage ==
    /\ Free
    /\ RecvPayload
    /\ LET m == sent[Last(read')]
       IN  IF m \in DOMAIN BatchOf /\ side = "toServer"
           THEN AddBatch({PointsOf(m)})
           ELSE UNCHANGED storeVars

\* The ValueError of add_batch is caught nowhere: the handler's finally block
\* runs and its thread ends.
RaiseEndsHandler ==
    /\ RaiseBadKind
    /\ ReaderLeaves

ReadOn ==
    /\ Free
    /\ \/ \E k \in 1 .. BufferSize : RecvSome(k)
       \/ RecvHeader \/ RecvGarbage \/ RecvEof
    /\ UNCHANGED storeVars

Insert == InsertStep /\ UNCHANGED vars

HandlerStep == ReadOn \/ HandleMessage \/ Insert \/ RaiseEndsHandler

IngestNext ==
    \/ HandlerStep
    \/ Free /\ (ReadTimesOut \/ ReaderLeaves) /\ UNCHANGED storeVars
    \/ SenderStep /\ UNCHANGED storeVars
    \/ ObservedDpRate /\ UNCHANGED vars

IngestSpec == IngestInit /\ [][IngestNext]_allVars /\ WF_allVars(HandlerStep)

-----------------------------------------------------------------------------
(* Properties *)

\* A message whose every byte was pushed.
Complete(i) == i < Len(sent) \/ (i = Len(sent) /\ i > 0 /\ senderAt # "sending")

HasPair(i, j) ==
    \E p \in Range(PointsOf(sent[i])), q \in Range(PointsOf(sent[j])) :
        p.x = q.x /\ p.kind = "tame" /\ q.kind = "wild"

\* A tame and a wild point at one x, both sent whole on an untorn connection,
\* end in a collision, unless the handler is gone before it has read both.
PairIsNoticed ==
    \A i, j \in 1 .. MaxFrames :
        (/\ Complete(i) /\ Complete(j) /\ ~torn /\ side = "toServer"
         /\ {sent[i], sent[j]} \subseteq DOMAIN BatchOf /\ HasPair(i, j))
            ~> collision # NoCollision \/ torn \/ readerAt = "ended"

=============================================================================
