------------------------- MODULE Coordinator_proofs -------------------------
(***************************************************************************)
(* Proofs about the swarm, for every number of processes, blocks and       *)
(* leases.  First the server's use of the registry: whatever its threads   *)
(* do, the registry sees calls of its methods.  Then what spans the        *)
(* registry's lock and the state lock.                                     *)
(***************************************************************************)
EXTENDS Coordinator, FiniteSetTheorems, TLAPS

HandlerAts == {"none", "read", "grant", "refuse", "record", "cleanup", "ended"}

\* The registry's share of the type invariant, as far as the server relies on it.
RegistryType ==
    /\ nextId \in Nat \ {0}
    /\ leasesById \subseteq Reg!Issued
    /\ lease \in [Reg!Issued -> Reg!Lease]
    /\ state \in [Blocks -> Reg!LeaseState]

LEMMA IdInWorkers == \A c \in Procs : IdOf(c) \in Workers
BY CoordinatorAssumption DEF IdOf

\* The steps of the swarm that call the registry.
LEMMA StepCallsRegistry ==
    ASSUME RegistryType, [Next]_vars
    PROVE  [Reg!Next]_(Reg!vars)
<1> USE DEF Reg!vars, registryVars
<1>1. ASSUME NEW c \in Procs, ClientStep(c)
      PROVE  UNCHANGED registryVars
  BY <1>1 DEF ClientStep, Connect, ReadWelcome, AskForLease, ReachMaxBlocks, ReadLease,
     ReadNoWork, ReportSwept, ReportFound, Disconnected, Leave
<1>2. ASSUME NEW c \in Procs, HandlerStep(c)
      PROVE  [Reg!Next]_(Reg!vars)
  <2>1. IdOf(c) \in Workers
    BY IdInWorkers
  <2>2. ASSUME NEW i, \/ Reg!AckLease(i, IdOf(c)) \/ Reg!RenewLease(i, IdOf(c))
                      \/ Reg!MarkSwept(i, IdOf(c))
        PROVE  Reg!Next
    <3>1. i \in leasesById
      BY <2>2 DEF Reg!AckLease, Reg!RenewLease, Reg!Rearm, Reg!MarkSwept, Reg!Known,
         Reg!ReclaimedTable
    <3>2. i \in Reg!CallerIds
      BY <3>1 DEF RegistryType, Reg!Issued, Reg!CallerIds
    <3> QED BY <2>1, <2>2, <3>2 DEF Reg!Next, Reg!Call
  <2>3. ASSUME NEW i, Reg!Stale(i, IdOf(c))
        PROVE  Reg!Next
    BY <2>3 DEF Reg!Stale, Reg!Next, Reg!ReclaimExpired
  <2>4. CASE OnHello(c) \/ OnWantLease(c) \/ OnFound(c) \/ RecordCoverage(c) \/ OnGoodbye(c)
                \/ EndLoop(c)
    BY <2>4 DEF OnHello, OnWantLease, OnFound, RecordCoverage, OnGoodbye, EndLoop
  <2>5. CASE Grant(c)
    BY <2>1, <2>5 DEF Grant, Blocks, Reg!Next, Reg!Call
  <2>6. CASE GrantNone(c)
    BY <2>1, <2>6 DEF GrantNone, Reg!Next, Reg!Call
  <2>7. CASE Refuse(c)
    BY <2>7 DEF Refuse, Reg!Next
  <2>8. CASE OnLeaseAck(c)
    BY <2>2, <2>3, <2>8 DEF OnLeaseAck
  <2>9. CASE OnHeartbeat(c)
    BY <2>2, <2>3, <2>9 DEF OnHeartbeat
  <2>10. CASE OnSwept(c)
    BY <2>2, <2>3, <2>10 DEF OnSwept
  <2>11. CASE Cleanup(c)
    BY <2>1, <2>11 DEF Cleanup, Reg!Next, Reg!Call
  <2> QED BY <1>2, <2>4, <2>5, <2>6, <2>7, <2>8, <2>9, <2>10, <2>11 DEF HandlerStep
<1>3. ASSUME NEW c \in Procs, SendHeartbeat(c) \/ TimeOut(c) \/ Crash(c) \/ OnConnectionLost(c)
      PROVE  UNCHANGED registryVars
  BY <1>3 DEF SendHeartbeat, TimeOut, Crash, OnConnectionLost
<1>4. CASE Reap
  BY <1>4 DEF Reap, Reg!Next
<1>5. CASE Tick
  BY <1>5 DEF Tick, Reg!Next
<1>6. CASE Stop
  BY <1>6 DEF Stop
<1>7. CASE UNCHANGED vars
  BY <1>7 DEF vars
<1> QED BY <1>1, <1>2, <1>3, <1>4, <1>5, <1>6, <1>7 DEF Next


-----------------------------------------------------------------------------
(* What the server needs to know of a registry method *)

\* Ids stay issued, leases stay with their blocks and workers, the types hold.
RegistryKept ==
    /\ RegistryType'
    /\ Reg!Issued \subseteq Reg!Issued'
    /\ \A i \in Reg!Issued :
          lease'[i].block = lease[i].block /\ lease'[i].worker = lease[i].worker

\* No block is newly SWEPT.
NothingSwept == \A b \in Blocks : state'[b] = "swept" => state[b] = "swept"

LEMMA ReclaimedStateType ==
    ASSUME RegistryType
    PROVE  /\ Reg!ReclaimedState \in [Blocks -> Reg!LeaseState]
           /\ Reg!ReclaimedTable \subseteq Reg!Issued
           /\ \A b \in Blocks : Reg!ReclaimedState[b] = "swept" => state[b] = "swept"
BY DEF RegistryType, Reg!ReclaimedState, Reg!ReclaimedTable, Reg!LeaseState, Blocks

LEMMA OnlyReclaimKeeps == RegistryType /\ Reg!OnlyReclaim => RegistryKept /\ NothingSwept
BY ReclaimedStateType DEF RegistryType, RegistryKept, NothingSwept, Reg!OnlyReclaim,
   Reg!ReclaimTables, Reg!Issued

LEMMA UnchangedKeeps == RegistryType /\ UNCHANGED registryVars => RegistryKept /\ NothingSwept
BY DEF RegistryType, RegistryKept, NothingSwept, registryVars, Reg!Issued

LEMMA LeaseBlockKeeps ==
    ASSUME RegistryType, NEW b \in Blocks, NEW w \in Workers, Reg!LeaseBlock(b, w)
    PROVE  /\ RegistryKept /\ NothingSwept
           /\ nextId \in Reg!Issued' /\ lease'[nextId].worker = w
<1> USE DEF Reg!LeaseBlock
<1>1. nextId' \in Nat \ {0} /\ Reg!Issued' = 1 .. nextId /\ Reg!Issued' = Reg!Issued \cup {nextId}
  BY DEF RegistryType, Reg!Issued
<1>2. Reg!NewLease(b, w) \in Reg!Lease
  BY CoordinatorAssumption DEF Reg!NewLease, Reg!Lease, Blocks
<1>3. /\ lease' \in [Reg!Issued' -> Reg!Lease] /\ \A i \in Reg!Issued : lease'[i] = lease[i]
      /\ lease'[nextId] = Reg!NewLease(b, w)
  BY <1>1, <1>2 DEF RegistryType, Reg!Issued
<1>4. state' \in [Blocks -> Reg!LeaseState] /\ NothingSwept
  BY ReclaimedStateType DEF NothingSwept, Reg!LeaseState
<1>5. leasesById' \subseteq Reg!Issued'
  BY <1>1, ReclaimedStateType
<1> QED BY <1>1, <1>3, <1>4, <1>5 DEF RegistryType, RegistryKept, Reg!NewLease

LEMMA RearmKeeps ==
    ASSUME RegistryType, NEW i, NEW w, Reg!Rearm(i, w)
    PROVE  RegistryKept /\ NothingSwept
<1>1. i \in Reg!Issued
  BY ReclaimedStateType DEF Reg!Rearm, Reg!Known
<1>2. nextId' = nextId /\ lease' = [lease EXCEPT ![i] = [lease[i] EXCEPT !.left = LeaseTTL]]
      /\ state' = Reg!ReclaimedState /\ leasesById' = Reg!ReclaimedTable
  BY DEF Reg!Rearm, Reg!ReclaimTables
<1>3. Reg!Issued' = Reg!Issued
  BY <1>2 DEF Reg!Issued
<1>4. LeaseTTL \in 0 .. LeaseTTL
  BY CoordinatorAssumption
<1>5. [lease[i] EXCEPT !.left = LeaseTTL] \in Reg!Lease
      /\ [lease[i] EXCEPT !.left = LeaseTTL].block = lease[i].block
      /\ [lease[i] EXCEPT !.left = LeaseTTL].worker = lease[i].worker
  BY <1>1, <1>4 DEF RegistryType, Reg!Lease
<1> QED BY <1>1, <1>2, <1>3, <1>5, ReclaimedStateType DEF RegistryType, RegistryKept, NothingSwept

LEMMA MarkSweptKeeps ==
    ASSUME RegistryType, NEW i, NEW w, Reg!MarkSwept(i, w)
    PROVE  /\ RegistryKept /\ i \in Reg!Issued
           /\ \A b \in Blocks : state'[b] = "swept" => state[b] = "swept" \/ b = lease[i].block
<1>1. i \in Reg!Issued
  BY ReclaimedStateType DEF Reg!MarkSwept, Reg!Known
<1>2. nextId' = nextId /\ lease' = lease /\ Reg!Issued' = Reg!Issued
      /\ state' = [Reg!ReclaimedState EXCEPT ![lease[i].block] = "swept"]
      /\ leasesById' = Reg!ReclaimedTable \ {i}
  BY DEF Reg!MarkSwept, Reg!Issued
<1> QED BY <1>1, <1>2, ReclaimedStateType DEF RegistryType, RegistryKept, Reg!LeaseState

LEMMA ReleaseWorkerKeeps ==
    ASSUME RegistryType, NEW w, Reg!ReleaseWorker(w)
    PROVE  RegistryKept /\ NothingSwept
BY DEF Reg!ReleaseWorker, RegistryType, RegistryKept, NothingSwept, Reg!Issued, Reg!LeaseState,
   Blocks

LEMMA TickKeeps ==
    ASSUME RegistryType, Reg!Tick
    PROVE  RegistryKept /\ NothingSwept
<1>1. /\ lease' = [i \in Reg!Issued |-> Reg!Ticked(i)]
      /\ state' = state /\ leasesById' = leasesById /\ nextId' = nextId
      /\ Reg!Issued' = Reg!Issued
  BY DEF Reg!Tick, Reg!Issued
<1>2. ASSUME NEW i \in Reg!Issued
      PROVE  /\ Reg!Ticked(i) \in Reg!Lease /\ Reg!Ticked(i).block = lease[i].block
             /\ Reg!Ticked(i).worker = lease[i].worker
  <2>1. lease[i] \in Reg!Lease
    BY DEF RegistryType
  <2>2. lease[i].left \in 0 .. LeaseTTL
    BY <2>1 DEF Reg!Lease
  <2>3. (IF lease[i].left > 0 THEN lease[i].left - 1 ELSE 0) \in 0 .. LeaseTTL
    BY <2>2, CoordinatorAssumption
  <2> QED BY <2>1, <2>3 DEF Reg!Ticked, Reg!Lease
<1> QED BY <1>1, <1>2 DEF RegistryType, RegistryKept, NothingSwept

LEMMA RegistryNextKeeps ==
    ASSUME RegistryType, [Reg!Next]_(Reg!vars)
    PROVE  RegistryKept
<1>1. CASE \E w \in Workers : Reg!Call(w)
  <2> PICK w \in Workers : Reg!Call(w)
    BY <1>1
  <2>1. CASE \E b \in Reg!Blocks : Reg!LeaseBlock(b, w)
    BY <2>1, LeaseBlockKeeps DEF Blocks
  <2>2. CASE Reg!LeaseNone
    BY <2>2, OnlyReclaimKeeps DEF Reg!LeaseNone
  <2>3. CASE Reg!ReleaseWorker(w)
    BY <2>3, ReleaseWorkerKeeps
  <2>4. CASE \E i \in Reg!CallerIds : Reg!AckLease(i, w) \/ Reg!RenewLease(i, w)
    BY <2>4, RearmKeeps DEF Reg!AckLease, Reg!RenewLease
  <2>5. CASE \E i \in Reg!CallerIds : Reg!MarkSwept(i, w)
    BY <2>5, MarkSweptKeeps
  <2>6. CASE \E i \in Reg!CallerIds : Reg!Stale(i, w)
    BY <2>6, OnlyReclaimKeeps DEF Reg!Stale
  <2> QED BY <2>1, <2>2, <2>3, <2>4, <2>5, <2>6 DEF Reg!Call
<1>2. CASE Reg!ReclaimExpired
  BY <1>2, OnlyReclaimKeeps DEF Reg!ReclaimExpired
<1>3. CASE Reg!Tick
  BY <1>3, TickKeeps
<1>4. CASE UNCHANGED Reg!vars
  BY <1>4, UnchangedKeeps DEF Reg!vars, registryVars
<1> QED BY <1>1, <1>2, <1>3, <1>4 DEF Reg!Next

LEMMA RegistryTypeInit == Init => RegistryType
BY DEF Init, RegistryType, Reg!Init, Reg!Issued, Reg!LeaseState, Blocks

LEMMA RegistryTypeNext == RegistryType /\ [Next]_vars => RegistryKept
BY StepCallsRegistry, RegistryNextKeeps

LEMMA RegistryTypeAlways == Spec => []RegistryType
<1>1. RegistryType /\ [Next]_vars => RegistryType'
  BY RegistryTypeNext DEF RegistryKept
<1> QED BY <1>1, RegistryTypeInit, PTL DEF Spec

\* The server, whatever its threads do between their critical sections, uses
\* the registry through its methods only: every theorem about RangeRegistry
\* holds of the registry inside the swarm.
THEOREM SwarmDrivesRegistry == Spec => ImplementsRegistry
<1>1. Init => Reg!Init
  BY DEF Init
<1>2. RegistryType /\ [Next]_vars => [Reg!Next]_(Reg!vars)
  BY StepCallsRegistry
<1> QED BY <1>1, <1>2, RegistryTypeAlways, PTL DEF Spec, ImplementsRegistry, Reg!Spec

-----------------------------------------------------------------------------
(* The swarm's type invariant *)

ClientAts == {"off", "welcome", "idle", "await", "sweep", "leaving", "gaveUp", "closed", "dead"}

Up == [t : {"Hello", "WantLease", "Goodbye"}, id : {0}]
        \cup [t : {"LeaseAck", "Heartbeat", "Swept", "Found"}, id : Reg!Issued]
Down == [t : {"Welcome"}, id : {0}] \cup [t : {"Lease"}, id : Reg!Issued]
          \cup [t : {"NoWork"}, id : {0}, reason : {"found", "exhausted", "no_free_block"}]
Reports == [t : {"Swept", "Found"}, id : Reg!Issued]

\* Every id under way was issued: those in messages, those a process sweeps
\* under, those of reports that a handler is in the middle of.
SwarmType ==
    /\ handlerAt \in [Procs -> HandlerAts]
    /\ clientAt \in [Procs -> ClientAts]
    /\ toServer \in [Procs -> Seq(Up)]
    /\ toWorker \in [Procs -> Seq(Down)]
    /\ held \in [Procs -> {Reg!NoLease} \cup Reg!Issued]
    /\ report \in [Procs -> {NoReport} \cup Reports]
    /\ coverage \in [Blocks -> Workers \cup {Nobody}]
    /\ \A c \in Procs : clientAt[c] = "sweep" => held[c] \in Reg!Issued
    /\ \A c \in Procs : handlerAt[c] = "record" => report[c] \in Reports

LEMMA SwarmTypeInit == Init => SwarmType
BY DEF Init, SwarmType, HandlerAts, ClientAts

\* A process only passes on the ids it has been given.
LEMMA ClientStepType ==
    ASSUME SwarmType, NEW c \in Procs,
           \/ ClientStep(c) \/ SendHeartbeat(c) \/ TimeOut(c) \/ Crash(c)
    PROVE  SwarmType'
<1> USE DEF SwarmType, serverVars, handlerVars, clientVars, netVars, registryVars, ClientSends,
            ClientAts, HandlerAts
<1>1. ASSUME UNCHANGED registryVars
      PROVE  Up' = Up /\ Down' = Down /\ Reports' = Reports /\ Reg!Issued' = Reg!Issued
  BY <1>1 DEF Up, Down, Reports, Reg!Issued
<1>2. /\ \A y \in {"Hello", "WantLease", "Goodbye"} : Msg(y) \in Up
      /\ \A i \in Reg!Issued : \A y \in {"LeaseAck", "Heartbeat", "Swept", "Found"} :
            LeaseMsg(y, i) \in Up
      /\ \A m \in Down : m.t = "Lease" => m.id \in Reg!Issued
  BY DEF Msg, LeaseMsg, Up, Down
<1>3. CASE Connect(c)
  BY <1>1, <1>2, <1>3 DEF Connect
<1>4. CASE ReadWelcome(c)
  BY <1>1, <1>4 DEF ReadWelcome
<1>5. CASE AskForLease(c)
  BY <1>1, <1>2, <1>5 DEF AskForLease
<1>6. CASE ReachMaxBlocks(c)
  BY <1>1, <1>6 DEF ReachMaxBlocks
<1>7. CASE ReadLease(c)
  <2>1. Head(toWorker[c]) \in Down /\ Tail(toWorker[c]) \in Seq(Down)
    BY <1>7 DEF ReadLease
  <2>2. Head(toWorker[c]).id \in Reg!Issued
    BY <1>2, <1>7, <2>1 DEF ReadLease
  <2> QED BY <1>1, <1>2, <1>7, <2>1, <2>2 DEF ReadLease
<1>8. CASE ReadNoWork(c)
  BY <1>1, <1>8 DEF ReadNoWork
<1>9. CASE ReportSwept(c)
  BY <1>1, <1>2, <1>9 DEF ReportSwept
<1>10. CASE ReportFound(c)
  BY <1>1, <1>2, <1>10 DEF ReportFound
<1>11. CASE Disconnected(c)
  BY <1>1, <1>11 DEF Disconnected
<1>12. CASE Leave(c)
  BY <1>1, <1>2, <1>12 DEF Leave, ProcessEnds
<1>13. CASE SendHeartbeat(c)
  BY <1>1, <1>2, <1>13 DEF SendHeartbeat
<1>14. CASE TimeOut(c)
  BY <1>1, <1>14 DEF TimeOut
<1>15. CASE Crash(c)
  BY <1>1, <1>15 DEF Crash, ProcessEnds
<1> QED BY <1>3, <1>4, <1>5, <1>6, <1>7, <1>8, <1>9, <1>10, <1>11, <1>12, <1>13, <1>14, <1>15
        DEF ClientStep

\* Sets of messages grow with the ids issued.
LEMMA Widen ==
    ASSUME RegistryKept
    PROVE  /\ Up \subseteq Up' /\ Down \subseteq Down' /\ Reports \subseteq Reports'
           /\ Seq(Up) \subseteq Seq(Up') /\ Seq(Down) \subseteq Seq(Down')
<1>1. Up \subseteq Up' /\ Down \subseteq Down' /\ Reports \subseteq Reports'
  BY DEF RegistryKept, Up, Down, Reports
<1> QED BY <1>1

LEMMA ReadsType ==
    ASSUME SwarmType, RegistryKept, NEW c \in Procs, NEW y, Reads(c, y)
    PROVE  /\ toServer' \in [Procs -> Seq(Up')]
           /\ Head(toServer[c]) \in Up /\ Head(toServer[c]).t = y
           /\ y \in {"LeaseAck", "Heartbeat", "Swept", "Found"} =>
                 Head(toServer[c]).id \in Reg!Issued
<1>1. toServer[c] \in Seq(Up) /\ toServer[c] # <<>>
  BY DEF SwarmType, Reads
<1>2. Head(toServer[c]) \in Up /\ Tail(toServer[c]) \in Seq(Up)
  BY <1>1
<1>3. toServer' = [toServer EXCEPT ![c] = Tail(@)] /\ Head(toServer[c]).t = y
  BY DEF Reads
<1>4. \A m \in Up : m.t \in {"LeaseAck", "Heartbeat", "Swept", "Found"} => m.id \in Reg!Issued
  BY DEF Up
<1> QED BY <1>2, <1>3, <1>4, Widen DEF SwarmType

LEMMA RepliesType ==
    ASSUME SwarmType, RegistryKept, NEW c \in Procs, NEW m \in Down', Replies(c, m)
    PROVE  /\ toWorker' \in [Procs -> Seq(Down')]
           /\ handlerAt' \in [Procs -> HandlerAts]
           /\ \A d \in Procs : handlerAt'[d] = "record" => handlerAt[d] = "record"
<1>1. toWorker \in [Procs -> Seq(Down')]
  BY Widen DEF SwarmType
<1>2. Append(toWorker[c], m) \in Seq(Down')
  BY <1>1
<1> QED BY <1>1, <1>2 DEF SwarmType, Replies, HandlerAts

LEMMA AnswersAreDown ==
    /\ Msg("Welcome") \in Down /\ \A i \in Reg!Issued : LeaseMsg("Lease", i) \in Down
    /\ \A r \in {"found", "exhausted", "no_free_block"} : Refusal(r) \in Down
BY DEF Msg, LeaseMsg, Refusal, Down

\* A handler issues the ids it sends, and keeps those it reads.
LEMMA HandlerStepType ==
    ASSUME SwarmType, RegistryType, RegistryKept, NEW c \in Procs,
           HandlerStep(c) \/ OnConnectionLost(c)
    PROVE  SwarmType'
<1> USE DEF SwarmType, serverVars, handlerVars, clientVars, netVars
<1>1. /\ \A d \in Procs : toServer[d] \in Seq(Up') /\ toWorker[d] \in Seq(Down')
      /\ \A d \in Procs : held[d] \in {Reg!NoLease} \cup Reg!Issued'
      /\ \A d \in Procs : report[d] \in {NoReport} \cup Reports'
      /\ \A d \in Procs : clientAt[d] = "sweep" => held[d] \in Reg!Issued'
      /\ \A d \in Procs : handlerAt[d] = "record" => report[d] \in Reports'
  BY Widen DEF RegistryKept
<1>2. /\ toServer \in [Procs -> Seq(Up')] /\ toWorker \in [Procs -> Seq(Down')]
      /\ held \in [Procs -> {Reg!NoLease} \cup Reg!Issued']
      /\ report \in [Procs -> {NoReport} \cup Reports']
  BY <1>1
<1>3. CASE OnHello(c)
  <2>1. Msg("Welcome") \in Down'
    BY AnswersAreDown, Widen
  <2> QED BY <1>1, <1>2, <1>3, <2>1, ReadsType, RepliesType DEF OnHello
<1>4. CASE OnWantLease(c)
  <2>1. Refusal("found") \in Down'
    BY AnswersAreDown, Widen
  <2>2. toServer' \in [Procs -> Seq(Up')]
    BY <1>4, ReadsType DEF OnWantLease
  <2>3. /\ toWorker' \in [Procs -> Seq(Down')]
        /\ handlerAt' \in [Procs -> HandlerAts]
        /\ \A d \in Procs : handlerAt'[d] = "record" => handlerAt[d] = "record"
    <3>1. CASE Replies(c, Refusal("found"))
      BY <2>1, <3>1, RepliesType
    <3>2. CASE handlerAt' = [handlerAt EXCEPT ![c] = "grant"] /\ UNCHANGED toWorker
      BY <1>2, <3>2 DEF HandlerAts
    <3> QED BY <1>4, <3>1, <3>2 DEF OnWantLease
  <2> QED BY <1>1, <1>2, <1>4, <2>2, <2>3 DEF OnWantLease
<1>5. CASE Grant(c)
  <2>1. nextId \in Reg!Issued'
    BY <1>5, LeaseBlockKeeps, IdInWorkers DEF Grant
  <2>2. LeaseMsg("Lease", nextId) \in Down'
    BY <2>1 DEF LeaseMsg, Down
  <2> QED BY <1>1, <1>2, <1>5, <2>2, RepliesType DEF Grant
<1>6. CASE GrantNone(c)
  BY <1>1, <1>2, <1>6 DEF GrantNone, HandlerAts
<1>7. CASE Refuse(c)
  <2>1. Refusal("exhausted") \in Down' /\ Refusal("no_free_block") \in Down'
    BY AnswersAreDown, Widen
  <2> QED BY <1>1, <1>2, <1>7, <2>1, RepliesType DEF Refuse
<1>8. CASE OnLeaseAck(c)
  BY <1>1, <1>2, <1>8, ReadsType DEF OnLeaseAck
<1>9. CASE OnHeartbeat(c)
  BY <1>1, <1>2, <1>9, ReadsType DEF OnHeartbeat
<1>10. CASE OnSwept(c) \/ OnFound(c)
  <2>1. /\ Head(toServer[c]) \in Up /\ Head(toServer[c]).t \in {"Swept", "Found"}
        /\ toServer' \in [Procs -> Seq(Up')]
    BY <1>10, ReadsType DEF OnSwept, OnFound
  <2>2. Head(toServer[c]) \in Reports'
    BY <2>1, Widen DEF Up, Reports
  <2>3. /\ report' = [report EXCEPT ![c] = Head(toServer[c])]
        /\ handlerAt' = [handlerAt EXCEPT ![c] = "record"]
        /\ UNCHANGED <<clientVars, toWorker, coverage>>
    BY <1>10 DEF OnSwept, OnFound
  <2> QED BY <1>1, <1>2, <2>1, <2>2, <2>3 DEF HandlerAts
<1>11. CASE RecordCoverage(c)
  <2>1. coverage' \in [Blocks -> Workers \cup {Nobody}]
    BY <1>11, IdInWorkers DEF RecordCoverage
  <2> QED BY <1>1, <1>2, <1>11, <2>1 DEF RecordCoverage, HandlerAts
<1>12. CASE OnGoodbye(c)
  BY <1>1, <1>2, <1>12, ReadsType DEF OnGoodbye, HandlerAts
<1>13. CASE EndLoop(c) \/ OnConnectionLost(c)
  BY <1>1, <1>2, <1>13 DEF EndLoop, OnConnectionLost, HandlerAts
<1>14. CASE Cleanup(c)
  BY <1>1, <1>2, <1>14 DEF Cleanup, HandlerAts
<1> QED BY <1>3, <1>4, <1>5, <1>6, <1>7, <1>8, <1>9, <1>10, <1>11, <1>12, <1>13, <1>14
        DEF HandlerStep

LEMMA SwarmTypeNext ==
    ASSUME RegistryType, SwarmType, [Next]_vars
    PROVE  SwarmType'
<1>1. RegistryKept
  BY RegistryTypeNext
<1>2. CASE \E c \in Procs : ClientStep(c) \/ SendHeartbeat(c) \/ TimeOut(c) \/ Crash(c)
  BY <1>2, ClientStepType
<1>3. CASE \E c \in Procs : HandlerStep(c) \/ OnConnectionLost(c)
  BY <1>1, <1>3, HandlerStepType
<1>4. CASE UNCHANGED <<serverVars, handlerVars, clientVars, netVars>>
  <2>1. /\ \A d \in Procs : toServer[d] \in Seq(Up') /\ toWorker[d] \in Seq(Down')
        /\ \A d \in Procs : report[d] \in {NoReport} \cup Reports'
        /\ \A d \in Procs : handlerAt[d] = "record" => report[d] \in Reports'
    BY <1>1, Widen DEF SwarmType
  <2> QED BY <1>1, <1>4, <2>1 DEF SwarmType, RegistryKept, serverVars, handlerVars, clientVars,
             netVars
<1>5. CASE Reap \/ Tick \/ Stop \/ UNCHANGED vars
  BY <1>4, <1>5 DEF Reap, Tick, Stop, vars
<1> QED BY <1>2, <1>3, <1>5 DEF Next

\* A connection that has not been opened has no handler.
NotStarted == \A c \in Procs : clientAt[c] = "off" => handlerAt[c] = "none"

LEMMA NotStartedNext ==
    ASSUME SwarmType, NotStarted, [Next]_vars
    PROVE  NotStarted'
<1> USE DEF NotStarted, SwarmType, handlerVars, serverVars, netVars, clientVars
<1>1. ASSUME NEW c \in Procs, ClientStep(c)
      PROVE  NotStarted'
  BY <1>1 DEF ClientStep, Connect, ReadWelcome, AskForLease, ReachMaxBlocks, ReadLease,
     ReadNoWork, ReportSwept, ReportFound, Disconnected, Leave
<1>2. ASSUME NEW c \in Procs, HandlerStep(c)
      PROVE  NotStarted'
  <2>1. CASE OnHello(c) \/ OnWantLease(c) \/ Grant(c) \/ Refuse(c)
    BY <2>1 DEF OnHello, OnWantLease, Grant, Refuse, Replies, Reads
  <2>2. CASE GrantNone(c) \/ OnLeaseAck(c) \/ OnHeartbeat(c) \/ OnSwept(c) \/ OnFound(c)
               \/ RecordCoverage(c) \/ OnGoodbye(c) \/ EndLoop(c) \/ Cleanup(c)
    BY <2>2 DEF GrantNone, OnLeaseAck, OnHeartbeat, OnSwept, OnFound, RecordCoverage,
       OnGoodbye, EndLoop, Cleanup, Reads
  <2> QED BY <1>2, <2>1, <2>2 DEF HandlerStep
<1>3. ASSUME NEW c \in Procs, SendHeartbeat(c) \/ TimeOut(c) \/ Crash(c) \/ OnConnectionLost(c)
      PROVE  NotStarted'
  BY <1>3 DEF SendHeartbeat, TimeOut, Crash, OnConnectionLost
<1>4. CASE Reap \/ Tick \/ Stop \/ UNCHANGED vars
  BY <1>4 DEF Reap, Tick, Stop, vars
<1> QED BY <1>1, <1>2, <1>3, <1>4 DEF Next

\* What the theorems below rest on.
TypeInv == RegistryType /\ SwarmType /\ NotStarted

LEMMA TypeInvAlways == Spec => []TypeInv
<1>1. Init => TypeInv
  BY RegistryTypeInit, SwarmTypeInit DEF TypeInv, NotStarted, Init
<1>2. TypeInv /\ [Next]_vars => TypeInv'
  BY RegistryTypeNext, SwarmTypeNext, NotStartedNext DEF TypeInv, RegistryKept
<1> QED BY <1>1, <1>2, PTL DEF Spec

-----------------------------------------------------------------------------
(* Coverage *)

\* A block becomes SWEPT in one place only.
LEMMA OneWayToSweep ==
    ASSUME TypeInv, [Next]_vars
    PROVE  \/ NothingSwept
           \/ \E c \in Procs : OnSwept(c) /\ Reg!MarkSwept(Head(toServer[c]).id, IdOf(c))
<1> USE DEF TypeInv
<1>1. ASSUME NEW c \in Procs, ClientStep(c)
      PROVE  NothingSwept
  BY <1>1, UnchangedKeeps DEF ClientStep, Connect, ReadWelcome, AskForLease, ReachMaxBlocks,
     ReadLease, ReadNoWork, ReportSwept, ReportFound, Disconnected, Leave
<1>2. ASSUME NEW c \in Procs, HandlerStep(c)
      PROVE  \/ NothingSwept
             \/ OnSwept(c) /\ Reg!MarkSwept(Head(toServer[c]).id, IdOf(c))
  <2>1. CASE OnHello(c) \/ OnWantLease(c) \/ OnFound(c) \/ RecordCoverage(c) \/ OnGoodbye(c)
               \/ EndLoop(c)
    BY <2>1, UnchangedKeeps DEF OnHello, OnWantLease, OnFound, RecordCoverage, OnGoodbye, EndLoop
  <2>2. CASE Grant(c)
    BY <2>2, LeaseBlockKeeps, IdInWorkers DEF Grant
  <2>3. CASE GrantNone(c) \/ Refuse(c)
    BY <2>3, OnlyReclaimKeeps DEF GrantNone, Refuse, Reg!LeaseNone, Reg!ReclaimExpired
  <2>4. CASE OnLeaseAck(c) \/ OnHeartbeat(c)
    BY <2>4, OnlyReclaimKeeps, RearmKeeps DEF OnLeaseAck, OnHeartbeat, Reg!AckLease,
       Reg!RenewLease, Reg!Stale
  <2>5. CASE OnSwept(c)
    BY <2>5, OnlyReclaimKeeps DEF OnSwept, Reg!Stale
  <2>6. CASE Cleanup(c)
    BY <2>6, ReleaseWorkerKeeps, UnchangedKeeps DEF Cleanup
  <2> QED BY <1>2, <2>1, <2>2, <2>3, <2>4, <2>5, <2>6 DEF HandlerStep
<1>3. ASSUME NEW c \in Procs, SendHeartbeat(c) \/ TimeOut(c) \/ Crash(c) \/ OnConnectionLost(c)
      PROVE  NothingSwept
  BY <1>3, UnchangedKeeps DEF SendHeartbeat, TimeOut, Crash, OnConnectionLost
<1>4. CASE Reap
  BY <1>4, OnlyReclaimKeeps DEF Reap, Reg!ReclaimExpired
<1>5. CASE Tick
  BY <1>5, TickKeeps DEF Tick
<1>6. CASE Stop \/ UNCHANGED vars
  BY <1>6, UnchangedKeeps DEF Stop, vars
<1> QED BY <1>1, <1>2, <1>3, <1>4, <1>5, <1>6 DEF Next

\* Block b is in the log, or a handler is about to put it there.
Logged(b) ==
    \/ coverage[b] # Nobody
    \/ \E c \in Procs : handlerAt[c] = "record" /\ lease[report[c].id].block = b

\* Between mark_swept and _record_coverage nothing takes the handler away: it
\* is at neither of the places where it looks at its connection or at stop.
LEMMA HandlerRecords ==
    ASSUME TypeInv, [Next]_vars, NEW d \in Procs, handlerAt[d] = "record"
    PROVE  \/ RecordCoverage(d)
           \/ handlerAt'[d] = "record" /\ report'[d] = report[d]
<1> USE DEF TypeInv, SwarmType, handlerVars, netVars, clientVars, serverVars
<1>1. ASSUME NEW c \in Procs, ClientStep(c)
      PROVE  handlerAt'[d] = "record" /\ report'[d] = report[d]
  <2>1. CASE Connect(c)
    BY <2>1 DEF Connect, NotStarted
  <2>2. CASE ~Connect(c)
    BY <1>1, <2>2 DEF ClientStep, ReadWelcome, AskForLease, ReachMaxBlocks, ReadLease,
       ReadNoWork, ReportSwept, ReportFound, Disconnected, Leave
  <2> QED BY <2>1, <2>2
<1>2. ASSUME NEW c \in Procs, HandlerStep(c), ~RecordCoverage(d)
      PROVE  handlerAt'[d] = "record" /\ report'[d] = report[d]
  <2>1. CASE OnHello(c) \/ OnWantLease(c) \/ Grant(c) \/ Refuse(c)
    BY <2>1 DEF OnHello, OnWantLease, Grant, Refuse, Replies, Reads
  <2>2. CASE GrantNone(c) \/ OnLeaseAck(c) \/ OnHeartbeat(c) \/ OnSwept(c) \/ OnFound(c)
               \/ OnGoodbye(c) \/ EndLoop(c) \/ Cleanup(c)
    BY <2>2 DEF GrantNone, OnLeaseAck, OnHeartbeat, OnSwept, OnFound, OnGoodbye, EndLoop,
       Cleanup, Reads
  <2>3. CASE RecordCoverage(c)
    BY <1>2, <2>3 DEF RecordCoverage
  <2> QED BY <1>2, <2>1, <2>2, <2>3 DEF HandlerStep
<1>3. ASSUME NEW c \in Procs, SendHeartbeat(c) \/ TimeOut(c) \/ Crash(c) \/ OnConnectionLost(c)
      PROVE  handlerAt'[d] = "record" /\ report'[d] = report[d]
  BY <1>3 DEF SendHeartbeat, TimeOut, Crash, OnConnectionLost
<1>4. CASE Reap \/ Tick \/ Stop \/ UNCHANGED vars
  BY <1>4 DEF Reap, Tick, Stop, vars
<1> QED BY <1>1, <1>2, <1>3, <1>4 DEF Next

\* The coverage log and its flag are written in one place.
LEMMA OneWayToLog ==
    ASSUME [Next]_vars
    PROVE  UNCHANGED <<coverage, conflict>> \/ \E c \in Procs : HandlerStep(c) /\ RecordCoverage(c)
<1> USE DEF serverVars
<1>1. ASSUME NEW c \in Procs, ClientStep(c)
      PROVE  UNCHANGED <<coverage, conflict>>
  BY <1>1 DEF ClientStep, Connect, ReadWelcome, AskForLease, ReachMaxBlocks, ReadLease,
     ReadNoWork, ReportSwept, ReportFound, Disconnected, Leave
<1>2. ASSUME NEW c \in Procs, HandlerStep(c)
      PROVE  UNCHANGED <<coverage, conflict>> \/ RecordCoverage(c)
  BY <1>2 DEF HandlerStep, OnHello, OnWantLease, Grant, GrantNone, Refuse, OnLeaseAck,
     OnHeartbeat, OnSwept, OnFound, OnGoodbye, EndLoop, Cleanup
<1>3. ASSUME NEW c \in Procs, SendHeartbeat(c) \/ TimeOut(c) \/ Crash(c) \/ OnConnectionLost(c)
      PROVE  UNCHANGED <<coverage, conflict>>
  BY <1>3 DEF SendHeartbeat, TimeOut, Crash, OnConnectionLost
<1>4. CASE Reap \/ Tick \/ Stop \/ UNCHANGED vars
  BY <1>4 DEF Reap, Tick, Stop, vars
<1> QED BY <1>1, <1>2, <1>3, <1>4 DEF Next

LEMMA LoggedStays ==
    ASSUME TypeInv, [Next]_vars, NEW b \in Blocks, Logged(b)
    PROVE  Logged(b)'
<1>1. coverage[b] # Nobody => coverage'[b] # Nobody
  BY OneWayToLog, IdInWorkers, CoordinatorAssumption DEF RecordCoverage, TypeInv, SwarmType
<1>2. ASSUME NEW d \in Procs, handlerAt[d] = "record", lease[report[d].id].block = b
      PROVE  Logged(b)'
  <2>1. report[d].id \in Reg!Issued
    BY <1>2 DEF TypeInv, SwarmType, Reports
  <2>2. lease'[report[d].id].block = b
    BY <1>2, <2>1, RegistryTypeNext DEF TypeInv, RegistryKept
  <2>3. CASE RecordCoverage(d)
    <3>1. coverage'[b] = IdOf(d)
      BY <1>2, <2>3 DEF RecordCoverage, TypeInv, SwarmType
    <3> QED BY <3>1, IdInWorkers, CoordinatorAssumption DEF Logged
  <2>4. CASE handlerAt'[d] = "record" /\ report'[d] = report[d]
    BY <2>2, <2>4 DEF Logged
  <2> QED BY <1>2, <2>3, <2>4, HandlerRecords
<1> QED BY <1>1, <1>2 DEF Logged

\* The handler that retires a block goes on to log it.
LEMMA SweeperLogs ==
    ASSUME TypeInv, [Next]_vars, NEW c \in Procs, OnSwept(c),
           Reg!MarkSwept(Head(toServer[c]).id, IdOf(c)), NEW b \in Blocks,
           state'[b] = "swept", state[b] # "swept"
    PROVE  Logged(b)'
<1> DEFINE i == Head(toServer[c]).id
<1>1. i \in Reg!Issued /\ b = lease[i].block
  BY MarkSweptKeeps DEF TypeInv
<1>2. lease'[i].block = b
  BY <1>1 DEF Reg!MarkSwept
<1>3. handlerAt'[c] = "record" /\ report'[c].id = i
  BY DEF OnSwept, TypeInv, SwarmType
<1> QED BY <1>2, <1>3 DEF Logged

\* No coverage is lost: a block that the registry retires is logged or about to
\* be, although the two are written under different locks and the worker, its
\* connection or the whole server may go in between.
THEOREM SweptReachesLog == Spec => []SweptIsLogged
<1>1. SweptIsLogged <=> \A b \in Blocks : state[b] = "swept" => Logged(b)
  BY DEF SweptIsLogged, Logged
<1>2. Init => SweptIsLogged
  BY DEF Init, Reg!Init, SweptIsLogged, Blocks
<1>3. TypeInv /\ SweptIsLogged /\ [Next]_vars => SweptIsLogged'
  <2> SUFFICES ASSUME TypeInv, SweptIsLogged, [Next]_vars, NEW b \in Blocks,
                      state'[b] = "swept"
               PROVE  Logged(b)'
    BY DEF SweptIsLogged, Logged, Blocks, Reg!Blocks
  <2>1. CASE state[b] = "swept"
    BY <1>1, <2>1, LoggedStays
  <2>2. CASE state[b] # "swept"
    BY <2>2, OneWayToSweep, SweeperLogs DEF NothingSwept
  <2> QED BY <2>1, <2>2
<1> QED BY <1>2, <1>3, TypeInvAlways, PTL DEF Spec

-----------------------------------------------------------------------------
(* The key's block *)

\* The key's block is not SWEPT, nobody has reported it swept, and nobody has
\* been told that there is nothing left.
KeyBlockOpen ==
    /\ \A b \in TargetBlocks : state[b] # "swept"
    /\ \A c \in Procs : \A k \in DOMAIN toServer[c] :
          toServer[c][k].t = "Swept" => lease[toServer[c][k].id].block \notin TargetBlocks
    /\ NotExhaustedWithKey

LEMMA TargetFixed ==
    ASSUME [Next]_vars
    PROVE  target' = target /\ TargetBlocks' = TargetBlocks
<1> USE DEF serverVars
<1>1. ASSUME NEW c \in Procs, ClientStep(c)
      PROVE  target' = target
  BY <1>1 DEF ClientStep, Connect, ReadWelcome, AskForLease, ReachMaxBlocks, ReadLease,
     ReadNoWork, ReportSwept, ReportFound, Disconnected, Leave
<1>2. ASSUME NEW c \in Procs, HandlerStep(c)
      PROVE  target' = target
  BY <1>2 DEF HandlerStep, OnHello, OnWantLease, Grant, GrantNone, Refuse, OnLeaseAck,
     OnHeartbeat, OnSwept, OnFound, RecordCoverage, OnGoodbye, EndLoop, Cleanup
<1>3. ASSUME NEW c \in Procs, SendHeartbeat(c) \/ TimeOut(c) \/ Crash(c) \/ OnConnectionLost(c)
      PROVE  target' = target
  BY <1>3 DEF SendHeartbeat, TimeOut, Crash, OnConnectionLost
<1>4. ASSUME Reap \/ Tick \/ Stop \/ UNCHANGED vars
      PROVE  target' = target
  BY <1>4 DEF Reap, Tick, Stop, vars
<1>5. target' = target
  BY <1>1, <1>2, <1>3, <1>4 DEF Next
<1> QED BY <1>5 DEF TargetBlocks

\* How the messages to the server change in a step: one is read, all are
\* dropped, or one is added, and then it does not report the key's block swept.
UpStep(d) ==
    \/ toServer'[d] = toServer[d] \/ toServer'[d] = <<>>
    \/ toServer[d] # <<>> /\ toServer'[d] = Tail(toServer[d])
    \/ \E m \in Up : /\ toServer'[d] = Append(toServer[d], m)
                     /\ m.t = "Swept" => lease[m.id].block \notin TargetBlocks

\* And those to the worker: one that is added says "exhausted" only on the
\* registry's word.
DownStep(d) ==
    \/ toWorker'[d] = toWorker[d] \/ toWorker'[d] = <<>>
    \/ toWorker[d] # <<>> /\ toWorker'[d] = Tail(toWorker[d])
    \/ \E m : /\ toWorker'[d] = Append(toWorker[d], m)
              /\ m = Refusal("exhausted") => Reg!Exhausted

LEMMA MessageKinds ==
    /\ \A y \in {"Hello", "WantLease", "Goodbye"} : Msg(y) \in Up /\ Msg(y).t = y
    /\ \A i \in Reg!Issued : \A y \in {"LeaseAck", "Heartbeat", "Swept", "Found"} :
          LeaseMsg(y, i) \in Up /\ LeaseMsg(y, i).t = y /\ LeaseMsg(y, i).id = i
    /\ Msg("Welcome") # Refusal("exhausted") /\ \A i : LeaseMsg("Lease", i) # Refusal("exhausted")
    /\ \A r : Refusal(r) = Refusal("exhausted") => r = "exhausted"
<1>1. /\ Msg("Welcome").t = "Welcome" /\ Refusal("exhausted").t = "NoWork"
      /\ \A i : LeaseMsg("Lease", i).t = "Lease"
      /\ \A r : Refusal(r).reason = r
  BY DEF Msg, LeaseMsg, Refusal
<1>2. /\ Msg("Welcome") # Refusal("exhausted") /\ \A i : LeaseMsg("Lease", i) # Refusal("exhausted")
      /\ \A r : Refusal(r) = Refusal("exhausted") => r = "exhausted"
  BY <1>1
<1> QED BY <1>2 DEF Msg, LeaseMsg, Up

LEMMA SentUp ==
    ASSUME SwarmType, NEW c \in Procs, NEW d \in Procs, NEW m \in Up, ClientSends(c, m),
           m.t = "Swept" => lease[m.id].block \notin TargetBlocks
    PROVE  UpStep(d)
<1>1. toServer'[d] \in {toServer[d], IF d = c THEN Append(toServer[d], m) ELSE toServer[d]}
  BY DEF SwarmType, ClientSends
<1> QED BY <1>1 DEF UpStep

LEMMA SentDown ==
    ASSUME SwarmType, NEW c \in Procs, NEW d \in Procs, NEW m, Replies(c, m),
           m = Refusal("exhausted") => Reg!Exhausted
    PROVE  DownStep(d)
<1>1. toWorker'[d] \in {toWorker[d], IF d = c THEN Append(toWorker[d], m) ELSE toWorker[d]}
  BY DEF SwarmType, Replies
<1> QED BY <1>1 DEF DownStep

LEMMA ClientQueues ==
    ASSUME TypeInv, NEW c \in Procs, NEW d \in Procs,
           ClientStep(c) \/ SendHeartbeat(c) \/ TimeOut(c) \/ Crash(c)
    PROVE  UpStep(d) /\ DownStep(d)
<1> USE DEF TypeInv, SwarmType, netVars, ProcessEnds
<1>1. CASE Connect(c) \/ AskForLease(c) \/ Leave(c)
  <2>1. \E y \in {"Hello", "WantLease", "Goodbye"} : ClientSends(c, Msg(y))
    BY <1>1 DEF Connect, AskForLease, Leave
  <2>2. UpStep(d)
    BY <2>1, MessageKinds, SentUp
  <2> QED BY <1>1, <2>2 DEF Connect, AskForLease, Leave, DownStep
<1>2. CASE ReadWelcome(c) \/ ReadNoWork(c)
  BY <1>2 DEF ReadWelcome, ReadNoWork, UpStep, DownStep
<1>3. CASE ReadLease(c)
  <2>1. Head(toWorker[c]) \in Down
    BY <1>3 DEF ReadLease
  <2>2. Head(toWorker[c]).id \in Reg!Issued
    BY <1>3, <2>1 DEF ReadLease, Down
  <2>3. UpStep(d)
    BY <1>3, <2>2, MessageKinds, SentUp DEF ReadLease
  <2> QED BY <1>3, <2>3 DEF ReadLease, DownStep
<1>4. CASE ReportSwept(c)
  <2>1. held[c] \in Reg!Issued
    BY <1>4 DEF ReportSwept
  <2>2. UpStep(d)
    BY <1>4, <2>1, MessageKinds, SentUp DEF ReportSwept, HeldBlock
  <2> QED BY <1>4, <2>2 DEF ReportSwept, DownStep
<1>5. CASE ReportFound(c) \/ SendHeartbeat(c)
  <2>1. held[c] \in Reg!Issued
    BY <1>5 DEF ReportFound, SendHeartbeat
  <2>2. \E y \in {"Found", "Heartbeat"} : ClientSends(c, LeaseMsg(y, held[c]))
    BY <1>5 DEF ReportFound, SendHeartbeat
  <2>3. UpStep(d)
    BY <2>1, <2>2, MessageKinds, SentUp
  <2> QED BY <1>5, <2>3 DEF ReportFound, SendHeartbeat, DownStep
<1>6. CASE ReachMaxBlocks(c) \/ Disconnected(c) \/ TimeOut(c) \/ Crash(c)
  BY <1>6 DEF ReachMaxBlocks, Disconnected, TimeOut, Crash, UpStep, DownStep
<1> QED BY <1>1, <1>2, <1>3, <1>4, <1>5, <1>6 DEF ClientStep

LEMMA HandlerQueues ==
    ASSUME TypeInv, NEW c \in Procs, NEW d \in Procs, HandlerStep(c) \/ OnConnectionLost(c)
    PROVE  UpStep(d) /\ DownStep(d)
<1> USE DEF TypeInv, SwarmType, netVars, Reads
<1>1. CASE OnHello(c)
  <2>1. DownStep(d)
    BY <1>1, MessageKinds, SentDown DEF OnHello
  <2> QED BY <1>1, <2>1 DEF OnHello, UpStep
<1>2. CASE OnWantLease(c)
  <2>1. Refusal("found") # Refusal("exhausted")
    BY MessageKinds
  <2>2. DownStep(d)
    BY <1>2, <2>1, SentDown DEF OnWantLease, DownStep
  <2> QED BY <1>2, <2>2 DEF OnWantLease, UpStep
<1>3. CASE Grant(c)
  <2>1. DownStep(d)
    BY <1>3, MessageKinds, SentDown DEF Grant
  <2> QED BY <1>3, <2>1 DEF Grant, UpStep
<1>4. CASE Refuse(c)
  <2>1. Refusal("no_free_block") # Refusal("exhausted")
    BY MessageKinds
  <2>2. Replies(c, Refusal(IF Reg!Exhausted THEN "exhausted" ELSE "no_free_block"))
    BY <1>4 DEF Refuse
  <2>3. DownStep(d)
    <3>1. CASE Reg!Exhausted
      BY <2>2, <3>1, SentDown
    <3>2. CASE ~Reg!Exhausted
      BY <2>1, <2>2, <3>2, SentDown
    <3> QED BY <3>1, <3>2
  <2> QED BY <1>4, <2>3 DEF Refuse, UpStep
<1>5. CASE OnLeaseAck(c) \/ OnHeartbeat(c) \/ OnSwept(c) \/ OnFound(c) \/ OnGoodbye(c)
  BY <1>5 DEF OnLeaseAck, OnHeartbeat, OnSwept, OnFound, OnGoodbye, UpStep, DownStep
<1>6. CASE GrantNone(c) \/ RecordCoverage(c) \/ EndLoop(c) \/ OnConnectionLost(c)
  BY <1>6 DEF GrantNone, RecordCoverage, EndLoop, OnConnectionLost, UpStep, DownStep
<1>7. CASE Cleanup(c)
  BY <1>7 DEF Cleanup, UpStep, DownStep
<1> QED BY <1>1, <1>2, <1>3, <1>4, <1>5, <1>6, <1>7 DEF HandlerStep

LEMMA Queues ==
    ASSUME TypeInv, [Next]_vars, NEW d \in Procs
    PROVE  UpStep(d) /\ DownStep(d)
<1>1. CASE Reap \/ Tick \/ Stop \/ UNCHANGED vars
  BY <1>1 DEF Reap, Tick, Stop, vars, netVars, UpStep, DownStep
<1> QED BY <1>1, ClientQueues, HandlerQueues DEF Next

\* While the key's block is open the registry is not exhausted.
LEMMA OpenIsNotExhausted ==
    ASSUME TypeInv, KeyBlockOpen, TargetBlocks # {}
    PROVE  ~Reg!Exhausted
BY ReclaimedStateType DEF TypeInv, KeyBlockOpen, TargetBlocks, Reg!Exhausted, Blocks

LEMMA KeyBlockOpenNext ==
    ASSUME TypeInv, KeyBlockOpen, [Next]_vars
    PROVE  KeyBlockOpen'
<1>1. TargetBlocks' = TargetBlocks /\ TargetBlocks \subseteq Blocks
  BY TargetFixed DEF TargetBlocks
<1>2. RegistryKept
  BY RegistryTypeNext DEF TypeInv
<1>3. ASSUME NEW b \in TargetBlocks
      PROVE  state'[b] # "swept"
  <2>1. state[b] # "swept" /\ b \in Blocks
    BY <1>1 DEF KeyBlockOpen
  <2>2. ASSUME NEW c \in Procs, OnSwept(c), Reg!MarkSwept(Head(toServer[c]).id, IdOf(c))
        PROVE  b # lease[Head(toServer[c]).id].block
    <3>1. 1 \in DOMAIN toServer[c] /\ Head(toServer[c]) = toServer[c][1]
      BY <2>2 DEF OnSwept, Reads, TypeInv, SwarmType
    <3> QED BY <2>2, <3>1 DEF OnSwept, Reads, KeyBlockOpen
  <2> QED BY <2>1, <2>2, OneWayToSweep, MarkSweptKeeps DEF NothingSwept, TypeInv
<1>4. ASSUME NEW d \in Procs, NEW k \in DOMAIN toServer'[d], toServer'[d][k].t = "Swept"
      PROVE  lease'[toServer'[d][k].id].block \notin TargetBlocks
  <2>1. toServer[d] \in Seq(Up)
    BY DEF TypeInv, SwarmType
  <2>2. \A m \in Up : m.t = "Swept" => lease'[m.id].block = lease[m.id].block
    BY <1>2 DEF Up, RegistryKept
  <2>3. \A j \in DOMAIN toServer[d] : toServer[d][j].t = "Swept" =>
            lease'[toServer[d][j].id].block \notin TargetBlocks
    BY <2>1, <2>2 DEF KeyBlockOpen
  <2>4. CASE toServer'[d] = toServer[d] \/ toServer'[d] = <<>>
    BY <1>4, <2>3, <2>4
  <2>5. CASE toServer[d] # <<>> /\ toServer'[d] = Tail(toServer[d])
    <3>1. k + 1 \in DOMAIN toServer[d] /\ toServer'[d][k] = toServer[d][k + 1]
      BY <2>1, <2>5
    <3> QED BY <1>4, <2>3, <3>1
  <2>6. CASE \E m \in Up : /\ toServer'[d] = Append(toServer[d], m)
                           /\ m.t = "Swept" => lease[m.id].block \notin TargetBlocks
    <3> PICK m \in Up : /\ toServer'[d] = Append(toServer[d], m)
                        /\ m.t = "Swept" => lease[m.id].block \notin TargetBlocks
      BY <2>6
    <3>1. toServer'[d][k] = m \/ (k \in DOMAIN toServer[d] /\ toServer'[d][k] = toServer[d][k])
      BY <2>1
    <3> QED BY <1>4, <2>2, <2>3, <3>1
  <2> QED BY <2>4, <2>5, <2>6, Queues DEF UpStep
<1>5. ASSUME TargetBlocks # {}, NEW d \in Procs, NEW k \in DOMAIN toWorker'[d]
      PROVE  toWorker'[d][k] # Refusal("exhausted")
  <2>1. toWorker[d] \in Seq(Down)
    BY DEF TypeInv, SwarmType
  <2>2. \A j \in DOMAIN toWorker[d] : toWorker[d][j] # Refusal("exhausted")
    BY <1>5 DEF KeyBlockOpen, NotExhaustedWithKey
  <2>3. CASE toWorker'[d] = toWorker[d] \/ toWorker'[d] = <<>>
    BY <2>2, <2>3
  <2>4. CASE toWorker[d] # <<>> /\ toWorker'[d] = Tail(toWorker[d])
    <3>1. k + 1 \in DOMAIN toWorker[d] /\ toWorker'[d][k] = toWorker[d][k + 1]
      BY <2>1, <2>4
    <3> QED BY <2>2, <3>1
  <2>5. CASE \E m : /\ toWorker'[d] = Append(toWorker[d], m)
                    /\ m = Refusal("exhausted") => Reg!Exhausted
    <3> PICK m : /\ toWorker'[d] = Append(toWorker[d], m)
                 /\ m = Refusal("exhausted") => Reg!Exhausted
      BY <2>5
    <3>1. m # Refusal("exhausted")
      BY <1>5, OpenIsNotExhausted
    <3>2. toWorker'[d][k] = m \/ (k \in DOMAIN toWorker[d] /\ toWorker'[d][k] = toWorker[d][k])
      BY <2>1
    <3> QED BY <2>2, <3>1, <3>2
  <2> QED BY <2>3, <2>4, <2>5, Queues DEF DownStep
<1>6. Refusal("exhausted")' = Refusal("exhausted")
  BY DEF Refusal
<1> QED BY <1>1, <1>3, <1>4, <1>5, <1>6 DEF KeyBlockOpen, NotExhaustedWithKey

\* With the key in the keyspace no worker is ever told that the keyspace is
\* exhausted: its block is reported swept by nobody, so whoever loses it, dies
\* over it or reports on it late, it is never written off.
THEOREM KeyNeverWrittenOff == Spec => []NotExhaustedWithKey
<1>1. Init => KeyBlockOpen
  BY DEF Init, Reg!Init, KeyBlockOpen, NotExhaustedWithKey, TargetBlocks, Blocks
<1>2. KeyBlockOpen => NotExhaustedWithKey
  BY DEF KeyBlockOpen
<1> QED BY <1>1, <1>2, KeyBlockOpenNext, TypeInvAlways, PTL DEF Spec

-----------------------------------------------------------------------------
(* The registry's theorems in the swarm *)

RP == INSTANCE RangeRegistry_proofs

\* The registry that the theorems are about is the one that the swarm drives.
LEMMA SameInit == Reg!Init <=> RP!Init
BY DEF RP!Init, Reg!Init, RP!Blocks, Reg!Blocks, RP!BlocksOf, Reg!BlocksOf, RP!NoLease, Reg!NoLease

LEMMA SameNext == Reg!Next <=> RP!Next
BY DEF
   RP!Next, Reg!Next, RP!Call, Reg!Call, RP!LeaseBlock, Reg!LeaseBlock,
   RP!LeaseNone, Reg!LeaseNone, RP!ReleaseWorker, Reg!ReleaseWorker, RP!AckLease, Reg!AckLease,
   RP!RenewLease, Reg!RenewLease, RP!MarkSwept, Reg!MarkSwept, RP!Stale, Reg!Stale,
   RP!ReclaimExpired, Reg!ReclaimExpired, RP!Tick, Reg!Tick, RP!CallerIds, Reg!CallerIds,
   RP!OnlyReclaim, Reg!OnlyReclaim, RP!ReclaimTables, Reg!ReclaimTables,
   RP!ReclaimedState, Reg!ReclaimedState, RP!ReclaimedLeaseOf, Reg!ReclaimedLeaseOf,
   RP!ReclaimedTable, Reg!ReclaimedTable, RP!ExpiredBlocks, Reg!ExpiredBlocks,
   RP!FirstFree, Reg!FirstFree, RP!NewLease, Reg!NewLease, RP!Known, Reg!Known,
   RP!Rearm, Reg!Rearm, RP!HeldBy, Reg!HeldBy, RP!Ticked, Reg!Ticked, RP!Issued, Reg!Issued,
   RP!NoLease, Reg!NoLease, RP!Blocks, Reg!Blocks, RP!BlocksOf, Reg!BlocksOf, RP!vars, Reg!vars

LEMMA SameInvariant == Reg!IInv <=> RP!IInv
BY DEF
   RP!IInv, Reg!IInv, RP!TypeOK, Reg!TypeOK, RP!TableMatchesBlocks, Reg!TableMatchesBlocks,
   RP!LeaseFitsBlock, Reg!LeaseFitsBlock, RP!Blocks, Reg!Blocks, RP!BlocksOf, Reg!BlocksOf,
   RP!NoLease, Reg!NoLease, RP!Issued, Reg!Issued, RP!Lease, Reg!Lease,
   RP!LeaseState, Reg!LeaseState

LEMMA SameDisjoint == Reg!DisjointLeases <=> RP!DisjointLeases
BY DEF
   RP!DisjointLeases, Reg!DisjointLeases, RP!Overlap, Reg!Overlap, RP!BlockLo, Reg!BlockLo,
   RP!BlockHi, Reg!BlockHi, RP!LoOf, Reg!LoOf, RP!HiOf, Reg!HiOf

LEMMA SwarmIsRegistry == Spec => RP!Spec
<1>1. [Reg!Next]_(Reg!vars) => [RP!Next]_(RP!vars)
  BY SameNext DEF RP!vars, Reg!vars
<1>2. Reg!Spec => RP!Spec
  BY SameInit, <1>1, PTL DEF RP!Spec, Reg!Spec
<1> QED BY <1>2, SwarmDrivesRegistry, PTL DEF ImplementsRegistry

LEMMA SwarmRegistryInvariant == Spec => []Reg!IInv
<1>1. RP!Spec => []RP!IInv
  BY CoordinatorAssumption, RP!RegistryInvariant DEF RP!RegistryAssumption
<1> QED BY <1>1, SwarmIsRegistry, SameInvariant, PTL

\* Whatever the threads, the processes and the network do, no key is ever in
\* two leases of the registry's table.
THEOREM SwarmLeasesDisjoint == Spec => []Reg!DisjointLeases
<1>1. RP!Spec => []RP!DisjointLeases
  BY CoordinatorAssumption, RP!LeasesAreDisjoint DEF RP!RegistryAssumption
<1> QED BY <1>1, SwarmIsRegistry, SameDisjoint, PTL

-----------------------------------------------------------------------------
(* Requests and answers *)

\* The places in s where a message asks for something.
Asks(s) == {k \in DOMAIN s : s[k].t \in Requests}

\* Where process c and its handler stand in their dialogue; and what is left of
\* it for the process to read once the handler is out of its loop.
Dialogue(c) ==
    /\ clientAt[c] = "off" => handlerAt[c] = "none" /\ toServer[c] = <<>> /\ toWorker[c] = <<>>
    /\ clientAt[c] \in {"welcome", "idle", "await", "sweep", "leaving"} => handlerAt[c] # "none"
    /\ clientAt[c] = "welcome" => \A k \in DOMAIN toWorker[c] : toWorker[c][k].t = "Welcome"
    /\ clientAt[c] = "await" => \A k \in DOMAIN toWorker[c] : toWorker[c][k].t # "Welcome"
    /\ Served(c) =>
          /\ clientAt[c] \in {"welcome", "await"} => Outstanding(c) = 1
          /\ clientAt[c] \in {"idle", "sweep", "leaving"} => Outstanding(c) = 0
          /\ ~Gone(c) => \A k \in DOMAIN toServer[c] : toServer[c][k].t # "Goodbye"
          /\ clientAt[c] = "welcome" =>
                /\ handlerAt[c] \notin {"grant", "refuse"}
                /\ \A k \in DOMAIN toServer[c] : toServer[c][k].t # "WantLease"
          /\ clientAt[c] = "await" => \A k \in DOMAIN toServer[c] : toServer[c][k].t # "Hello"
    /\ ~Served(c) =>
          /\ clientAt[c] \in {"welcome", "await"} => Len(toWorker[c]) \in {0, 1}
          /\ clientAt[c] \in {"idle", "sweep"} => Len(toWorker[c]) = 0

\* While the server runs, every process and its handler are in step.
InStep == ~stopped => \A c \in Procs : Dialogue(c)

\* Counting the requests in a queue: what a send, a read and an empty queue do
\* to the count.
LEMMA AsksFinite ==
    ASSUME NEW s \in Seq(Up)
    PROVE  IsFiniteSet(Asks(s)) /\ Cardinality(Asks(s)) \in Nat
<1>1. IsFiniteSet(1 .. Len(s)) /\ Asks(s) \subseteq 1 .. Len(s)
  BY FS_Interval DEF Asks
<1>2. IsFiniteSet(Asks(s))
  BY <1>1, FS_Subset
<1> QED BY <1>2, FS_CardinalityType

LEMMA AsksAppend ==
    ASSUME NEW s \in Seq(Up), NEW m \in Up
    PROVE  Cardinality(Asks(Append(s, m))) =
              Cardinality(Asks(s)) + (IF m.t \in Requests THEN 1 ELSE 0)
<1>1. Len(Append(s, m)) = Len(s) + 1 /\ Append(s, m)[Len(s) + 1] = m
      /\ \A k \in DOMAIN s : Append(s, m)[k] = s[k]
  OBVIOUS
<1>2. DOMAIN Append(s, m) = DOMAIN s \cup {Len(s) + 1} /\ Len(s) + 1 \notin DOMAIN s
  BY <1>1
<1>3. Asks(Append(s, m)) = Asks(s) \cup (IF m.t \in Requests THEN {Len(s) + 1} ELSE {})
  BY <1>1, <1>2 DEF Asks
<1>4. Len(s) + 1 \notin Asks(s)
  BY <1>2 DEF Asks
<1>5. CASE m.t \in Requests
  BY <1>3, <1>4, <1>5, AsksFinite, FS_AddElement
<1>6. CASE m.t \notin Requests
  BY <1>3, <1>6, AsksFinite
<1> QED BY <1>5, <1>6

LEMMA AsksTail ==
    ASSUME NEW s \in Seq(Up), s # <<>>
    PROVE  Cardinality(Asks(s)) =
              Cardinality(Asks(Tail(s))) + (IF Head(s).t \in Requests THEN 1 ELSE 0)
<1> DEFINE later == Asks(s) \ {1}
           f == [k \in Asks(Tail(s)) |-> k + 1]
<1>1. /\ Len(Tail(s)) = Len(s) - 1 /\ DOMAIN Tail(s) = 1 .. Len(s) - 1 /\ DOMAIN s = 1 .. Len(s)
      /\ \A k \in 1 .. Len(s) - 1 : Tail(s)[k] = s[k + 1]
      /\ Head(s) = s[1] /\ 1 \in DOMAIN s /\ Tail(s) \in Seq(Up) /\ Len(s) \in Nat
  OBVIOUS
<1>2. \A k \in Asks(Tail(s)) : k + 1 \in later
  BY <1>1 DEF Asks
<1>3. \A k \in later : k - 1 \in Asks(Tail(s))
  BY <1>1 DEF Asks
<1>4. f \in Bijection(Asks(Tail(s)), later)
  <2>1. \A k \in Asks(Tail(s)) : k \in Int
    BY <1>1 DEF Asks
  <2>2. \A k \in later : k \in Int
    BY <1>1 DEF Asks
  <2>3. f \in [Asks(Tail(s)) -> later]
    BY <1>2
  <2>4. \A k \in later : \E j \in Asks(Tail(s)) : f[j] = k
    BY <1>3, <2>2
  <2>5. \A j, k \in Asks(Tail(s)) : f[j] = f[k] => j = k
    BY <2>1
  <2> HIDE DEF f, later
  <2> QED BY <2>3, <2>4, <2>5 DEF Bijection, Injection, Surjection, IsInjective
<1>5. IsFiniteSet(later) /\ Cardinality(later) = Cardinality(Asks(Tail(s)))
  <2> HIDE DEF f, later
  <2> QED BY <1>1, <1>4, AsksFinite, FS_Bijection DEF ExistsBijection
<1>6. 1 \in Asks(s) <=> Head(s).t \in Requests
  BY <1>1 DEF Asks
<1>7. CASE Head(s).t \in Requests
  <2>1. Cardinality(later) = Cardinality(Asks(s)) - 1
    BY <1>6, <1>7, AsksFinite, FS_RemoveElement
  <2>2. Cardinality(Asks(s)) \in Nat /\ Cardinality(Asks(Tail(s))) \in Nat
    BY <1>1, AsksFinite
  <2> QED BY <1>5, <1>7, <2>1, <2>2
<1>8. CASE Head(s).t \notin Requests
  <2>1. later = Asks(s)
    BY <1>6, <1>8
  <2>2. Cardinality(Asks(Tail(s))) \in Nat
    BY <1>1, AsksFinite
  <2>3. Cardinality(Asks(s)) = Cardinality(Asks(Tail(s)))
    BY <1>5, <2>1
  <2> QED BY <1>8, <2>2, <2>3
<1> QED BY <1>7, <1>8

LEMMA NoAsks == Cardinality(Asks(<<>>)) = 0
<1>1. Asks(<<>>) = {}
  BY DEF Asks
<1> QED BY <1>1, FS_EmptySet

\* With none counted there is none.
LEMMA AsksZero ==
    ASSUME NEW s \in Seq(Up), Cardinality(Asks(s)) = 0
    PROVE  \A k \in DOMAIN s : s[k].t \notin Requests
<1>1. Asks(s) = {}
  BY AsksFinite, FS_EmptySet
<1> QED BY <1>1 DEF Asks

\* What a step of one process or handler leaves alone at another.
Untouched(d) ==
    /\ clientAt'[d] = clientAt[d] /\ handlerAt'[d] = handlerAt[d]
    /\ toServer'[d] = toServer[d] /\ toWorker'[d] = toWorker[d]
    /\ held'[d] = held[d] /\ report'[d] = report[d]

\* The steps of a process and of its handler are theirs alone.
LEMMA OthersUntouched ==
    ASSUME TypeInv, NEW c \in Procs, NEW d \in Procs, c # d,
           \/ ClientStep(c) \/ SendHeartbeat(c) \/ TimeOut(c) \/ Crash(c)
           \/ HandlerStep(c) \/ OnConnectionLost(c)
    PROVE  Untouched(d)
<1> USE DEF TypeInv, SwarmType, Untouched, handlerVars, serverVars, netVars, clientVars,
            ClientSends, ProcessEnds
<1>1. CASE Connect(c) \/ ReadWelcome(c) \/ AskForLease(c) \/ ReachMaxBlocks(c) \/ ReadLease(c)
             \/ ReadNoWork(c)
  BY <1>1 DEF Connect, ReadWelcome, AskForLease, ReachMaxBlocks, ReadLease, ReadNoWork
<1>2. CASE ReportSwept(c) \/ ReportFound(c) \/ Disconnected(c) \/ Leave(c) \/ SendHeartbeat(c)
             \/ TimeOut(c) \/ Crash(c)
  BY <1>2 DEF ReportSwept, ReportFound, Disconnected, Leave, SendHeartbeat, TimeOut, Crash
<1>3. CASE OnHello(c) \/ OnWantLease(c) \/ Grant(c) \/ Refuse(c)
  BY <1>3 DEF OnHello, OnWantLease, Grant, Refuse, Replies, Reads
<1>4. CASE GrantNone(c) \/ OnLeaseAck(c) \/ OnHeartbeat(c) \/ OnSwept(c) \/ OnFound(c)
  BY <1>4 DEF GrantNone, OnLeaseAck, OnHeartbeat, OnSwept, OnFound, Reads
<1>5. CASE RecordCoverage(c) \/ OnGoodbye(c) \/ EndLoop(c) \/ Cleanup(c) \/ OnConnectionLost(c)
  BY <1>5 DEF RecordCoverage, OnGoodbye, EndLoop, Cleanup, OnConnectionLost, Reads
<1> QED BY <1>1, <1>2, <1>3, <1>4, <1>5 DEF ClientStep, HandlerStep

\* What a queue holds after a message is added, or read, it held before.
LEMMA InQueue ==
    ASSUME NEW S, NEW s \in Seq(S)
    PROVE  /\ \A m : \A k \in DOMAIN Append(s, m) :
                  Append(s, m)[k] = m \/ \E j \in DOMAIN s : Append(s, m)[k] = s[j]
           /\ s # <<>> => /\ \A k \in DOMAIN Tail(s) : \E j \in DOMAIN s : Tail(s)[k] = s[j]
                          /\ \E j \in DOMAIN s : Head(s) = s[j]
<1>1. \A m : Len(Append(s, m)) = Len(s) + 1 /\ Append(s, m)[Len(s) + 1] = m
             /\ \A k \in 1 .. Len(s) : Append(s, m)[k] = s[k]
  OBVIOUS
<1>2. ASSUME s # <<>>
      PROVE  /\ DOMAIN Tail(s) = 1 .. Len(s) - 1
             /\ \A k \in 1 .. Len(s) - 1 : Tail(s)[k] = s[k + 1] /\ k + 1 \in DOMAIN s
             /\ Head(s) = s[1] /\ 1 \in DOMAIN s
  BY <1>2
<1> QED BY <1>1, <1>2

\* Outstanding counts with Asks, in this state and the next.
LEMMA Counted ==
    ASSUME NEW c
    PROVE  /\ Unanswered(c) = Cardinality(Asks(toServer[c]))
           /\ Unanswered(c)' = Cardinality(Asks(toServer'[c]))
BY DEF Unanswered, Asks, Requests

\* Whom a step leaves alone stays in step.
LEMMA UntouchedDialogue ==
    ASSUME NEW d, Untouched(d), Dialogue(d)
    PROVE  Dialogue(d)'
<1>1. Outstanding(d)' = Outstanding(d)
  BY Counted DEF Untouched, Outstanding, BeingAnswered
<1> QED BY <1>1 DEF Untouched, Dialogue, Gone, Served

\* Once its handler is out of the loop a process reads at most what was left.
LEMMA UnservedDialogue ==
    ASSUME TypeInv, NEW c \in Procs, Dialogue(c), ~Served(c), ~Connect(c),
           ClientStep(c) \/ SendHeartbeat(c) \/ TimeOut(c) \/ Crash(c)
    PROVE  Dialogue(c)'
<1> USE DEF TypeInv, SwarmType, netVars, clientVars, handlerVars, ProcessEnds, Gone, Served
<1>1. toWorker[c] \in Seq(Down)
  OBVIOUS
<1>2. toWorker[c] # <<>> => Len(Tail(toWorker[c])) = Len(toWorker[c]) - 1
  BY <1>1
<1>3. /\ Len(toWorker[c]) = 0 => \A k \in DOMAIN toWorker[c] : FALSE
      /\ Len(toWorker[c]) = 0 => toWorker[c] = <<>>
  BY <1>1
<1>4. CASE ReadWelcome(c) \/ ReadNoWork(c) \/ ReadLease(c)
  <2>1. /\ clientAt[c] \in {"welcome", "await"} /\ toWorker[c] # <<>>
        /\ toWorker'[c] = Tail(toWorker[c]) /\ handlerAt' = handlerAt
        /\ clientAt'[c] \in {"idle", "leaving", "sweep"}
    BY <1>4 DEF ReadWelcome, ReadNoWork, ReadLease
  <2>2. handlerAt[c] # "none" /\ Len(toWorker[c]) \in {0, 1}
    BY <2>1 DEF Dialogue
  <2>3. Len(toWorker'[c]) = 0
    BY <1>1, <1>2, <2>1, <2>2
  <2> HIDE DEF TypeInv, SwarmType
  <2> QED BY <2>1, <2>2, <2>3 DEF Dialogue
<1>5. CASE AskForLease(c) \/ ReachMaxBlocks(c)
  BY <1>3, <1>5 DEF AskForLease, ReachMaxBlocks, Dialogue
<1>6. CASE ReportSwept(c) \/ ReportFound(c) \/ SendHeartbeat(c)
  BY <1>6 DEF ReportSwept, ReportFound, SendHeartbeat, Dialogue
<1>7. CASE Disconnected(c) \/ TimeOut(c)
  BY <1>7 DEF Disconnected, TimeOut, Dialogue
<1>8. CASE Leave(c) \/ Crash(c)
  BY <1>8 DEF Leave, Crash, Dialogue
<1> QED BY <1>4, <1>5, <1>6, <1>7, <1>8 DEF ClientStep

\* A process asks only when nothing is outstanding, and reads what it asked for.
LEMMA ClientDialogue ==
    ASSUME TypeInv, NEW c \in Procs, Dialogue(c),
           \/ ClientStep(c) \/ SendHeartbeat(c) \/ TimeOut(c) \/ Crash(c), ~stopped
    PROVE  Dialogue(c)'
<1> USE DEF TypeInv, SwarmType, netVars, clientVars, handlerVars, ProcessEnds, Gone, Served
<1>1. toServer[c] \in Seq(Up) /\ toWorker[c] \in Seq(Down)
  OBVIOUS
<1>2. Cardinality(Asks(toServer[c])) \in Nat /\ Len(toWorker[c]) \in Nat
  BY AsksFinite
<1>3. Outstanding(c) = Cardinality(Asks(toServer[c])) + BeingAnswered(c) + Len(toWorker[c])
      /\ Outstanding(c)' = Cardinality(Asks(toServer'[c])) + BeingAnswered(c)' + Len(toWorker'[c])
  BY Counted DEF Outstanding
<1>4. \A m \in Up : /\ Cardinality(Asks(Append(toServer[c], m))) =
                          Cardinality(Asks(toServer[c])) + (IF m.t \in Requests THEN 1 ELSE 0)
                    /\ \A k \in DOMAIN Append(toServer[c], m) :
                          \/ Append(toServer[c], m)[k] = m
                          \/ \E j \in DOMAIN toServer[c] : Append(toServer[c], m)[k] = toServer[c][j]
  BY <1>1, AsksAppend, InQueue
<1>5. ASSUME toWorker[c] # <<>>
      PROVE  /\ Len(Tail(toWorker[c])) = Len(toWorker[c]) - 1
             /\ \A k \in DOMAIN Tail(toWorker[c]) :
                   \E j \in DOMAIN toWorker[c] : Tail(toWorker[c])[k] = toWorker[c][j]
  BY <1>1, <1>5, InQueue
<1>6. CASE Connect(c)
  <2>1. /\ toServer'[c] = Append(<<>>, Msg("Hello")) /\ toWorker'[c] = <<>>
        /\ clientAt'[c] = "welcome" /\ handlerAt'[c] = "read"
    BY <1>6 DEF Connect, ClientSends, Dialogue
  <2>2. Cardinality(Asks(toServer'[c])) = 1
    <3>1. Msg("Hello") \in Up /\ Msg("Hello").t \in Requests
      BY MessageKinds DEF Requests
    <3>2. toServer[c] = <<>> /\ Cardinality(Asks(toServer[c])) = 0
      BY <1>6, NoAsks DEF Connect, Dialogue
    <3>3. Cardinality(Asks(Append(toServer[c], Msg("Hello")))) = 1
      BY <1>4, <3>1, <3>2
    <3> QED BY <2>1, <3>2, <3>3
  <2>3. \A k \in DOMAIN toServer'[c] : toServer'[c][k].t = "Hello"
    BY <2>1, MessageKinds
  <2> QED BY <1>3, <2>1, <2>2, <2>3 DEF Dialogue, BeingAnswered
<1>7. CASE Served(c) /\ ReadWelcome(c)
  BY <1>2, <1>3, <1>5, <1>7 DEF ReadWelcome, Dialogue, BeingAnswered
<1>8. CASE Served(c) /\ AskForLease(c)
  <2>1. /\ toServer'[c] = Append(toServer[c], Msg("WantLease")) /\ toWorker'[c] = toWorker[c]
        /\ clientAt[c] = "idle" /\ clientAt'[c] = "await" /\ handlerAt'[c] = handlerAt[c]
    BY <1>8 DEF AskForLease, ClientSends
  <2>2. Msg("WantLease") \in Up /\ Msg("WantLease").t = "WantLease"
    BY MessageKinds
  <2>3. Cardinality(Asks(toServer'[c])) = Cardinality(Asks(toServer[c])) + 1
    BY <1>4, <2>1, <2>2 DEF Requests
  <2>4. Cardinality(Asks(toServer[c])) = 0 /\ Len(toWorker[c]) = 0
    <3>1. Outstanding(c) = 0
      BY <1>8, <2>1 DEF Dialogue
    <3> QED BY <1>2, <1>3, <3>1 DEF BeingAnswered
  <2>5. \A k \in DOMAIN toServer'[c] : toServer'[c][k].t \notin {"Hello", "Goodbye"}
    <3>1. \A k \in DOMAIN toServer[c] : toServer[c][k].t \notin {"Hello", "Goodbye"}
      BY <1>1, <1>8, <2>1, <2>4, AsksZero DEF Requests, Dialogue
    <3> QED BY <1>4, <2>1, <2>2, <3>1
  <2> QED BY <1>2, <1>3, <2>1, <2>3, <2>4, <2>5 DEF Dialogue, BeingAnswered
<1>9. CASE Served(c) /\ ReachMaxBlocks(c)
  BY <1>3, <1>9 DEF ReachMaxBlocks, Dialogue, BeingAnswered
<1>10. CASE Served(c) /\ ReadLease(c)
  <2> DEFINE m == LeaseMsg("LeaseAck", Head(toWorker[c]).id)
  <2>1. Head(toWorker[c]) \in Down
    BY <1>10 DEF ReadLease
  <2>2. Head(toWorker[c]).id \in Reg!Issued
    BY <1>10, <2>1 DEF ReadLease, Down
  <2>3. m \in Up /\ m.t = "LeaseAck" /\ m.t \notin Requests
    BY <2>2, MessageKinds DEF Requests
  <2>4. /\ toServer'[c] = Append(toServer[c], m) /\ toWorker'[c] = Tail(toWorker[c])
        /\ clientAt[c] = "await" /\ clientAt'[c] = "sweep" /\ handlerAt'[c] = handlerAt[c]
    BY <1>10 DEF ReadLease, ClientSends
  <2> HIDE DEF m
  <2>5. Cardinality(Asks(toServer'[c])) = Cardinality(Asks(toServer[c]))
    BY <1>2, <1>4, <2>3, <2>4
  <2>6. \A k \in DOMAIN toServer'[c] : toServer'[c][k].t # "Goodbye"
    <3>1. \A k \in DOMAIN toServer[c] : toServer[c][k].t # "Goodbye"
      BY <1>10, <2>4 DEF Dialogue
    <3> QED BY <1>4, <2>3, <2>4, <3>1
  <2> QED BY <1>2, <1>3, <1>5, <1>10, <2>4, <2>5, <2>6 DEF ReadLease, Dialogue, BeingAnswered
<1>11. CASE Served(c) /\ ReadNoWork(c)
  BY <1>2, <1>3, <1>5, <1>11 DEF ReadNoWork, Dialogue, BeingAnswered
<1>12. CASE Served(c) /\ (ReportSwept(c) \/ ReportFound(c) \/ SendHeartbeat(c))
  <2>1. held[c] \in Reg!Issued
    BY <1>12 DEF ReportSwept, ReportFound, SendHeartbeat
  <2>2. \E y \in {"Swept", "Found", "Heartbeat"} :
           toServer'[c] = Append(toServer[c], LeaseMsg(y, held[c]))
    BY <1>12 DEF ReportSwept, ReportFound, SendHeartbeat, ClientSends
  <2>3. PICK m \in Up : toServer'[c] = Append(toServer[c], m) /\ m.t \notin Requests /\ m.t # "Goodbye"
    BY <2>1, <2>2, MessageKinds DEF Requests
  <2>4. Cardinality(Asks(toServer'[c])) = Cardinality(Asks(toServer[c]))
    BY <1>2, <1>4, <2>3
  <2>5. \A k \in DOMAIN toServer'[c] : toServer'[c][k].t # "Goodbye"
    BY <1>4, <1>12, <2>3 DEF Dialogue, ReportSwept, ReportFound, SendHeartbeat
  <2>6. /\ clientAt[c] = "sweep" /\ clientAt'[c] \in {"sweep", "idle", "leaving"}
        /\ handlerAt'[c] = handlerAt[c] /\ toWorker'[c] = toWorker[c]
    BY <1>12 DEF ReportSwept, ReportFound, SendHeartbeat
  <2> QED BY <1>3, <2>4, <2>5, <2>6 DEF Dialogue, BeingAnswered
<1>13. CASE Served(c) /\ Disconnected(c)
  BY <1>13 DEF Disconnected
<1>14. CASE Served(c) /\ Leave(c)
  BY <1>14 DEF Leave, Dialogue
<1>15. CASE Served(c) /\ TimeOut(c)
  BY <1>15 DEF TimeOut, Dialogue
<1>16. CASE Served(c) /\ Crash(c)
  BY <1>16 DEF Crash, Dialogue
<1>17. CASE ~Served(c) /\ ~Connect(c)
  BY <1>17, UnservedDialogue
<1> QED BY <1>6, <1>7, <1>8, <1>9, <1>10, <1>11, <1>12, <1>13, <1>14, <1>15, <1>16, <1>17
        DEF ClientStep

\* An answer goes out, or its connection is already gone.
LEMMA Answered ==
    ASSUME TypeInv, NEW c \in Procs, NEW m, Replies(c, m), ~stopped, ~Gone(c)
    PROVE  /\ handlerAt'[c] = "read" /\ toWorker'[c] = Append(toWorker[c], m)
           /\ Len(toWorker'[c]) = Len(toWorker[c]) + 1
           /\ (\A k \in DOMAIN toWorker[c] : toWorker[c][k].t = m.t) =>
                 \A k \in DOMAIN toWorker'[c] : toWorker'[c][k].t = m.t
           /\ m.t # "Welcome" /\ (\A k \in DOMAIN toWorker[c] : toWorker[c][k].t # "Welcome") =>
                 \A k \in DOMAIN toWorker'[c] : toWorker'[c][k].t # "Welcome"
<1>1. toWorker[c] \in Seq(Down)
  BY DEF TypeInv, SwarmType
<1>2. handlerAt'[c] = "read" /\ toWorker'[c] = Append(toWorker[c], m)
  BY DEF TypeInv, SwarmType, Replies
<1> QED BY <1>1, <1>2, InQueue

\* A handler takes up one request, and answers it once or is gone.
LEMMA HandlerDialogue ==
    ASSUME TypeInv, NEW c \in Procs, Dialogue(c), HandlerStep(c) \/ OnConnectionLost(c), ~stopped
    PROVE  Dialogue(c)'
<1> USE DEF TypeInv, SwarmType, netVars, clientVars, handlerVars, Served
<1> DEFINE n == Cardinality(Asks(toServer[c]))
           up == toServer[c]
<1>1. toServer[c] \in Seq(Up) /\ toWorker[c] \in Seq(Down)
  OBVIOUS
<1>2. n \in Nat /\ Len(toWorker[c]) \in Nat
  BY AsksFinite
<1>3. Outstanding(c) = n + BeingAnswered(c) + Len(toWorker[c])
      /\ Outstanding(c)' = Cardinality(Asks(toServer'[c])) + BeingAnswered(c)' + Len(toWorker'[c])
  BY Counted DEF Outstanding
<1>4. ASSUME NEW y, Reads(c, y)
      PROVE  /\ handlerAt[c] = "read" /\ Head(up).t = y /\ toServer'[c] = Tail(up)
             /\ Cardinality(Asks(toServer'[c])) = n - (IF y \in Requests THEN 1 ELSE 0)
             /\ Cardinality(Asks(toServer'[c])) \in Nat
             /\ \A k \in DOMAIN toServer'[c] : \E j \in DOMAIN up : toServer'[c][k] = up[j]
             /\ \E j \in DOMAIN up : up[j].t = y
  <2>1. up # <<>> /\ handlerAt[c] = "read" /\ Head(up).t = y /\ toServer'[c] = Tail(up)
    BY <1>4 DEF Reads
  <2>2. Cardinality(Asks(Tail(up))) \in Nat
    <3>1. Tail(up) \in Seq(Up)
      BY <1>1, <2>1
    <3> QED BY <3>1, AsksFinite
  <2>3. n = Cardinality(Asks(Tail(up))) + (IF Head(up).t \in Requests THEN 1 ELSE 0)
    BY <1>1, <2>1, AsksTail
  <2> HIDE DEF n
  <2>4. Cardinality(Asks(Tail(up))) = n - (IF y \in Requests THEN 1 ELSE 0)
    BY <2>1, <2>2, <2>3
  <2>5. /\ \A k \in DOMAIN Tail(up) : \E j \in DOMAIN up : Tail(up)[k] = up[j]
        /\ \E j \in DOMAIN up : Head(up) = up[j]
    BY <1>1, <2>1, InQueue
  <2> QED BY <2>1, <2>2, <2>4, <2>5
<1> HIDE DEF n
<1>5. /\ Msg("Welcome").t = "Welcome" /\ \A i : LeaseMsg("Lease", i).t = "Lease"
      /\ \A r : Refusal(r).t = "NoWork"
  BY DEF Msg, LeaseMsg, Refusal
<1>6. CASE OnHello(c)
  <2>1. Reads(c, "Hello") /\ Replies(c, Msg("Welcome")) /\ clientAt' = clientAt
    BY <1>6 DEF OnHello
  <2>2. CASE Gone(c)
    BY <2>1, <2>2 DEF Dialogue, Gone
  <2>3. CASE ~Gone(c)
    <3>1. Cardinality(Asks(toServer'[c])) = n - 1 /\ n - 1 \in Nat /\ handlerAt[c] = "read"
      BY <1>2, <1>4, <2>1 DEF Requests
    <3>2. clientAt[c] \in {"welcome", "gaveUp"}
      <4>1. clientAt[c] # "off" /\ clientAt[c] # "await"
        BY <1>4, <2>1 DEF Dialogue
      <4>2. clientAt[c] \notin {"idle", "sweep", "leaving"}
        BY <1>2, <1>3, <3>1 DEF Dialogue, BeingAnswered
      <4> QED BY <2>3, <4>1, <4>2 DEF ClientAts, Gone
    <3>3. /\ handlerAt'[c] = "read" /\ Len(toWorker'[c]) = Len(toWorker[c]) + 1
          /\ (\A k \in DOMAIN toWorker[c] : toWorker[c][k].t = "Welcome") =>
                \A k \in DOMAIN toWorker'[c] : toWorker'[c][k].t = "Welcome"
      <4> DEFINE m == Msg("Welcome")
      <4>1. m.t = "Welcome" /\ Replies(c, m)
        BY <1>5, <2>1
      <4> HIDE DEF m
      <4>2. /\ handlerAt'[c] = "read" /\ Len(toWorker'[c]) = Len(toWorker[c]) + 1
            /\ (\A k \in DOMAIN toWorker[c] : toWorker[c][k].t = m.t) =>
                  \A k \in DOMAIN toWorker'[c] : toWorker'[c][k].t = m.t
        BY <2>3, <4>1, Answered
      <4> QED BY <4>1, <4>2
    <3>4. Outstanding(c)' = Outstanding(c)
      BY <1>2, <1>3, <3>1, <3>3 DEF BeingAnswered
    <3> QED BY <1>4, <2>1, <2>3, <3>1, <3>2, <3>3, <3>4 DEF Dialogue, Gone
  <2> QED BY <2>2, <2>3
<1>7. CASE OnWantLease(c)
  <2>1. Reads(c, "WantLease") /\ clientAt' = clientAt
    BY <1>7 DEF OnWantLease
  <2>2. CASE Gone(c)
    BY <2>1, <2>2 DEF Dialogue, Gone
  <2>3. CASE ~Gone(c)
    <3>1. Cardinality(Asks(toServer'[c])) = n - 1 /\ n - 1 \in Nat /\ handlerAt[c] = "read"
      BY <1>2, <1>4, <2>1 DEF Requests
    <3>2. clientAt[c] \in {"await", "gaveUp"}
      <4>1. clientAt[c] # "off" /\ clientAt[c] # "welcome"
        BY <1>4, <2>1 DEF Dialogue
      <4>2. clientAt[c] \notin {"idle", "sweep", "leaving"}
        BY <1>2, <1>3, <3>1 DEF Dialogue, BeingAnswered
      <4> QED BY <2>3, <4>1, <4>2 DEF ClientAts, Gone
    <3>3. CASE Replies(c, Refusal("found"))
      <4>1. /\ handlerAt'[c] = "read" /\ Len(toWorker'[c]) = Len(toWorker[c]) + 1
            /\ (\A k \in DOMAIN toWorker[c] : toWorker[c][k].t # "Welcome") =>
                  \A k \in DOMAIN toWorker'[c] : toWorker'[c][k].t # "Welcome"
        BY <1>5, <2>3, <3>3, Answered
      <4>2. Outstanding(c)' = Outstanding(c)
        BY <1>2, <1>3, <3>1, <4>1 DEF BeingAnswered
      <4> QED BY <1>4, <2>1, <2>3, <3>1, <3>2, <4>1, <4>2 DEF Dialogue, Gone
    <3>4. CASE handlerAt'[c] = "grant" /\ toWorker'[c] = toWorker[c]
      <4>1. Outstanding(c)' = Outstanding(c)
        BY <1>2, <1>3, <3>1, <3>4 DEF BeingAnswered
      <4> QED BY <1>4, <2>1, <2>3, <3>1, <3>2, <3>4, <4>1 DEF Dialogue, Gone
    <3> QED BY <1>7, <3>3, <3>4 DEF OnWantLease
  <2> QED BY <2>2, <2>3
<1>8. CASE Grant(c) \/ Refuse(c)
  <2>1. PICK m : Replies(c, m) /\ m.t # "Welcome"
    BY <1>5, <1>8 DEF Grant, Refuse
  <2>2. handlerAt[c] \in {"grant", "refuse"} /\ clientAt' = clientAt /\ toServer' = toServer
    BY <1>8 DEF Grant, Refuse
  <2>3. CASE Gone(c)
    BY <2>2, <2>3 DEF Dialogue, Gone
  <2>4. CASE ~Gone(c)
    <3>1. /\ handlerAt'[c] = "read" /\ Len(toWorker'[c]) = Len(toWorker[c]) + 1
          /\ (\A k \in DOMAIN toWorker[c] : toWorker[c][k].t # "Welcome") =>
                \A k \in DOMAIN toWorker'[c] : toWorker'[c][k].t # "Welcome"
      BY <2>1, <2>4, Answered
    <3>2. Outstanding(c)' = Outstanding(c)
      BY <1>2, <1>3, <2>2, <3>1 DEF BeingAnswered, n
    <3> QED BY <2>2, <2>4, <3>1, <3>2 DEF Dialogue, Gone
  <2> QED BY <2>3, <2>4
<1>9. CASE GrantNone(c)
  <2>1. Outstanding(c)' = Outstanding(c)
    BY <1>3, <1>9 DEF GrantNone, BeingAnswered, n
  <2> QED BY <1>9, <2>1 DEF GrantNone, Dialogue, Gone
<1>10. CASE OnLeaseAck(c) \/ OnHeartbeat(c) \/ OnSwept(c) \/ OnFound(c)
  <2>1. /\ \E y \in {"LeaseAck", "Heartbeat", "Swept", "Found"} : Reads(c, y)
        /\ handlerAt'[c] \in {"read", "record"} /\ clientAt' = clientAt /\ toWorker' = toWorker
    BY <1>10 DEF OnLeaseAck, OnHeartbeat, OnSwept, OnFound, Reads
  <2>2. /\ handlerAt[c] = "read" /\ Cardinality(Asks(toServer'[c])) = n
        /\ up # <<>>
        /\ \A k \in DOMAIN toServer'[c] : \E j \in DOMAIN up : toServer'[c][k] = up[j]
    <3> PICK y \in {"LeaseAck", "Heartbeat", "Swept", "Found"} : Reads(c, y)
      BY <2>1
    <3>1. y \notin Requests
      BY DEF Requests
    <3>2. /\ handlerAt[c] = "read" /\ Cardinality(Asks(toServer'[c])) = n
          /\ \A k \in DOMAIN toServer'[c] : \E j \in DOMAIN up : toServer'[c][k] = up[j]
      BY <1>2, <1>4, <3>1
    <3> QED BY <3>2 DEF Reads
  <2>3. Outstanding(c)' = Outstanding(c)
    BY <1>3, <2>1, <2>2 DEF BeingAnswered
  <2> QED BY <2>1, <2>2, <2>3 DEF Dialogue, Gone
<1>11. CASE RecordCoverage(c)
  <2>1. Outstanding(c)' = Outstanding(c)
    BY <1>3, <1>11 DEF RecordCoverage, BeingAnswered, n
  <2> QED BY <1>11, <2>1 DEF RecordCoverage, Dialogue, Gone
<1>12. CASE OnGoodbye(c)
  <2>1. Gone(c) /\ clientAt' = clientAt
    BY <1>4, <1>12 DEF OnGoodbye, Dialogue
  <2> QED BY <2>1 DEF Dialogue, Gone
<1>13. CASE OnConnectionLost(c)
  <2>1. /\ Outstanding(c) = 1 => Len(toWorker[c]) \in {0, 1}
        /\ Outstanding(c) = 0 => Len(toWorker[c]) = 0
    <3>1. BeingAnswered(c) \in {0, 1}
      BY DEF BeingAnswered
    <3>2. \A a \in Nat, b \in {0, 1}, l \in Nat :
             /\ a + b + l = 1 => l \in {0, 1}
             /\ a + b + l = 0 => l = 0
      OBVIOUS
    <3> QED BY ONLY <1>2, <1>3, <3>1, <3>2
  <2>2. Served(c) /\ ~Served(c)'
    BY <1>13 DEF OnConnectionLost
  <2>3. clientAt' = clientAt /\ toServer' = toServer /\ toWorker' = toWorker
        /\ handlerAt'[c] = "cleanup"
    BY <1>13 DEF OnConnectionLost
  <2>4. /\ clientAt[c] \in {"welcome", "await"} => Len(toWorker[c]) \in {0, 1}
        /\ clientAt[c] \in {"idle", "sweep"} => Len(toWorker[c]) = 0
    BY <2>1, <2>2 DEF Dialogue
  <2>5. clientAt[c] # "off"
    BY <2>2 DEF Dialogue
  <2> HIDE DEF Served
  <2> QED BY <2>2, <2>3, <2>4, <2>5 DEF Dialogue
<1>14. CASE EndLoop(c)
  BY <1>14 DEF EndLoop
<1>15. CASE Cleanup(c)
  BY <1>15 DEF Cleanup, Dialogue, Gone
<1> QED BY <1>6, <1>7, <1>8, <1>9, <1>10, <1>11, <1>12, <1>13, <1>14, <1>15 DEF HandlerStep

LEMMA InStepNext ==
    ASSUME TypeInv, InStep, [Next]_vars
    PROVE  InStep'
<1> SUFFICES ASSUME ~stopped', NEW d \in Procs
             PROVE  Dialogue(d)'
  BY DEF InStep
<1>1. ~stopped
  BY DEF Next, ClientStep, HandlerStep, Reap, Tick, Reg!Tick, Stop, vars
<1>2. Dialogue(d)
  BY <1>1 DEF InStep
<1>3. CASE Untouched(d)
  BY <1>2, <1>3, UntouchedDialogue
<1>4. CASE \E c \in Procs : ClientStep(c) \/ SendHeartbeat(c) \/ TimeOut(c) \/ Crash(c)
  BY <1>1, <1>2, <1>3, <1>4, ClientDialogue, OthersUntouched
<1>5. CASE \E c \in Procs : HandlerStep(c) \/ OnConnectionLost(c)
  BY <1>1, <1>2, <1>3, <1>5, HandlerDialogue, OthersUntouched
<1>6. CASE Reap \/ Tick \/ Stop \/ UNCHANGED vars
  BY <1>3, <1>6 DEF Reap, Tick, Stop, vars, handlerVars, clientVars, netVars, Untouched
<1> QED BY <1>4, <1>5, <1>6 DEF Next

LEMMA InStepAlways == Spec => []InStep
<1>1. Init => InStep
  BY DEF Init, InStep, Dialogue, Gone, Served
<1> QED BY <1>1, InStepNext, TypeInvAlways, PTL DEF Spec

\* While a connection is served, request and answer never get out of step: a
\* waiting process has exactly one of its request, the handler at work on it
\* and the answer ahead of it, and a process that does not wait has none.
THEOREM AnswersFitRequests == Spec => []AnswersMatchRequests
<1>1. TypeInv /\ InStep => AnswersMatchRequests
  <2> SUFFICES ASSUME TypeInv, InStep, ~stopped, NEW c \in Procs
               PROVE  /\ Served(c) /\ clientAt[c] \in {"welcome", "await"} => Outstanding(c) = 1
                      /\ Served(c) /\ clientAt[c] \in {"idle", "sweep", "leaving"} =>
                            Outstanding(c) = 0
                      /\ toWorker[c] # <<>> /\ clientAt[c] \in {"welcome", "await"} =>
                            (clientAt[c] = "welcome" <=> Head(toWorker[c]).t = "Welcome")
    BY DEF AnswersMatchRequests
  <2>1. Dialogue(c)
    BY DEF InStep
  <2>2. toWorker[c] # <<>> => \E j \in DOMAIN toWorker[c] : Head(toWorker[c]) = toWorker[c][j]
    BY InQueue DEF TypeInv, SwarmType
  <2> QED BY <2>1, <2>2 DEF Dialogue
<1> QED BY <1>1, InStepAlways, TypeInvAlways, PTL

-----------------------------------------------------------------------------
(* The end of the search *)

\* Nothing in the queue is a lease.
NoLeaseIn(s) == \A k \in DOMAIN s : s[k].t # "Lease"

\* The key is found, and process c does not sweep and will get no lease: none is
\* on its way, and its handler is not past the test of the latch.
Retired(c) ==
    /\ found # NotFound
    /\ clientAt[c] # "sweep"
    /\ clientAt[c] \in {"off", "welcome", "idle", "await"} =>
           handlerAt[c] # "grant" /\ NoLeaseIn(toWorker[c])

LEMMA NoLeaseAfter ==
    ASSUME NEW s \in Seq(Down), NoLeaseIn(s)
    PROVE  /\ \A m : m.t # "Lease" => NoLeaseIn(Append(s, m))
           /\ s # <<>> => Head(s).t # "Lease" /\ NoLeaseIn(Tail(s))
BY InQueue DEF NoLeaseIn

LEMMA LatchHolds ==
    ASSUME found # NotFound, [Next]_vars
    PROVE  found' # NotFound
<1>1. ASSUME NEW c \in Procs, ClientStep(c) \/ SendHeartbeat(c) \/ TimeOut(c) \/ Crash(c)
      PROVE  UNCHANGED serverVars
  BY <1>1 DEF ClientStep, Connect, ReadWelcome, AskForLease, ReachMaxBlocks, ReadLease,
     ReadNoWork, ReportSwept, ReportFound, Disconnected, Leave, SendHeartbeat, TimeOut, Crash
<1>2. ASSUME NEW c \in Procs, HandlerStep(c) \/ OnConnectionLost(c)
      PROVE  found' = found
  BY <1>2 DEF HandlerStep, OnHello, OnWantLease, Grant, GrantNone, Refuse, OnLeaseAck,
     OnHeartbeat, OnSwept, OnFound, RecordCoverage, OnGoodbye, EndLoop, Cleanup,
     OnConnectionLost, serverVars
<1>3. ASSUME Reap \/ Tick \/ Stop \/ UNCHANGED vars
      PROVE  UNCHANGED serverVars
  BY <1>3 DEF Reap, Tick, Stop, vars
<1> QED BY <1>1, <1>2, <1>3 DEF Next, serverVars

LEMMA ClientRetired ==
    ASSUME TypeInv, NEW c \in Procs, Retired(c), found' # NotFound,
           ClientStep(c) \/ SendHeartbeat(c) \/ TimeOut(c) \/ Crash(c)
    PROVE  Retired(c)'
<1> USE DEF TypeInv, SwarmType, Retired, handlerVars, clientVars, netVars
<1>1. NoLeaseIn(toWorker[c]) /\ toWorker[c] # <<>> =>
          Head(toWorker[c]).t # "Lease" /\ NoLeaseIn(Tail(toWorker[c]))
  BY NoLeaseAfter
<1>2. CASE Connect(c)
  BY <1>2 DEF Connect
<1>3. CASE ReadWelcome(c) \/ ReadNoWork(c)
  BY <1>1, <1>3 DEF ReadWelcome, ReadNoWork
<1>4. ~ReadLease(c)
  BY <1>1 DEF ReadLease
<1>5. CASE AskForLease(c) \/ ReachMaxBlocks(c)
  BY <1>5 DEF AskForLease, ReachMaxBlocks
<1>6. ~ReportSwept(c) /\ ~ReportFound(c) /\ ~SendHeartbeat(c)
  BY DEF ReportSwept, ReportFound, SendHeartbeat
<1>7. CASE Disconnected(c) \/ TimeOut(c) \/ Leave(c) \/ Crash(c)
  BY <1>7 DEF Disconnected, TimeOut, Leave, Crash
<1> QED BY <1>2, <1>3, <1>4, <1>5, <1>6, <1>7 DEF ClientStep

LEMMA HandlerRetired ==
    ASSUME TypeInv, NEW c \in Procs, Retired(c), found' # NotFound,
           HandlerStep(c) \/ OnConnectionLost(c)
    PROVE  Retired(c)'
<1> USE DEF TypeInv, SwarmType
<1>1. clientAt' = clientAt
  BY DEF HandlerStep, OnHello, OnWantLease, Grant, GrantNone, Refuse, OnLeaseAck, OnHeartbeat,
     OnSwept, OnFound, RecordCoverage, OnGoodbye, EndLoop, Cleanup, OnConnectionLost, clientVars
<1>2. SUFFICES ASSUME clientAt[c] \in {"off", "welcome", "idle", "await"}
               PROVE  handlerAt'[c] # "grant" /\ NoLeaseIn(toWorker'[c])
  BY <1>1 DEF Retired, NoLeaseIn
<1>3. handlerAt[c] # "grant" /\ NoLeaseIn(toWorker[c])
  BY <1>2 DEF Retired
<1>4. ASSUME NEW m, m.t # "Lease", Replies(c, m)
      PROVE  handlerAt'[c] # "grant" /\ NoLeaseIn(toWorker'[c])
  <2>1. toWorker \in [Procs -> Seq(Down)] /\ handlerAt \in [Procs -> HandlerAts]
    OBVIOUS
  <2>2. NoLeaseIn(Append(toWorker[c], m))
    BY <1>3, <1>4, <2>1, NoLeaseAfter
  <2>3. /\ handlerAt' \in {[handlerAt EXCEPT ![c] = "read"], [handlerAt EXCEPT ![c] = "cleanup"]}
        /\ toWorker' \in {toWorker, [toWorker EXCEPT ![c] = Append(@, m)]}
    BY <1>4 DEF Replies
  <2>4. handlerAt'[c] # "grant" /\ toWorker'[c] \in {toWorker[c], Append(toWorker[c], m)}
    BY <2>1, <2>3
  <2> QED BY <1>3, <2>2, <2>4
<1>5. Msg("Welcome").t # "Lease" /\ \A r : Refusal(r).t # "Lease"
  BY DEF Msg, Refusal
<1>6. CASE OnHello(c) \/ OnWantLease(c) \/ Refuse(c)
  <2>1. found # NotFound
    BY DEF Retired
  <2>2. \E m : m.t # "Lease" /\ Replies(c, m)
    BY <1>5, <1>6, <2>1 DEF OnHello, OnWantLease, Refuse
  <2> QED BY <1>4, <2>2
<1>7. ~Grant(c) /\ ~GrantNone(c)
  BY <1>3 DEF Grant, GrantNone
<1>8. CASE OnLeaseAck(c) \/ OnHeartbeat(c) \/ OnSwept(c) \/ OnFound(c) \/ OnGoodbye(c)
             \/ RecordCoverage(c) \/ EndLoop(c) \/ Cleanup(c) \/ OnConnectionLost(c)
  BY <1>3, <1>8 DEF OnLeaseAck, OnHeartbeat, OnSwept, OnFound, OnGoodbye, RecordCoverage,
     EndLoop, Cleanup, OnConnectionLost, handlerVars, netVars, Reads
<1> QED BY <1>6, <1>7, <1>8 DEF HandlerStep

\* Once the key is found, every process that is between two blocks, or has yet
\* to ask for its first, has swept its last: the race of a handler past the
\* latch costs a process the block it has asked for, and no more.
THEOREM FoundRetiresWorkers == Spec => FoundEndsSweeping
<1> DEFINE Resting(c) == found # NotFound /\ ~stopped /\ clientAt[c] \in {"off", "welcome", "idle"}
<1>1. ASSUME NEW c \in Procs
      PROVE  TypeInv /\ InStep /\ Resting(c) => Retired(c)
  <2> SUFFICES ASSUME TypeInv, InStep, Resting(c)
               PROVE  handlerAt[c] # "grant" /\ NoLeaseIn(toWorker[c])
    BY DEF Retired
  <2>1. Dialogue(c)
    BY DEF InStep
  <2>2. toWorker[c] \in Seq(Down) /\ Unanswered(c) \in Nat
    BY Counted, AsksFinite DEF TypeInv, SwarmType
  <2>3. CASE clientAt[c] \in {"off", "welcome"}
    BY <2>1, <2>3 DEF Dialogue, NoLeaseIn, Served
  <2>4. CASE clientAt[c] = "idle"
    <3>1. Len(toWorker[c]) = 0 /\ handlerAt[c] # "grant"
      <4>1. CASE Served(c)
        <5>1. Unanswered(c) + BeingAnswered(c) + Len(toWorker[c]) = 0
          BY <2>1, <2>4, <4>1 DEF Dialogue, Outstanding
        <5>2. BeingAnswered(c) \in Nat /\ (handlerAt[c] = "grant" => BeingAnswered(c) # 0)
          BY DEF BeingAnswered
        <5>3. Len(toWorker[c]) \in Nat
          BY <2>2
        <5>4. \A x, y, z \in Nat : x + y + z = 0 => y = 0 /\ z = 0
          OBVIOUS
        <5> QED BY <2>2, <5>1, <5>2, <5>3, <5>4
      <4>2. CASE ~Served(c)
        <5>1. Len(toWorker[c]) = 0
          BY <2>1, <2>4, <4>2 DEF Dialogue
        <5> QED BY <4>2, <5>1 DEF Served
      <4> QED BY <4>1, <4>2
    <3> QED BY <2>2, <3>1 DEF NoLeaseIn
  <2> QED BY <2>3, <2>4
<1>2. ASSUME NEW c \in Procs
      PROVE  TypeInv /\ Retired(c) /\ [Next]_vars => Retired(c)'
  <2> SUFFICES ASSUME TypeInv, Retired(c), [Next]_vars
               PROVE  Retired(c)'
    OBVIOUS
  <2>1. found' # NotFound
    BY LatchHolds DEF Retired
  <2>2. CASE Untouched(c)
    BY <2>1, <2>2 DEF Untouched, Retired, NoLeaseIn
  <2>3. CASE \E d \in Procs : ClientStep(d) \/ SendHeartbeat(d) \/ TimeOut(d) \/ Crash(d)
    BY <2>1, <2>2, <2>3, ClientRetired, OthersUntouched
  <2>4. CASE \E d \in Procs : HandlerStep(d) \/ OnConnectionLost(d)
    BY <2>1, <2>2, <2>4, HandlerRetired, OthersUntouched
  <2>5. CASE Reap \/ Tick \/ Stop \/ UNCHANGED vars
    BY <2>2, <2>5 DEF Reap, Tick, Stop, vars, handlerVars, clientVars, netVars, Untouched
  <2> QED BY <2>3, <2>4, <2>5 DEF Next
<1>3. ASSUME NEW c \in Procs
      PROVE  Retired(c) => clientAt[c] # "sweep"
  BY DEF Retired
<1>4. ASSUME NEW c \in Procs
      PROVE  Spec => [](Resting(c) => [](clientAt[c] # "sweep"))
  BY <1>1, <1>2, <1>3, TypeInvAlways, InStepAlways, PTL DEF Spec
<1> QED BY <1>4 DEF FoundEndsSweeping

-----------------------------------------------------------------------------
(* Whereabouts of leases *)

\* Lease i is in a message of s of a kind in T; no two such messages carry one
\* lease.
Carry(T, s, i) == \E k \in DOMAIN s : s[k].t \in T /\ s[k].id = i
Once(T, s) ==
    \A k, l \in DOMAIN s :
        s[k].t \in T /\ s[l].t \in T /\ s[k].id = s[l].id => k = l

\* The first message in s is such a one.
Leads(T, s, i) == Head(s).t \in T /\ Head(s).id = i

\* What a queue carries after a send, after a read, and when it is empty.
LEMMA CarryAppend ==
    ASSUME NEW S, NEW s \in Seq(S), NEW m, NEW T
    PROVE  /\ \A i : Carry(T, Append(s, m), i) <=> Carry(T, s, i) \/ (m.t \in T /\ m.id = i)
           /\ Once(T, s) /\ (m.t \in T => ~Carry(T, s, m.id)) => Once(T, Append(s, m))
<1>1. /\ DOMAIN Append(s, m) = DOMAIN s \cup {Len(s) + 1} /\ Len(s) + 1 \notin DOMAIN s
      /\ Append(s, m)[Len(s) + 1] = m /\ \A k \in DOMAIN s : Append(s, m)[k] = s[k]
  <2>1. Len(Append(s, m)) = Len(s) + 1 /\ Append(s, m)[Len(s) + 1] = m
        /\ \A k \in 1 .. Len(s) : Append(s, m)[k] = s[k]
    OBVIOUS
  <2> QED BY <2>1
<1> QED BY <1>1 DEF Carry, Once

LEMMA CarryTail ==
    ASSUME NEW S, NEW s \in Seq(S), s # <<>>, NEW T
    PROVE  /\ \A i : Carry(T, s, i) <=> Carry(T, Tail(s), i) \/ Leads(T, s, i)
           /\ Once(T, s) => /\ Once(T, Tail(s))
                            /\ \A i : Leads(T, s, i) => ~Carry(T, Tail(s), i)
<1>1. /\ DOMAIN s = 1 .. Len(s) /\ DOMAIN Tail(s) = 1 .. Len(s) - 1 /\ Len(s) \in Nat /\ Len(s) > 0
      /\ \A k \in 1 .. Len(s) - 1 : Tail(s)[k] = s[k + 1]
      /\ Head(s) = s[1]
  OBVIOUS
<1>2. \A k \in DOMAIN Tail(s) : k + 1 \in DOMAIN s /\ k + 1 # 1 /\ Tail(s)[k] = s[k + 1]
  BY <1>1
<1>3. \A k \in DOMAIN s : k # 1 => k - 1 \in DOMAIN Tail(s) /\ s[k] = Tail(s)[k - 1]
  BY <1>1
<1>4. 1 \in DOMAIN s /\ \A k, l \in DOMAIN Tail(s) : k + 1 = l + 1 => k = l
  BY <1>1
<1>5. \A i : Carry(T, s, i) <=> Carry(T, Tail(s), i) \/ (Head(s).t \in T /\ Head(s).id = i)
  <2> TAKE i
  <2>1. ASSUME Carry(T, s, i)
        PROVE  Carry(T, Tail(s), i) \/ (Head(s).t \in T /\ Head(s).id = i)
    BY <1>1, <1>3, <2>1 DEF Carry
  <2>2. ASSUME Carry(T, Tail(s), i)
        PROVE  Carry(T, s, i)
    BY <1>2, <2>2 DEF Carry
  <2>3. ASSUME Head(s).t \in T, Head(s).id = i
        PROVE  Carry(T, s, i)
    BY <1>1, <1>4, <2>3 DEF Carry
  <2> QED BY <2>1, <2>2, <2>3
<1>6. ASSUME Once(T, s)
      PROVE  /\ Once(T, Tail(s))
             /\ \A i : Leads(T, s, i) => ~Carry(T, Tail(s), i)
  BY <1>1, <1>2, <1>4, <1>6 DEF Carry, Once, Leads
<1> QED BY <1>5, <1>6 DEF Leads

LEMMA CarryNone == \A T, i : ~Carry(T, <<>>, i) /\ Once(T, <<>>)
BY DEF Carry, Once

\* A lease is on its way to c, swept by c, reported by c but not yet read, or
\* reported and not yet in the log.
Offer == {"Lease"}
Reported == {"Swept", "Found"}
OfferedTo(c, i) == Carry(Offer, toWorker[c], i)
SweptBy(c, i) == clientAt[c] = "sweep" /\ held[c] = i
ReportedBy(c, i) == Carry(Reported, toServer[c], i)
HeardFrom(c, i) == handlerAt[c] = "record" /\ report[c].id = i

\* Process c, or its handler on its behalf, has to do with lease i.
Holds(c, i) == OfferedTo(c, i) \/ SweptBy(c, i) \/ ReportedBy(c, i) \/ HeardFrom(c, i)

\* At any moment in at most one of the four ways, and once.
InOnePlace(c) ==
    /\ Once(Offer, toWorker[c]) /\ Once(Reported, toServer[c])
    /\ \A i : /\ OfferedTo(c, i) => ~SweptBy(c, i) /\ ~ReportedBy(c, i) /\ ~HeardFrom(c, i)
              /\ SweptBy(c, i) => ~ReportedBy(c, i) /\ ~HeardFrom(c, i)
              /\ ReportedBy(c, i) => ~HeardFrom(c, i)

\* A lease that anybody has to do with was issued.
LEMMA HoldsIssued ==
    ASSUME TypeInv, NEW c \in Procs, NEW i, Holds(c, i)
    PROVE  i \in Reg!Issued
<1> USE DEF TypeInv, SwarmType
<1>1. CASE OfferedTo(c, i)
  <2>1. toWorker[c] \in Seq(Down)
    OBVIOUS
  <2>2. PICK k \in DOMAIN toWorker[c] : toWorker[c][k].t = "Lease" /\ toWorker[c][k].id = i
    BY <1>1 DEF OfferedTo, Carry, Offer
  <2>3. toWorker[c][k] \in Down
    BY <2>1
  <2> QED BY <2>2, <2>3 DEF Down
<1>2. CASE SweptBy(c, i)
  BY <1>2 DEF SweptBy
<1>3. CASE ReportedBy(c, i)
  <2>1. toServer[c] \in Seq(Up)
    OBVIOUS
  <2>2. PICK k \in DOMAIN toServer[c] :
            toServer[c][k].t \in {"Swept", "Found"} /\ toServer[c][k].id = i
    BY <1>3 DEF ReportedBy, Carry, Reported
  <2>3. toServer[c][k] \in Up
    BY <2>1
  <2> QED BY <2>2, <2>3 DEF Up
<1>4. CASE HeardFrom(c, i)
  BY <1>4 DEF HeardFrom, Reports
<1> QED BY <1>1, <1>2, <1>3, <1>4 DEF Holds

\* A process passes its leases on, from the offer to the report, and makes none.
LEMMA ClientHolds ==
    ASSUME TypeInv, NEW c \in Procs, InOnePlace(c),
           ClientStep(c) \/ SendHeartbeat(c) \/ TimeOut(c) \/ Crash(c)
    PROVE  InOnePlace(c)' /\ \A i : Holds(c, i)' => Holds(c, i)
<1> USE DEF TypeInv, SwarmType, netVars, clientVars, handlerVars, ProcessEnds, Holds
<1> DEFINE down == toWorker[c]
           up == toServer[c]
<1>0. \A y, i : LeaseMsg(y, i).t = y /\ LeaseMsg(y, i).id = i /\ Msg(y).t = y
  BY DEF LeaseMsg, Msg
<1>1. toServer[c] \in Seq(Up) /\ toWorker[c] \in Seq(Down)
  OBVIOUS
<1>2. \A m : /\ \A i : Carry(Reported, Append(up, m), i)
                          <=> ReportedBy(c, i) \/ (m.t \in Reported /\ m.id = i)
             /\ InOnePlace(c) /\ (m.t \in Reported => ~ReportedBy(c, m.id))
                   => Once(Reported, Append(up, m))
  BY <1>1, CarryAppend DEF ReportedBy, InOnePlace
<1>3. down # <<>> => /\ \A i : OfferedTo(c, i) <=> Carry(Offer, Tail(down), i) \/ Leads(Offer, down, i)
                     /\ Once(Offer, Tail(down))
                     /\ \A i : Leads(Offer, down, i) => ~Carry(Offer, Tail(down), i)
  BY <1>1, CarryTail DEF OfferedTo, InOnePlace
<1>4. (handlerAt'[c] = handlerAt[c] /\ report'[c] = report[c]) \/ Connect(c)
  BY DEF ClientStep, ReadWelcome, AskForLease, ReachMaxBlocks, ReadLease, ReadNoWork, ReportSwept,
     ReportFound, Disconnected, Leave, SendHeartbeat, TimeOut, Crash
<1>5. ASSUME ~Connect(c)
      PROVE  \A i : HeardFrom(c, i)' <=> HeardFrom(c, i)
  BY <1>4, <1>5 DEF HeardFrom
<1>6. CASE ReadLease(c)
  <2> DEFINE j == Head(down).id
             m == LeaseMsg("LeaseAck", j)
  <2>1. m.t \notin Reported
    BY DEF LeaseMsg, Reported
  <2>2. /\ toServer'[c] \in {up, Append(up, m)} /\ toWorker'[c] = Tail(down) /\ down # <<>>
        /\ Head(down).t \in Offer /\ clientAt[c] = "await" /\ clientAt'[c] = "sweep" /\ held'[c] = j
        /\ ~Connect(c)
    BY <1>6 DEF ReadLease, ClientSends, Offer, Connect
  <2> HIDE DEF j, m, down, up
  <2>3. \A i : /\ OfferedTo(c, i)' <=> Carry(Offer, Tail(down), i)
               /\ ReportedBy(c, i)' <=> ReportedBy(c, i)
               /\ SweptBy(c, i)' <=> i = j
               /\ ~SweptBy(c, i)
    BY <1>2, <2>1, <2>2 DEF OfferedTo, ReportedBy, SweptBy, up
  <2>4. Once(Offer, toWorker[c])' /\ Once(Reported, toServer[c])'
    BY <1>2, <1>3, <2>1, <2>2 DEF InOnePlace, up
  <2>5. OfferedTo(c, j) /\ ~Carry(Offer, Tail(down), j)
    BY <1>3, <2>2 DEF j, Leads
  <2> QED BY <1>3, <1>5, <2>2, <2>3, <2>4, <2>5 DEF InOnePlace
<1>7. CASE ReportSwept(c) \/ ReportFound(c)
  <2> DEFINE j == held[c]
  <2>1. PICK m : /\ toServer'[c] \in {up, Append(up, m)} /\ m.t \in Reported /\ m.id = j
    <3>1. \E y \in Reported : toServer'[c] \in {up, Append(up, LeaseMsg(y, j))}
      BY <1>7 DEF ReportSwept, ReportFound, ClientSends, Reported
    <3> HIDE DEF up, j
    <3>2. PICK y \in Reported : toServer'[c] \in {up, Append(up, LeaseMsg(y, j))}
      BY <3>1
    <3>3. LeaseMsg(y, j).t \in Reported /\ LeaseMsg(y, j).id = j
      BY <1>0
    <3> QED BY <3>2, <3>3
  <2>2. /\ toWorker'[c] = toWorker[c] /\ clientAt[c] = "sweep" /\ clientAt'[c] # "sweep"
        /\ ~Connect(c)
    BY <1>7 DEF ReportSwept, ReportFound, Connect
  <2> HIDE DEF j, down, up
  <2>3. \A i : /\ OfferedTo(c, i)' <=> OfferedTo(c, i)
               /\ ReportedBy(c, i)' => ReportedBy(c, i) \/ i = j
               /\ ~SweptBy(c, i)'
               /\ SweptBy(c, i) <=> i = j
    BY <1>2, <2>1, <2>2 DEF OfferedTo, ReportedBy, SweptBy, j, up
  <2>4. Once(Offer, toWorker[c])' /\ Once(Reported, toServer[c])'
    BY <1>2, <2>1, <2>2, <2>3 DEF InOnePlace, up
  <2> QED BY <1>5, <2>2, <2>3, <2>4 DEF InOnePlace
<1>8. CASE Leave(c) \/ Crash(c)
  <2>1. /\ toWorker'[c] = <<>> /\ clientAt'[c] # "sweep" /\ ~Connect(c)
        /\ toServer'[c] = up \/ toServer'[c] = Append(up, Msg("Goodbye"))
        /\ Msg("Goodbye").t \notin Reported
    BY <1>0, <1>8 DEF Leave, Crash, ClientSends, Reported, Connect
  <2> HIDE DEF down
  <2>2. \A i : ReportedBy(c, i)' <=> ReportedBy(c, i)
    BY <1>2, <2>1 DEF ReportedBy
  <2>3. Once(Reported, toServer[c])'
    BY <1>2, <2>1 DEF InOnePlace
  <2>4. \A i : ~OfferedTo(c, i)' /\ ~SweptBy(c, i)'
    BY <2>1, CarryNone DEF OfferedTo, SweptBy
  <2>5. Once(Offer, toWorker[c])'
    BY <2>1 DEF Once
  <2> QED BY <1>5, <2>1, <2>2, <2>3, <2>4, <2>5 DEF InOnePlace
<1>9. CASE Connect(c) \/ ReadWelcome(c) \/ AskForLease(c) \/ ReachMaxBlocks(c) \/ ReadNoWork(c)
             \/ Disconnected(c) \/ SendHeartbeat(c) \/ TimeOut(c)
  <2>1. \/ toServer'[c] = up
        \/ \E m : toServer'[c] = Append(up, m) /\ m.t \notin Reported
    <3>1. CASE Connect(c) \/ AskForLease(c)
      <4>1. \E y \in {"Hello", "WantLease"} : toServer'[c] \in {up, Append(up, Msg(y))}
        BY <3>1 DEF Connect, AskForLease, ClientSends
      <4> QED BY <1>0, <4>1 DEF Reported
    <3>2. CASE SendHeartbeat(c)
      <4>1. toServer'[c] \in {up, Append(up, LeaseMsg("Heartbeat", held[c]))}
        BY <3>2 DEF SendHeartbeat, ClientSends
      <4>2. LeaseMsg("Heartbeat", held[c]).t \notin Reported
        BY <1>0 DEF Reported
      <4> HIDE DEF up
      <4> QED BY <4>1, <4>2
    <3> QED BY <1>9, <3>1, <3>2 DEF ReadWelcome, ReachMaxBlocks, ReadNoWork, Disconnected, TimeOut
  <2>2. toWorker'[c] = down \/ (down # <<>> /\ toWorker'[c] = Tail(down))
    BY <1>9 DEF Connect, ReadWelcome, AskForLease, ReachMaxBlocks, ReadNoWork, Disconnected,
       SendHeartbeat, TimeOut
  <2>3. clientAt'[c] = "sweep" => clientAt[c] = "sweep" /\ held'[c] = held[c]
    BY <1>9 DEF Connect, ReadWelcome, AskForLease, ReachMaxBlocks, ReadNoWork, Disconnected,
       SendHeartbeat, TimeOut
  <2>4. \A i : HeardFrom(c, i)' => HeardFrom(c, i)
    BY <1>4 DEF HeardFrom, Connect
  <2>5. \A i : ReportedBy(c, i)' <=> ReportedBy(c, i)
    BY <1>2, <2>1 DEF ReportedBy
  <2>6. Once(Reported, toServer[c])'
    BY <1>2, <2>1 DEF InOnePlace
  <2>7. \A i : OfferedTo(c, i)' => OfferedTo(c, i)
    BY <1>3, <2>2 DEF OfferedTo
  <2>8. Once(Offer, toWorker[c])'
    BY <1>3, <2>2 DEF InOnePlace
  <2>9. \A i : SweptBy(c, i)' => SweptBy(c, i)
    BY <2>3 DEF SweptBy
  <2> QED BY <2>4, <2>5, <2>6, <2>7, <2>8, <2>9 DEF InOnePlace
<1> QED BY <1>6, <1>7, <1>8, <1>9 DEF ClientStep

\* A report that the handler reads is in its process's messages no more.
LEMMA ReportTaken ==
    ASSUME TypeInv, NEW c \in Procs, InOnePlace(c)
    PROVE  /\ toServer[c] # <<>> =>
                 /\ \A i : ReportedBy(c, i) <=> \/ Carry(Reported, Tail(toServer[c]), i)
                                                \/ Leads(Reported, toServer[c], i)
                 /\ \A i : Leads(Reported, toServer[c], i) => ~Carry(Reported, Tail(toServer[c]), i)
                 /\ Once(Reported, Tail(toServer[c]))
           /\ toServer'[c] = Tail(toServer[c]) =>
                 \A i : ReportedBy(c, i)' <=> Carry(Reported, Tail(toServer[c]), i)
           /\ toServer'[c] = toServer[c] => \A i : ReportedBy(c, i)' <=> ReportedBy(c, i)
           /\ toServer'[c] = <<>> => \A i : ~ReportedBy(c, i)'
<1>1. /\ toServer[c] \in Seq(Up) /\ Once(Reported, toServer[c])
      /\ \A i : ReportedBy(c, i) <=> Carry(Reported, toServer[c], i)
  BY DEF TypeInv, SwarmType, InOnePlace, ReportedBy
<1>2. \A i : ReportedBy(c, i)' <=> Carry(Reported, toServer'[c], i)
  BY DEF ReportedBy, Reported, Carry
<1>3. ASSUME toServer[c] # <<>>
      PROVE  /\ \A i : Carry(Reported, toServer[c], i) <=> \/ Carry(Reported, Tail(toServer[c]), i)
                                                           \/ Leads(Reported, toServer[c], i)
             /\ \A i : Leads(Reported, toServer[c], i) => ~Carry(Reported, Tail(toServer[c]), i)
             /\ Once(Reported, Tail(toServer[c]))
  BY <1>1, <1>3, CarryTail
<1>4. \A i : ~Carry(Reported, <<>>, i)
  BY CarryNone
<1> QED BY <1>1, <1>2, <1>3, <1>4

\* What the handler sends is a fresh lease, or no lease.
LEMMA HandlerHolds ==
    ASSUME TypeInv, NEW c \in Procs, InOnePlace(c), HandlerStep(c) \/ OnConnectionLost(c)
    PROVE  /\ InOnePlace(c)'
           /\ \A i : Holds(c, i)' => Holds(c, i) \/ (Grant(c) /\ i = nextId)
           /\ RecordCoverage(c) => \A i : i = report[c].id => ~Holds(c, i)'
<1> USE DEF TypeInv, SwarmType, netVars, clientVars, handlerVars, Holds
<1> DEFINE down == toWorker[c]
           up == toServer[c]
<1>0. \A y, i : LeaseMsg(y, i).t = y /\ LeaseMsg(y, i).id = i /\ Msg(y).t = y /\ Refusal(i).t = "NoWork"
  BY DEF LeaseMsg, Msg, Refusal
<1>1. toServer[c] \in Seq(Up) /\ toWorker[c] \in Seq(Down)
  OBVIOUS
<1>2. clientAt'[c] = clientAt[c] /\ held'[c] = held[c]
  BY DEF HandlerStep, OnHello, OnWantLease, Grant, GrantNone, Refuse, OnLeaseAck, OnHeartbeat,
     OnSwept, OnFound, RecordCoverage, OnGoodbye, EndLoop, Cleanup, OnConnectionLost
<1>3. \A i : SweptBy(c, i)' <=> SweptBy(c, i)
  BY <1>2 DEF SweptBy
<1>4. \A m : /\ \A i : Carry(Offer, Append(down, m), i)
                          <=> OfferedTo(c, i) \/ (m.t \in Offer /\ m.id = i)
             /\ (m.t \in Offer => ~OfferedTo(c, m.id)) => Once(Offer, Append(down, m))
  BY <1>1, CarryAppend DEF OfferedTo, InOnePlace
<1>5. /\ up # <<>> =>
            /\ \A i : ReportedBy(c, i) <=> Carry(Reported, Tail(up), i) \/ Leads(Reported, up, i)
            /\ \A i : Leads(Reported, up, i) => ~Carry(Reported, Tail(up), i)
            /\ Once(Reported, Tail(up))
      /\ toServer'[c] = Tail(up) => \A i : ReportedBy(c, i)' <=> Carry(Reported, Tail(up), i)
      /\ toServer'[c] = up => \A i : ReportedBy(c, i)' <=> ReportedBy(c, i)
      /\ toServer'[c] = <<>> => \A i : ~ReportedBy(c, i)'
  BY ReportTaken
<1>6. CASE OnSwept(c) \/ OnFound(c)
  <2> DEFINE j == Head(up).id
  <2>1. /\ up # <<>> /\ Head(up).t \in Reported /\ toServer'[c] = Tail(up)
        /\ toWorker'[c] = down /\ handlerAt[c] = "read" /\ handlerAt'[c] = "record"
        /\ report'[c].id = j
    BY <1>6 DEF OnSwept, OnFound, Reads, Reported
  <2> HIDE DEF j, up, down
  <2>2. \A i : /\ OfferedTo(c, i)' <=> Carry(Offer, down, i)
               /\ ReportedBy(c, i)' <=> Carry(Reported, Tail(up), i)
               /\ HeardFrom(c, i)' <=> i = j
               /\ ~HeardFrom(c, i)
    BY <2>1 DEF OfferedTo, ReportedBy, HeardFrom
  <2>3. Once(Offer, toWorker[c])' /\ Once(Reported, toServer[c])'
    BY <1>5, <2>1 DEF InOnePlace, down
  <2>4. \A i : OfferedTo(c, i) <=> Carry(Offer, down, i)
    BY DEF OfferedTo, down
  <2>5. ReportedBy(c, j) /\ ~Carry(Reported, Tail(up), j)
    BY <1>5, <2>1 DEF j, Leads
  <2>6. ~RecordCoverage(c)
    BY <2>1 DEF RecordCoverage
  <2>7. ~(OfferedTo(c, j) \/ SweptBy(c, j))
    BY <2>5 DEF InOnePlace
  <2>8. \A i : ReportedBy(c, i)' => ReportedBy(c, i) /\ i # j
    <3>1. \A i : Carry(Reported, Tail(up), i) => ReportedBy(c, i)
      BY <1>5, <2>1
    <3> QED BY <2>2, <2>5, <3>1
  <2>9. InOnePlace(c)'
    BY <1>3, <2>2, <2>3, <2>4, <2>7, <2>8 DEF InOnePlace
  <2> QED BY <1>3, <2>1, <2>2, <2>4, <2>5, <2>6, <2>8, <2>9
<1>7. CASE RecordCoverage(c)
  <2>1. /\ toWorker'[c] = down /\ toServer'[c] = up
        /\ handlerAt[c] = "record" /\ handlerAt'[c] = "read"
    BY <1>7 DEF RecordCoverage
  <2>2. \A i : /\ OfferedTo(c, i)' <=> OfferedTo(c, i)
               /\ ReportedBy(c, i)' <=> ReportedBy(c, i)
               /\ ~HeardFrom(c, i)'
    BY <2>1 DEF OfferedTo, ReportedBy, HeardFrom
  <2>3. Once(Offer, toWorker[c])' /\ Once(Reported, toServer[c])'
    BY <2>1 DEF InOnePlace
  <2>4. HeardFrom(c, report[c].id)
    BY <2>1 DEF HeardFrom
  <2>5. InOnePlace(c)'
    BY <1>3, <2>2, <2>3 DEF InOnePlace
  <2>7. \A i : i = report[c].id => ~Holds(c, i)'
    BY <1>3, <2>2, <2>4 DEF InOnePlace
  <2> QED BY <1>3, <2>2, <2>5, <2>7
<1>8. CASE Grant(c)
  <2>1. PICK m : Replies(c, m) /\ m.t = "Lease" /\ m.id = nextId
    BY <1>0, <1>8 DEF Grant
  <2>2. /\ toServer'[c] = up /\ report'[c] = report[c] /\ handlerAt[c] = "grant"
        /\ handlerAt'[c] # "record"
        /\ toWorker'[c] = down \/ toWorker'[c] = Append(down, m)
    BY <1>8, <2>1 DEF Grant, Replies
  <2>3. ~Holds(c, nextId)
    BY HoldsIssued DEF RegistryType, Reg!Issued
  <2>4. \A i : /\ ReportedBy(c, i)' <=> ReportedBy(c, i)
               /\ ~HeardFrom(c, i)' /\ ~HeardFrom(c, i)
    BY <2>2 DEF ReportedBy, HeardFrom
  <2>5. Once(Reported, toServer[c])'
    BY <2>2 DEF InOnePlace
  <2>6. \A i : OfferedTo(c, i)' => OfferedTo(c, i) \/ i = nextId
    BY <1>4, <2>1, <2>2 DEF OfferedTo
  <2>7. Once(Offer, toWorker[c])'
    BY <1>4, <2>1, <2>2, <2>3 DEF InOnePlace
  <2>8. ~RecordCoverage(c)
    BY <2>2 DEF RecordCoverage
  <2> QED BY <1>3, <1>8, <2>3, <2>4, <2>5, <2>6, <2>7, <2>8 DEF InOnePlace
<1>9. CASE OnHello(c) \/ OnWantLease(c) \/ GrantNone(c) \/ Refuse(c) \/ OnLeaseAck(c)
             \/ OnHeartbeat(c) \/ OnGoodbye(c) \/ EndLoop(c) \/ Cleanup(c) \/ OnConnectionLost(c)
  <2>1. \/ toServer'[c] = up \/ toServer'[c] = <<>>
        \/ up # <<>> /\ toServer'[c] = Tail(up)
    BY <1>9 DEF OnHello, OnWantLease, GrantNone, Refuse, OnLeaseAck, OnHeartbeat, OnGoodbye,
       EndLoop, Cleanup, OnConnectionLost, Reads
  <2>2. \/ toWorker'[c] = down
        \/ \E m : toWorker'[c] = Append(down, m) /\ m.t \notin Offer
    <3>1. ASSUME NEW m, Replies(c, m), m.t \notin Offer
          PROVE  \/ toWorker'[c] = down
                 \/ \E n : toWorker'[c] = Append(down, n) /\ n.t \notin Offer
      BY <3>1 DEF Replies
    <3>2. CASE OnHello(c)
      BY <1>0, <3>1, <3>2 DEF OnHello, Offer
    <3>3. CASE OnWantLease(c)
      BY <1>0, <3>1, <3>3 DEF OnWantLease, Offer
    <3>4. CASE Refuse(c)
      BY <1>0, <3>1, <3>4 DEF Refuse, Offer
    <3> QED BY <1>9, <3>2, <3>3, <3>4 DEF GrantNone, OnLeaseAck, OnHeartbeat, OnGoodbye,
               EndLoop, Cleanup, OnConnectionLost
  <2>3. handlerAt[c] # "record" /\ handlerAt'[c] # "record"
    BY <1>9 DEF OnHello, OnWantLease, GrantNone, Refuse, OnLeaseAck, OnHeartbeat, OnGoodbye,
       EndLoop, Cleanup, OnConnectionLost, Reads, Replies
  <2>4. \A i : ~HeardFrom(c, i)'
    BY <2>3 DEF HeardFrom
  <2>5. \A i : ReportedBy(c, i)' => ReportedBy(c, i)
    <3>1. CASE toServer'[c] = up \/ toServer'[c] = <<>>
      BY <1>5, <3>1
    <3>2. CASE up # <<>> /\ toServer'[c] = Tail(up)
      BY <1>5, <3>2
    <3> QED BY <2>1, <3>1, <3>2
  <2>6. Once(Reported, toServer[c])'
    BY <1>5, <2>1, CarryNone DEF InOnePlace
  <2>7. \A i : OfferedTo(c, i)' => OfferedTo(c, i)
    BY <1>4, <2>2 DEF OfferedTo
  <2>8. Once(Offer, toWorker[c])'
    BY <1>4, <2>2 DEF InOnePlace
  <2>9. ~RecordCoverage(c)
    BY <2>3 DEF RecordCoverage
  <2> QED BY <1>3, <2>4, <2>5, <2>6, <2>7, <2>8, <2>9 DEF InOnePlace
<1> QED BY <1>6, <1>7, <1>8, <1>9 DEF HandlerStep

\* One process at a time has to do with a lease, its own, and in one way.
OneHolder ==
    /\ \A c \in Procs : InOnePlace(c)
    /\ \A c, d \in Procs : \A i : Holds(c, i) /\ Holds(d, i) => c = d
    /\ \A c \in Procs : \A i : Holds(c, i) => lease[i].worker = IdOf(c)

\* Whom a step leaves alone has to do with the same leases.
LEMMA UntouchedHolds ==
    ASSUME NEW d, Untouched(d)
    PROVE  /\ InOnePlace(d) => InOnePlace(d)'
           /\ \A i : Holds(d, i)' <=> Holds(d, i)
BY DEF Untouched, InOnePlace, Holds, OfferedTo, SweptBy, ReportedBy, HeardFrom

\* Who has to do with a lease after a step had to do with it before, or has
\* just been granted it.
LEMMA HoldsNext ==
    ASSUME TypeInv, OneHolder, [Next]_vars, NEW d \in Procs
    PROVE  /\ InOnePlace(d)'
           /\ \A i : Holds(d, i)' => Holds(d, i) \/ (Grant(d) /\ i = nextId)
<1>1. CASE Untouched(d)
  BY <1>1, UntouchedHolds DEF OneHolder
<1>2. CASE \E c \in Procs : ClientStep(c) \/ SendHeartbeat(c) \/ TimeOut(c) \/ Crash(c)
  BY <1>1, <1>2, ClientHolds, OthersUntouched DEF OneHolder
<1>3. CASE \E c \in Procs : HandlerStep(c) \/ OnConnectionLost(c)
  BY <1>1, <1>3, HandlerHolds, OthersUntouched DEF OneHolder
<1>4. CASE Reap \/ Tick \/ Stop \/ UNCHANGED vars
  BY <1>1, <1>4 DEF Reap, Tick, Stop, vars, handlerVars, clientVars, netVars, Untouched
<1> QED BY <1>2, <1>3, <1>4 DEF Next

LEMMA OneHolderNext ==
    ASSUME TypeInv, OneHolder, [Next]_vars
    PROVE  OneHolder'
<1>1. \A c \in Procs : InOnePlace(c)'
  BY HoldsNext
<1>2. nextId \notin Reg!Issued
  BY DEF TypeInv, RegistryType, Reg!Issued
<1>3. ASSUME NEW c \in Procs, Grant(c)
      PROVE  /\ \A d \in Procs : c # d => Untouched(d)
             /\ lease'[nextId].worker = IdOf(c)
  <2>1. HandlerStep(c) \/ ~(UNCHANGED stopped)
    BY <1>3 DEF HandlerStep
  <2>2. \E b \in Blocks : Reg!LeaseBlock(b, IdOf(c))
    BY <1>3 DEF Grant
  <2>3. lease'[nextId].worker = IdOf(c)
    BY <2>2, IdInWorkers, LeaseBlockKeeps DEF TypeInv
  <2>4. ASSUME NEW d \in Procs, c # d
        PROVE  Untouched(d)
    BY <1>3, <2>4 DEF Grant, Replies, Untouched, TypeInv, SwarmType, clientVars
  <2> QED BY <2>3, <2>4
<1>4. ASSUME NEW c \in Procs, NEW d \in Procs, NEW i, Holds(c, i)', Holds(d, i)', c # d
      PROVE  FALSE
  <2>1. CASE Holds(c, i) /\ Holds(d, i)
    BY <1>4, <2>1 DEF OneHolder
  <2>2. CASE Grant(c) /\ i = nextId
    BY <1>2, <1>3, <1>4, <2>2, UntouchedHolds, HoldsIssued
  <2>3. CASE Grant(d) /\ i = nextId
    BY <1>2, <1>3, <1>4, <2>3, UntouchedHolds, HoldsIssued
  <2> QED BY <1>4, <2>1, <2>2, <2>3, HoldsNext
<1>5. ASSUME NEW c \in Procs, NEW i, Holds(c, i)'
      PROVE  lease'[i].worker = IdOf(c)'
  <2>1. CASE Holds(c, i)
    <3>1. i \in Reg!Issued /\ lease[i].worker = IdOf(c)
      BY <2>1, HoldsIssued DEF OneHolder
    <3> QED BY <3>1, RegistryTypeNext DEF TypeInv, RegistryKept, IdOf
  <2>2. CASE Grant(c) /\ i = nextId
    BY <1>3, <2>2 DEF IdOf
  <2> QED BY <1>5, <2>1, <2>2, HoldsNext
<1> QED BY <1>1, <1>4, <1>5 DEF OneHolder

LEMMA OneHolderAlways == Spec => []OneHolder
<1>1. Init => OneHolder
  BY CarryNone DEF Init, OneHolder, InOnePlace, Holds, OfferedTo, SweptBy, ReportedBy, HeardFrom
<1> QED BY <1>1, OneHolderNext, TypeInvAlways, PTL DEF Spec

-----------------------------------------------------------------------------
(* The conflict flag *)

\* A block in the log was put there on a report of a lease on it, and nobody
\* has anything to do with that lease any more.
LoggedBySpent ==
    \A b \in Blocks : coverage[b] # Nobody =>
        \E i \in Reg!Issued : lease[i].block = b /\ \A c \in Procs : ~Holds(c, i)

\* The report that is being logged, and its process.
LEMMA ReportLogged ==
    ASSUME TypeInv, NEW c \in Procs, RecordCoverage(c)
    PROVE  \E i \in Reg!Issued :
              /\ i = report[c].id /\ Holds(c, i)
              /\ \A b \in Blocks : coverage'[b] # coverage[b] => b = lease[i].block
              /\ conflict' => conflict \/ coverage[lease[i].block] # Nobody
<1>1. PICK i \in Reg!Issued : i = report[c].id
  BY DEF TypeInv, SwarmType, Reports, RecordCoverage
<1>2. Holds(c, i)
  BY <1>1 DEF RecordCoverage, Holds, HeardFrom
<1>3. \A b \in Blocks : coverage'[b] # coverage[b] => b = lease[i].block
  BY <1>1 DEF RecordCoverage, TypeInv, SwarmType
<1>4. conflict' => conflict \/ coverage[lease[i].block] # Nobody
  BY <1>1, Zenon DEF RecordCoverage
<1> QED BY <1>1, <1>2, <1>3, <1>4

LEMMA LoggedBySpentNext ==
    ASSUME TypeInv, OneHolder, LoggedBySpent, [Next]_vars
    PROVE  LoggedBySpent'
<1> SUFFICES ASSUME NEW b \in Blocks, coverage'[b] # Nobody
             PROVE  \E i \in Reg!Issued' : lease'[i].block = b /\ \A c \in Procs : ~Holds(c, i)'
  BY DEF LoggedBySpent, Blocks, Reg!Blocks
<1>1. /\ \A i \in Reg!Issued : i \in Reg!Issued' /\ lease'[i].block = lease[i].block
      /\ nextId \notin Reg!Issued
  BY RegistryTypeNext DEF TypeInv, RegistryType, RegistryKept, Reg!Issued
<1>2. CASE coverage[b] # Nobody
  <2>1. PICK i \in Reg!Issued : lease[i].block = b /\ \A c \in Procs : ~Holds(c, i)
    BY <1>2 DEF LoggedBySpent
  <2>2. \A c \in Procs : ~Holds(c, i)'
    BY <1>1, <2>1, HoldsNext
  <2> QED BY <1>1, <2>1, <2>2
<1>3. CASE coverage[b] = Nobody
  <2>1. PICK c \in Procs : HandlerStep(c) /\ RecordCoverage(c)
    BY <1>3, OneWayToLog
  <2> PICK i \in Reg!Issued :
            /\ i = report[c].id /\ Holds(c, i)
            /\ \A e \in Blocks : coverage'[e] # coverage[e] => e = lease[i].block
    BY <2>1, ReportLogged
  <2>2. lease[i].block = b
    BY <1>3
  <2>3. ASSUME NEW d \in Procs
        PROVE  ~Holds(d, i)'
    <3>1. CASE d = c
      BY <2>1, <3>1, HandlerHolds DEF OneHolder
    <3>2. CASE d # c
      <4>1. ~Holds(d, i)
        BY <3>2 DEF OneHolder
      <4> QED BY <1>1, <4>1, HoldsNext
    <3> QED BY <3>1, <3>2
  <2> QED BY <1>1, <2>2, <2>3
<1> QED BY <1>2, <1>3

\* The flag is raised only over a block that was leased twice: the lease that
\* is being reported, and one that was spent before.
THEOREM ConflictHasCause == Spec => []ConflictMeansLeasedTwice
<1>1. Init => LoggedBySpent /\ ConflictMeansLeasedTwice
  BY DEF Init, LoggedBySpent, ConflictMeansLeasedTwice, Blocks
<1>2. TypeInv /\ OneHolder /\ LoggedBySpent /\ ConflictMeansLeasedTwice /\ [Next]_vars
        => ConflictMeansLeasedTwice'
  <2> SUFFICES ASSUME TypeInv, OneHolder, LoggedBySpent, ConflictMeansLeasedTwice, [Next]_vars,
                      conflict'
               PROVE  \E i, j \in Reg!Issued' : i # j /\ lease'[i].block = lease'[j].block
    BY DEF ConflictMeansLeasedTwice
  <2>1. \E i, j \in Reg!Issued : i # j /\ lease[i].block = lease[j].block
    <3>1. CASE conflict
      BY <3>1 DEF ConflictMeansLeasedTwice
    <3>2. CASE ~conflict
      <4>1. PICK c \in Procs : RecordCoverage(c)
        BY <3>2, OneWayToLog
      <4>2. PICK j \in Reg!Issued : Holds(c, j) /\ coverage[lease[j].block] # Nobody
        BY <3>2, <4>1, ReportLogged, Zenon
      <4>3. lease[j].block \in Blocks
        BY <4>2 DEF TypeInv, RegistryType, Reg!Lease, Blocks
      <4>4. PICK i \in Reg!Issued : lease[i].block = lease[j].block /\ ~Holds(c, i)
        BY <4>2, <4>3 DEF LoggedBySpent
      <4> QED BY <4>2, <4>4
    <3> QED BY <3>1, <3>2
  <2> QED BY <2>1, RegistryTypeNext DEF TypeInv, RegistryKept
<1> QED BY <1>1, <1>2, LoggedBySpentNext, OneHolderAlways, TypeInvAlways, PTL DEF Spec

-----------------------------------------------------------------------------
(* Sweepers *)

\* A live lease leaves the table when its worker's report of it is handled,
\* or when a connection under its worker's id ends.
LEMMA LiveLeaseGoes ==
    ASSUME TypeInv, [Next]_vars, NEW i, Reg!Live(i)
    PROVE  \/ i \in leasesById'
           \/ \E d \in Procs : OnSwept(d) /\ Head(toServer[d]).id = i
           \/ \E d \in Procs : Cleanup(d) /\ lease[i].worker = IdOf(d)
<1>1. i \in leasesById /\ i \in Reg!ReclaimedTable
  BY DEF Reg!Live, Reg!ReclaimedTable, Reg!ExpiredBlocks
<1> USE <1>1 DEF registryVars
<1>2. ASSUME NEW c \in Procs, ClientStep(c)
      PROVE  i \in leasesById'
  BY <1>2 DEF ClientStep, Connect, ReadWelcome, AskForLease, ReachMaxBlocks, ReadLease,
     ReadNoWork, ReportSwept, ReportFound, Disconnected, Leave
<1>3. ASSUME NEW c \in Procs, HandlerStep(c)
      PROVE  \/ i \in leasesById'
             \/ OnSwept(c) /\ Head(toServer[c]).id = i
             \/ Cleanup(c) /\ lease[i].worker = IdOf(c)
  <2> USE DEF Reg!OnlyReclaim, Reg!ReclaimTables, Reg!Stale
  <2>1. CASE OnHello(c) \/ OnWantLease(c) \/ OnFound(c) \/ RecordCoverage(c) \/ OnGoodbye(c)
               \/ EndLoop(c)
    BY <2>1 DEF OnHello, OnWantLease, OnFound, RecordCoverage, OnGoodbye, EndLoop
  <2>2. CASE Grant(c)
    BY <2>2 DEF Grant, Reg!LeaseBlock
  <2>3. CASE GrantNone(c) \/ Refuse(c)
    BY <2>3 DEF GrantNone, Refuse, Reg!LeaseNone, Reg!ReclaimExpired
  <2>4. CASE OnLeaseAck(c) \/ OnHeartbeat(c)
    BY <2>4 DEF OnLeaseAck, OnHeartbeat, Reg!AckLease, Reg!RenewLease, Reg!Rearm
  <2>5. CASE OnSwept(c)
    BY <2>5 DEF OnSwept, Reg!MarkSwept
  <2>6. CASE Cleanup(c)
    BY <2>6 DEF Cleanup, Reg!ReleaseWorker, Reg!HeldBy
  <2> QED BY <1>3, <2>1, <2>2, <2>3, <2>4, <2>5, <2>6 DEF HandlerStep
<1>4. ASSUME NEW c \in Procs, SendHeartbeat(c) \/ TimeOut(c) \/ Crash(c) \/ OnConnectionLost(c)
      PROVE  i \in leasesById'
  BY <1>4 DEF SendHeartbeat, TimeOut, Crash, OnConnectionLost
<1>5. CASE Reap \/ Tick \/ Stop \/ UNCHANGED vars
  BY <1>5 DEF Reap, Tick, Stop, vars, Reg!ReclaimExpired, Reg!OnlyReclaim, Reg!ReclaimTables,
     Reg!Tick
<1> QED BY <1>2, <1>3, <1>4, <1>5 DEF Next

\* With every worker id used by one process, a process that sweeps under a live
\* lease loses it to nobody while its own connection is served: the report that
\* ends a lease is not sent before the sweep is over, and a handler releases the
\* leases of its own process only, and only out of its loop.
THEOREM SweeperKeepsItsLease ==
    ASSUME \A c, d \in Procs : WorkerId[c] = WorkerId[d] => c = d
    PROVE  Spec => SweeperKeepsLease
<1>1. ASSUME TypeInv, OneHolder, [Next]_vars, NEW c \in Procs,
             Served(c), clientAt[c] = "sweep", Reg!Live(held[c])
      PROVE  held[c] \in leasesById'
  <2> DEFINE i == held[c]
  <2>1. SweptBy(c, i) /\ Holds(c, i) /\ lease[i].worker = IdOf(c)
    BY <1>1 DEF OneHolder, Holds, SweptBy
  <2>2. ASSUME NEW d \in Procs, OnSwept(d), Head(toServer[d]).id = i
        PROVE  FALSE
    <3>1. toServer[d] # <<>> /\ Leads(Reported, toServer[d], i)
      BY <2>2 DEF OnSwept, Reads, Leads, Reported
    <3>2. ReportedBy(d, i)
      BY <1>1, <3>1, ReportTaken DEF OneHolder
    <3> QED BY <1>1, <2>1, <3>2 DEF OneHolder, Holds, InOnePlace
  <2>3. ASSUME NEW d \in Procs, Cleanup(d), lease[i].worker = IdOf(d)
        PROVE  FALSE
    <3>1. d = c
      BY <2>1, <2>3 DEF IdOf
    <3> QED BY <1>1, <2>3, <3>1 DEF Cleanup, Served
  <2> QED BY <1>1, <2>2, <2>3, LiveLeaseGoes
<1>2. TypeInv /\ OneHolder /\ [Next]_vars =>
        [\A c \in Procs :
            Served(c) /\ clientAt[c] = "sweep" /\ Reg!Live(held[c])
                => held[c] \in leasesById']_vars
  BY <1>1
<1> QED BY <1>2, OneHolderAlways, TypeInvAlways, PTL DEF Spec, SweeperKeepsLease

\* Two processes never sweep under one lease; and two that sweep one block,
\* one of them after losing its lease, are never both backed by a live one.
THEOREM OneSweeperIsBacked == Spec => []OneBackedSweeper
<1>1. OneHolder /\ Reg!IInv => OneBackedSweeper
  <2> SUFFICES ASSUME OneHolder, Reg!IInv, NEW c \in Procs, NEW d \in Procs, c # d,
                      clientAt[c] = "sweep", clientAt[d] = "sweep"
               PROVE  /\ held[c] # held[d]
                      /\ HeldBlock(c) = HeldBlock(d) =>
                            ~(Reg!Live(held[c]) /\ Reg!Live(held[d]))
    BY DEF OneBackedSweeper
  <2>1. held[c] # held[d]
    BY DEF OneHolder, Holds, SweptBy
  <2> QED BY <2>1 DEF Reg!IInv, Reg!TableMatchesBlocks, Reg!Live, HeldBlock
<1> QED BY <1>1, OneHolderAlways, SwarmRegistryInvariant, PTL

=============================================================================
