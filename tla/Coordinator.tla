----------------------------- MODULE Coordinator -----------------------------
(***************************************************************************)
(* orchestrator/coordinator/server.py and orchestrator/worker/worker.py:   *)
(* the coordinator's threads, the worker processes, and the connections    *)
(* between them, around one RangeRegistry.                                 *)
(*                                                                         *)
(* Threads.  Each connection has a handler thread that reads a message and *)
(* runs its handler.  A handler takes the registry's lock and the state    *)
(* lock one after the other, never both, and other threads run in between: *)
(* an action is one critical section, and handlerAt says where a handler   *)
(* stands between two of them.  Work on local variables and on the         *)
(* handler's own socket joins the critical section before it.              *)
(*                                                                         *)
(* Processes.  A worker process opens one connection and never reconnects; *)
(* a worker comes back as a new process with the same --worker-id, so a    *)
(* process and its connection are one element of Procs.                    *)
(*                                                                         *)
(* Connections are TCP: each direction is FIFO and loses nothing while the *)
(* connection stands.  It may fail under a process that lives on: by a     *)
(* reset, or by a torn frame that the handler cannot parse.  A process     *)
(* that dies may leave messages that the coordinator still reads, or a     *)
(* reset that discards them, or a connection that simply goes silent.      *)
(***************************************************************************)
EXTENDS KeyGrid, Sequences, FiniteSets

CONSTANTS Lo, Hi, BlockSize, LeaseTTL, Workers, MaxLeases,  \* as in RangeRegistry
          Procs,      \* worker processes, every one run at most once
          WorkerId,   \* the --worker-id of each process
          MaxBlocks,  \* --max-blocks, the same for every process
          TargetKeys, \* the keys to plant; one outside [Lo, Hi) is absent
          MayStop,    \* whether stop() may be called
          MaxQueue    \* bound: no heartbeat while so many messages are unread

VARIABLES state, leaseOf, leasesById, lease, nextId  \* the registry

Reg == INSTANCE RangeRegistry

Blocks == Reg!Blocks

Nobody == "nobody"

\* What __init__ demands of its arguments.  None is not a worker id.
\* A process is leased at most MaxBlocks blocks, so the registry's own bound
\* never refuses a lease here.
ASSUME CoordinatorAssumption ==
    /\ Lo \in Int /\ Hi \in Int /\ Lo < Hi
    /\ BlockSize \in Nat \ {0} /\ LeaseTTL \in Nat \ {0} /\ MaxLeases \in Nat
    /\ Nobody \notin Workers
    /\ WorkerId \in [Procs -> Workers]
    /\ MaxBlocks \in Nat \ {0}
    /\ TargetKeys \subseteq Int
    /\ MayStop \in BOOLEAN
    /\ MaxQueue \in Nat
    /\ IsFiniteSet(Procs)
    /\ MaxLeases >= Cardinality(Procs) * MaxBlocks

VARIABLES
    stopped,    \* self._stop is set, and stop() has closed every socket
    target,     \* self.target, given by the key whose digest it is; never changes
    found,      \* self.found: NotFound, or the lease id of the winning report
    halted,     \* self.allocator.halted
    coverage,   \* self.coverage: the worker recorded for each block, or Nobody
    conflict,   \* self.coverage_conflict is set
    keysDone,   \* self.workers: keys_done of every registered worker
    handlerAt,  \* where each handler thread stands
    report,     \* the Swept or Found message a handler is in the middle of
    helloed,    \* the handler's local worker_id is set
    clientAt,   \* where each worker process stands
    held,       \* the lease id a process is sweeping under
    processed,  \* the local counter of Worker.run
    toServer,   \* messages sent by the process and not yet read
    toWorker    \* messages sent by the handler and not yet read

registryVars == <<state, leaseOf, leasesById, lease, nextId>>
serverVars == <<target, found, halted, coverage, conflict, keysDone>>
handlerVars == <<handlerAt, report, helloed>>
clientVars == <<clientAt, held, processed>>
netVars == <<toServer, toWorker>>

vars == <<stopped, registryVars, serverVars, handlerVars, clientVars, netVars>>

NotFound == 0
NoReport == [t |-> "none", id |-> 0]
Unregistered == -1

\* Each process is served under its own worker id; the code sends the id in
\* every message, which is abbreviated here.
IdOf(c) == WorkerId[c]

\* Where a handler is (handlerAt):
\*   "none"     no connection yet
\*   "read"     in read_msg
\*   "grant"    in _on_want_lease, past the test of found
\*   "refuse"   in _on_want_lease, after lease_block returned None
\*   "record"   before _record_coverage
\*   "cleanup"  in the finally block
\*   "ended"
\* and where a process is (clientAt):
\*   "off"      not started
\*   "welcome"  in connect, waiting for Welcome
\*   "idle"     at the top of the loop in run
\*   "await"    waiting for Lease or NoWork
\*   "sweep"    in sweep_block
\*   "leaving"  run is over, before close
\*   "gaveUp"   a read has timed out, before close
\*   "closed"   said Goodbye and closed its socket
\*   "dead"     gone without a word
Gone(c) == clientAt[c] \in {"closed", "dead"}

\* Messages.  A Lease, LeaseAck, Heartbeat, Swept or Found carries a lease id;
\* the block index, lo and hi that some carry as well are those of that lease.
Msg(t) == [t |-> t, id |-> 0]
LeaseMsg(t, i) == [t |-> t, id |-> i]
Refusal(reason) == [t |-> "NoWork", id |-> 0, reason |-> reason]

TargetBlocks ==
    {b \in Blocks : Reg!BlockLo(b) <= target /\ target < Reg!BlockHi(b)}

\* keys_scanned of a finished sweep of block b: sweep_block stops at the key.
KeysScanned(b) ==
    IF b \in TargetBlocks THEN target - Reg!BlockLo(b) + 1
                          ELSE Reg!BlockHi(b) - Reg!BlockLo(b)

Init ==
    /\ Reg!Init
    /\ stopped = FALSE
    /\ target \in TargetKeys
    /\ found = NotFound
    /\ halted = FALSE
    /\ coverage = [b \in Blocks |-> Nobody]
    /\ conflict = FALSE
    /\ keysDone = [w \in Workers |-> Unregistered]
    /\ handlerAt = [c \in Procs |-> "none"]
    /\ report = [c \in Procs |-> NoReport]
    /\ helloed = [c \in Procs |-> FALSE]
    /\ clientAt = [c \in Procs |-> "off"]
    /\ held = [c \in Procs |-> Reg!NoLease]
    /\ processed = [c \in Procs |-> 0]
    /\ toServer = [c \in Procs |-> <<>>]
    /\ toWorker = [c \in Procs |-> <<>>]

-----------------------------------------------------------------------------
(* The worker process *)

\* What is sent after the handler has closed its socket nobody reads: such a
\* send fails (Disconnected), or its message is lost.
ClientSends(c, m) ==
    toServer' = IF handlerAt[c] = "ended" THEN toServer
                ELSE [toServer EXCEPT ![c] = Append(@, m)]

\* connect: the socket opens, the acceptor starts a handler thread, Hello is
\* sent.  A worker id is used by one running process at a time.
Connect(c) ==
    /\ clientAt[c] = "off" /\ ~stopped
    /\ \A d \in Procs : IdOf(d) = IdOf(c) => clientAt[d] = "off" \/ Gone(d)
    /\ clientAt' = [clientAt EXCEPT ![c] = "welcome"]
    /\ handlerAt' = [handlerAt EXCEPT ![c] = "read"]
    /\ ClientSends(c, Msg("Hello"))
    /\ UNCHANGED <<registryVars, serverVars, report, helloed, held, processed, toWorker>>

ReadWelcome(c) ==
    /\ clientAt[c] = "welcome"
    /\ toWorker[c] # <<>>
    /\ toWorker' = [toWorker EXCEPT ![c] = Tail(@)]
    /\ clientAt' = [clientAt EXCEPT ![c] = "idle"]
    /\ UNCHANGED <<registryVars, serverVars, handlerVars, held, processed, toServer>>

\* The top of the loop: stop after max_blocks blocks, or ask for one more.
AskForLease(c) ==
    /\ clientAt[c] = "idle"
    /\ processed[c] < MaxBlocks
    /\ clientAt' = [clientAt EXCEPT ![c] = "await"]
    /\ ClientSends(c, Msg("WantLease"))
    /\ UNCHANGED <<registryVars, serverVars, handlerVars, held, processed, toWorker>>

ReachMaxBlocks(c) ==
    /\ clientAt[c] = "idle"
    /\ processed[c] >= MaxBlocks
    /\ clientAt' = [clientAt EXCEPT ![c] = "leaving"]
    /\ UNCHANGED <<registryVars, serverVars, handlerVars, held, processed, netVars>>

\* A Lease is acked and swept; a NoWork, whatever its reason, ends the run.
ReadLease(c) ==
    /\ clientAt[c] = "await"
    /\ toWorker[c] # <<>>
    /\ Head(toWorker[c]).t = "Lease"
    /\ toWorker' = [toWorker EXCEPT ![c] = Tail(@)]
    /\ held' = [held EXCEPT ![c] = Head(toWorker[c]).id]
    /\ clientAt' = [clientAt EXCEPT ![c] = "sweep"]
    /\ ClientSends(c, LeaseMsg("LeaseAck", Head(toWorker[c]).id))
    /\ UNCHANGED <<registryVars, serverVars, handlerVars, processed>>

ReadNoWork(c) ==
    /\ clientAt[c] = "await"
    /\ toWorker[c] # <<>>
    /\ Head(toWorker[c]).t = "NoWork"
    /\ toWorker' = [toWorker EXCEPT ![c] = Tail(@)]
    /\ clientAt' = [clientAt EXCEPT ![c] = "leaving"]
    /\ UNCHANGED <<registryVars, serverVars, handlerVars, held, processed, toServer>>

\* _sweep_with_heartbeats: the progress callback, any number of times.
SendHeartbeat(c) ==
    /\ clientAt[c] = "sweep"
    /\ Len(toServer[c]) < MaxQueue
    /\ ClientSends(c, LeaseMsg("Heartbeat", held[c]))
    /\ UNCHANGED <<registryVars, serverVars, handlerVars, clientVars, toWorker>>

HeldBlock(c) == lease[held[c]].block

\* Mutant: a worker that is not sure its Swept arrived sends it again.
ReportSwept_Retry(c) ==
    /\ clientAt[c] = "sweep"
    /\ HeldBlock(c) \notin TargetBlocks
    /\ toServer' = [toServer EXCEPT ![c] =
                      @ \o <<LeaseMsg("Swept", held[c]), LeaseMsg("Swept", held[c])>>]
    /\ processed' = [processed EXCEPT ![c] = @ + 1]
    /\ held' = [held EXCEPT ![c] = Reg!NoLease]
    /\ clientAt' = [clientAt EXCEPT ![c] = "idle"]
    /\ UNCHANGED <<registryVars, serverVars, handlerVars, toWorker>>

\* The sweep ends without a hit.
ReportSwept(c) ==
    /\ clientAt[c] = "sweep"
    /\ HeldBlock(c) \notin TargetBlocks
    /\ ClientSends(c, LeaseMsg("Swept", held[c]))
    /\ processed' = [processed EXCEPT ![c] = @ + 1]
    /\ held' = [held EXCEPT ![c] = Reg!NoLease]
    /\ clientAt' = [clientAt EXCEPT ![c] = "idle"]
    /\ UNCHANGED <<registryVars, serverVars, handlerVars, toWorker>>

\* The sweep ends with the key.
ReportFound(c) ==
    /\ clientAt[c] = "sweep"
    /\ HeldBlock(c) \in TargetBlocks
    /\ ClientSends(c, LeaseMsg("Found", held[c]))
    /\ held' = [held EXCEPT ![c] = Reg!NoLease]
    /\ clientAt' = [clientAt EXCEPT ![c] = "leaving"]
    /\ UNCHANGED <<registryVars, serverVars, handlerVars, processed, toWorker>>

\* The socket's timeout fires while the process waits for a message; the
\* exception ends connect or run, and close still runs.
TimeOut(c) ==
    /\ clientAt[c] \in {"welcome", "await"}
    /\ clientAt' = [clientAt EXCEPT ![c] = "gaveUp"]
    /\ UNCHANGED <<registryVars, serverVars, handlerVars, held, processed, netVars>>

\* The coordinator has closed the connection, in stop or at the end of the
\* handler.  A read finds its end, None, or a reset; a send fails, and the
\* exception ends run.
Disconnected(c) ==
    /\ stopped \/ handlerAt[c] = "ended"
    /\ clientAt[c] \in {"welcome", "idle", "await", "sweep"}
    /\ \/ clientAt' = [clientAt EXCEPT ![c] = "gaveUp"]
       \/ clientAt[c] = "await" /\ clientAt' = [clientAt EXCEPT ![c] = "leaving"]
    /\ UNCHANGED <<registryVars, serverVars, handlerVars, held, processed, netVars>>

\* What a process had not read, and its variables, end with it.
ProcessEnds(c) ==
    /\ toWorker' = [toWorker EXCEPT ![c] = <<>>]
    /\ held' = [held EXCEPT ![c] = Reg!NoLease]
    /\ processed' = [processed EXCEPT ![c] = 0]

\* close: Goodbye, then the socket is closed.  A socket closed with an answer
\* unread, or still to come, is reset when the two meet, which may cost the
\* handler what it had not read.
Leave(c) ==
    /\ clientAt[c] \in {"leaving", "gaveUp"}
    /\ clientAt' = [clientAt EXCEPT ![c] = IF @ = "leaving" THEN "closed" ELSE "dead"]
    /\ ClientSends(c, Msg("Goodbye"))
    /\ ProcessEnds(c)
    /\ UNCHANGED <<registryVars, serverVars, handlerVars>>

\* The process or its machine dies, at any moment.
Crash(c) ==
    /\ clientAt[c] \notin {"off", "closed", "dead"}
    /\ clientAt' = [clientAt EXCEPT ![c] = "dead"]
    /\ ProcessEnds(c)
    /\ UNCHANGED <<registryVars, serverVars, handlerVars, toServer>>

-----------------------------------------------------------------------------
(* The handler threads *)

\* The handler reads a message of type t; what it does next is the rest of
\* the action.
Reads(c, t) ==
    /\ handlerAt[c] = "read" /\ ~stopped
    /\ toServer[c] # <<>>
    /\ Head(toServer[c]).t = t
    /\ toServer' = [toServer EXCEPT ![c] = Tail(@)]

\* The handler stays in its loop, or a send on a connection that is gone raises
\* OSError and takes it to the finally block.  A send that fails under a live
\* process is an answer that the process never reads, and OnConnectionLost.
Replies(c, m) ==
    IF Gone(c) \/ stopped
    THEN /\ UNCHANGED toWorker
         /\ \/ handlerAt' = [handlerAt EXCEPT ![c] = "read"]
            \/ handlerAt' = [handlerAt EXCEPT ![c] = "cleanup"]
    ELSE /\ toWorker' = [toWorker EXCEPT ![c] = Append(@, m)]
         /\ handlerAt' = [handlerAt EXCEPT ![c] = "read"]

\* Mutant: the handler's worker_id is never set, so its finally block skips
\* the release.
OnHello_Anonymous(c) ==
    /\ Reads(c, "Hello")
    /\ keysDone' = [keysDone EXCEPT ![IdOf(c)] = 0]
    /\ Replies(c, Msg("Welcome"))
    /\ UNCHANGED <<registryVars, target, found, halted, coverage, conflict, report, helloed,
                   clientVars>>

\* _on_hello: a new WorkerInfo takes the place of an old one.
OnHello(c) ==
    /\ Reads(c, "Hello")
    /\ helloed' = [helloed EXCEPT ![c] = TRUE]
    /\ keysDone' = [keysDone EXCEPT ![IdOf(c)] = 0]
    /\ Replies(c, Msg("Welcome"))
    /\ UNCHANGED <<registryVars, target, found, halted, coverage, conflict, report, clientVars>>

\* Mutant: the refusal after FOUND is sent, and the handler falls through.
OnWantLease_FallThrough(c) ==
    /\ Reads(c, "WantLease")
    /\ handlerAt' = [handlerAt EXCEPT ![c] = "grant"]
    /\ toWorker' = IF found # NotFound /\ ~Gone(c)
                   THEN [toWorker EXCEPT ![c] = Append(@, Refusal("found"))]
                   ELSE toWorker
    /\ UNCHANGED <<registryVars, serverVars, report, helloed, clientVars>>

\* Mutant: the latch is not looked at.
OnWantLease_NoLatch(c) ==
    /\ Reads(c, "WantLease")
    /\ handlerAt' = [handlerAt EXCEPT ![c] = "grant"]
    /\ UNCHANGED <<registryVars, serverVars, report, helloed, clientVars, toWorker>>

\* _on_want_lease, first critical section: the test of the latch.  The state
\* lock is released before the registry is asked.
OnWantLease(c) ==
    /\ Reads(c, "WantLease")
    /\ \/ /\ found # NotFound
          /\ Replies(c, Refusal("found"))
       \/ /\ found = NotFound
          /\ handlerAt' = [handlerAt EXCEPT ![c] = "grant"]
          /\ UNCHANGED toWorker
    /\ UNCHANGED <<registryVars, serverVars, report, helloed, clientVars>>

\* Second: lease_block.
Grant(c) ==
    /\ handlerAt[c] = "grant"
    /\ \E b \in Blocks : Reg!LeaseBlock(b, IdOf(c))
    /\ Replies(c, LeaseMsg("Lease", nextId))
    /\ UNCHANGED <<serverVars, report, helloed, clientVars, toServer>>

\* Mutant: no answer when there is no free block; the worker should just wait.
GrantNone_Silent(c) ==
    /\ handlerAt[c] = "grant"
    /\ Reg!LeaseNone
    /\ handlerAt' = [handlerAt EXCEPT ![c] = "read"]
    /\ UNCHANGED <<serverVars, report, helloed, clientVars, netVars>>

GrantNone(c) ==
    /\ handlerAt[c] = "grant"
    /\ Reg!LeaseNone
    /\ handlerAt' = [handlerAt EXCEPT ![c] = "refuse"]
    /\ UNCHANGED <<serverVars, report, helloed, clientVars, netVars>>

\* Third: is_exhausted, on its own; the blocks may have changed meanwhile.
Refuse(c) ==
    /\ handlerAt[c] = "refuse"
    /\ Reg!ReclaimExpired
    /\ Replies(c, Refusal(IF Reg!Exhausted THEN "exhausted" ELSE "no_free_block"))
    /\ UNCHANGED <<serverVars, report, helloed, clientVars, toServer>>

OnLeaseAck(c) ==
    /\ Reads(c, "LeaseAck")
    /\ LET i == Head(toServer[c]).id
       IN  Reg!AckLease(i, IdOf(c)) \/ Reg!Stale(i, IdOf(c))
    /\ UNCHANGED <<serverVars, handlerVars, clientVars, toWorker>>

\* _on_heartbeat; the telemetry it stores is never read back.
OnHeartbeat(c) ==
    /\ Reads(c, "Heartbeat")
    /\ LET i == Head(toServer[c]).id
       IN  Reg!RenewLease(i, IdOf(c)) \/ Reg!Stale(i, IdOf(c))
    /\ UNCHANGED <<serverVars, handlerVars, clientVars, toWorker>>

\* Mutant: coverage is recorded for the reports that mark_swept refuses.
OnSwept_Inverted(c) ==
    /\ Reads(c, "Swept")
    /\ LET m == Head(toServer[c])
       IN  \/ /\ Reg!MarkSwept(m.id, IdOf(c))
             /\ UNCHANGED handlerVars
          \/ /\ Reg!Stale(m.id, IdOf(c))
             /\ report' = [report EXCEPT ![c] = m]
             /\ handlerAt' = [handlerAt EXCEPT ![c] = "record"]
             /\ UNCHANGED helloed
    /\ UNCHANGED <<serverVars, clientVars, toWorker>>

\* _on_swept: what mark_swept returns is not looked at.
OnSwept(c) ==
    /\ Reads(c, "Swept")
    /\ LET m == Head(toServer[c])
       IN  /\ Reg!MarkSwept(m.id, IdOf(c)) \/ Reg!Stale(m.id, IdOf(c))
           /\ report' = [report EXCEPT ![c] = m]
    /\ handlerAt' = [handlerAt EXCEPT ![c] = "record"]
    /\ UNCHANGED <<serverVars, helloed, clientVars, toWorker>>

\* Mutant: _on_found drops the lease of the found block from the table.
OnFound_DropsLease(c) ==
    /\ Reads(c, "Found")
    /\ LET m == Head(toServer[c])
       IN  /\ found' = IF found = NotFound THEN m.id ELSE found
           /\ report' = [report EXCEPT ![c] = m]
           /\ leasesById' = leasesById \ {m.id}
    /\ handlerAt' = [handlerAt EXCEPT ![c] = "record"]
    /\ UNCHANGED <<state, leaseOf, lease, nextId, target, halted, coverage, conflict, keysDone,
                   helloed, clientVars, toWorker>>

\* _on_found: the latch.  The registry is not told.
OnFound(c) ==
    /\ Reads(c, "Found")
    /\ LET m == Head(toServer[c])
       IN  /\ found' = IF found = NotFound THEN m.id ELSE found
           /\ report' = [report EXCEPT ![c] = m]
    /\ handlerAt' = [handlerAt EXCEPT ![c] = "record"]
    /\ UNCHANGED <<registryVars, target, halted, coverage, conflict, keysDone, helloed,
                   clientVars, toWorker>>

\* _record_coverage, and for a Found the halt that follows.
RecordCoverage(c) ==
    /\ handlerAt[c] = "record"
    /\ LET b == lease[report[c].id].block
       IN  /\ conflict' = (conflict \/ coverage[b] # Nobody)
           /\ coverage' = [coverage EXCEPT ![b] = IdOf(c)]
           /\ keysDone' = [keysDone EXCEPT ![IdOf(c)] =
                             IF @ = Unregistered THEN @ ELSE @ + KeysScanned(b)]
    /\ halted' = (halted \/ report[c].t = "Found")
    /\ report' = [report EXCEPT ![c] = NoReport]
    /\ handlerAt' = [handlerAt EXCEPT ![c] = "read"]
    /\ UNCHANGED <<registryVars, target, found, helloed, clientVars, netVars>>

OnGoodbye(c) ==
    /\ Reads(c, "Goodbye")
    /\ handlerAt' = [handlerAt EXCEPT ![c] = "cleanup"]
    /\ UNCHANGED <<registryVars, serverVars, report, helloed, clientVars, toWorker>>

\* read_msg finds the end of the stream, raises ConnectionError or OSError, or
\* raises ProtocolError after a frame torn by a time-out: the handler of any
\* process, dead or alive, may leave its loop so, whatever is still unread.
OnConnectionLost(c) ==
    /\ handlerAt[c] = "read"
    /\ handlerAt' = [handlerAt EXCEPT ![c] = "cleanup"]
    /\ UNCHANGED <<registryVars, serverVars, report, helloed, clientVars, netVars>>

\* The loop of a handler ends when self._stop is set.
EndLoop(c) ==
    /\ handlerAt[c] = "read" /\ stopped
    /\ handlerAt' = [handlerAt EXCEPT ![c] = "cleanup"]
    /\ UNCHANGED <<registryVars, serverVars, report, helloed, clientVars, netVars>>

\* The finally block: every lease of this worker ID is released.
Cleanup(c) ==
    /\ handlerAt[c] = "cleanup"
    /\ IF helloed[c] THEN Reg!ReleaseWorker(IdOf(c)) ELSE UNCHANGED registryVars
    /\ handlerAt' = [handlerAt EXCEPT ![c] = "ended"]
    /\ toServer' = [toServer EXCEPT ![c] = <<>>]
    /\ UNCHANGED <<serverVars, report, helloed, clientVars, toWorker>>

-----------------------------------------------------------------------------
(* The reaper thread, time, and stop *)

\* Mutant: the reaper never reclaims.
Reap_Idle == UNCHANGED vars

Reap ==
    /\ ~stopped
    /\ Reg!ReclaimExpired
    /\ UNCHANGED <<stopped, serverVars, handlerVars, clientVars, netVars>>

Tick ==
    /\ Reg!Tick
    /\ UNCHANGED <<stopped, serverVars, handlerVars, clientVars, netVars>>

\* stop: the flag, and then the sockets, which nothing waits for in between.
\* What a handler had read by then it still handles.
Stop ==
    /\ MayStop /\ ~stopped
    /\ stopped' = TRUE
    /\ UNCHANGED <<registryVars, serverVars, handlerVars, clientVars, netVars>>

-----------------------------------------------------------------------------

\* The steps of a process that is left alone.
ClientStep(c) ==
    /\ UNCHANGED stopped
    /\ \/ Connect(c) \/ ReadWelcome(c) \/ AskForLease(c) \/ ReachMaxBlocks(c)
       \/ ReadLease(c) \/ ReadNoWork(c) \/ ReportSwept(c) \/ ReportFound(c)
       \/ Disconnected(c) \/ Leave(c)

HandlerStep(c) ==
    /\ UNCHANGED stopped
    /\ \/ OnHello(c) \/ OnWantLease(c) \/ Grant(c) \/ GrantNone(c) \/ Refuse(c)
       \/ OnLeaseAck(c) \/ OnHeartbeat(c) \/ OnSwept(c) \/ OnFound(c)
       \/ RecordCoverage(c) \/ OnGoodbye(c) \/ EndLoop(c) \/ Cleanup(c)

Next ==
    \/ \E c \in Procs :
          \/ ClientStep(c) \/ HandlerStep(c)
          \/ /\ SendHeartbeat(c) \/ TimeOut(c) \/ Crash(c) \/ OnConnectionLost(c)
             /\ UNCHANGED stopped
    \/ Reap
    \/ Tick
    \/ Stop

Spec == Init /\ [][Next]_vars

\* The operating system runs every thread and every live process; the reaper
\* runs every reaper_interval and time passes.  Nothing says that a process
\* stays alive, or that a connection is ever reset.
Fairness ==
    /\ \A c \in Procs : WF_vars(ClientStep(c)) /\ WF_vars(HandlerStep(c))
    /\ WF_vars(Reap) /\ WF_vars(Tick)

FairSpec == Spec /\ Fairness

\* A run in which nothing goes wrong: no process dies or gives up, no connection
\* fails, and every heartbeat arrives before its deadline, so that no lease expires.
SteadyNext == \E c \in Procs :
    ClientStep(c) \/ HandlerStep(c) \/ (SendHeartbeat(c) /\ UNCHANGED stopped)

SteadySpec ==
    /\ Init /\ [][SteadyNext]_vars
    /\ \A c \in Procs : WF_vars(ClientStep(c)) /\ WF_vars(HandlerStep(c))

-----------------------------------------------------------------------------
(* Invariants *)

\* The handler is still in its loop.
Served(c) == handlerAt[c] \in {"read", "grant", "refuse", "record"}

\* While a connection is served, request and response never get out of step:
\* while a process waits there is exactly one of its request, the handler
\* working on it, and the answer; at any other time there is none.  So the
\* answer that connect or run reads is the answer to its own request ("did not
\* receive Welcome" and "unexpected reply" are never raised), and no answer is
\* left in the stream.  stop() closes the sockets under both.
Requests == {"Hello", "WantLease"}
Unanswered(c) == Cardinality({k \in DOMAIN toServer[c] : toServer[c][k].t \in Requests})
BeingAnswered(c) == IF handlerAt[c] \in {"grant", "refuse"} THEN 1 ELSE 0
Outstanding(c) == Unanswered(c) + BeingAnswered(c) + Len(toWorker[c])

AnswersMatchRequests == ~stopped =>
    \A c \in Procs :
        /\ Served(c) /\ clientAt[c] \in {"welcome", "await"} => Outstanding(c) = 1
        /\ Served(c) /\ clientAt[c] \in {"idle", "sweep", "leaving"} => Outstanding(c) = 0
        /\ toWorker[c] # <<>> /\ clientAt[c] \in {"welcome", "await"} =>
              (clientAt[c] = "welcome" <=> Head(toWorker[c]).t = "Welcome")

\* Two processes may sweep one block, when the first has lost its lease; but
\* then at most one of them is backed by a live lease, and no process sweeps
\* under the id of another's lease.
OneBackedSweeper ==
    \A c, d \in {p \in Procs : clientAt[p] = "sweep"} :
        c # d => /\ held[c] # held[d]
                 /\ HeldBlock(c) = HeldBlock(d) =>
                       ~(Reg!Live(held[c]) /\ Reg!Live(held[d]))

\* No coverage is lost: a block that the registry has retired as SWEPT is in
\* the coverage log, or the handler that retired it is about to log it.  The
\* registry and the log are written under different locks.
SweptIsLogged ==
    \A b \in Blocks :
        state[b] = "swept" =>
            \/ coverage[b] # Nobody
            \/ \E c \in Procs : handlerAt[c] = "record" /\ lease[report[c].id].block = b

\* The search never ends empty-handed with the key in the keyspace: no worker
\* is told "exhausted", because the key's block is never written off, whoever
\* swept it, died over it or reported it late.
NotExhaustedWithKey ==
    TargetBlocks # {} =>
        \A c \in Procs : \A k \in DOMAIN toWorker[c] :
            toWorker[c][k] # Refusal("exhausted")

\* The conflict flag is never raised without cause: some block was leased
\* more than once.
ConflictMeansLeasedTwice ==
    conflict => \E i, j \in Reg!Issued : i # j /\ lease[i].block = lease[j].block

-----------------------------------------------------------------------------
(* Action properties *)

\* While every worker id is used by one process only, a process that sweeps
\* under a live lease keeps it as long as its own connection is served: no
\* reclaim, report, disconnection or cleanup of another worker takes it away.
\* It may still lose it to the clock, and to the finally block of its own
\* handler when its connection fails under it.
SweeperKeepsLease ==
    [][\A c \in Procs :
          Served(c) /\ clientAt[c] = "sweep" /\ Reg!Live(held[c])
              => held[c] \in leasesById']_vars

\* server.py:247: "once FOUND, stop handing out leases".  The latch is tested under
\* one lock and the lease taken under another, so a handler between the two
\* still hands one out after FOUND, and workers that sweep then go on.  But each
\* finishes that one block at most: a process that is between two blocks, or has
\* yet to ask for its first, when the key is found or later, never sweeps again.
FoundEndsSweeping ==
    \A c \in Procs :
        [](found # NotFound /\ ~stopped /\ clientAt[c] \in {"off", "welcome", "idle"}
               => [](clientAt[c] # "sweep"))

-----------------------------------------------------------------------------
(* The registry under the server *)

\* The server drives the registry only through its methods, one critical
\* section at a time: every behaviour of the swarm is one of RangeRegistry,
\* and what holds of the registry alone holds of the registry in the server.
ImplementsRegistry == Reg!Spec

-----------------------------------------------------------------------------
(* Liveness *)

\* orchestrator/README.md: "unacked leases expire and return to the free
\* pool".  A lease whose process is gone is taken back, whether its connection
\* was closed, reset or only went silent, by the reaper and the clock alone.
DeadHolderLosesLease ==
    \A i \in 1 .. MaxLeases :
        (i \in leasesById /\ \E c \in Procs : Gone(c) /\ lease[i].worker = IdOf(c))
            ~> i \notin leasesById

\* Every request of a process is answered, unless the process is gone or has
\* given up: no order of handlers, reaper and clock leaves a worker waiting.
AskerAnswered ==
    \A c \in Procs : clientAt[c] \in {"welcome", "await"}
                        ~> clientAt[c] \notin {"welcome", "await"}

AllGone == \A c \in Procs : clientAt[c] = "closed" /\ handlerAt[c] = "ended"

\* When nothing goes wrong the swarm finds the key, halts the allocator, and
\* every worker stops and gives back its leases.
SwarmFinds ==
    TargetBlocks # {} => <>[](AllGone /\ found # NotFound /\ halted /\ leasesById = {})

\* When nothing goes wrong and the key is absent, every block is swept exactly
\* once before the last worker stops (bench_scaling.py: "keyspace not fully
\* swept" and coverage_conflict are never seen).
SwarmSweepsAll ==
    TargetBlocks = {} => <>[](AllGone /\ Reg!Exhausted /\ ~conflict /\ found = NotFound)

-----------------------------------------------------------------------------
(* What the repository says of the program and the code does not keep *)

\* worker.py:104, where every NoWork ends the run: "Either a peer found it, or
\* the keyspace is exhausted".
StopMeansDone ==
    [][\A c \in Procs : ReadNoWork(c) => found # NotFound \/ Reg!Exhausted]_vars

=============================================================================
