--------------------------- MODULE ExporterService ---------------------------
(***************************************************************************)
(* The exporter inside xdp_fw: the UDS thread, which serves one client at  *)
(* a time with a batch of risk counts (type 1) and a batch of file events  *)
(* (type 2) each second; the threads that fill the two maps; and stop(),   *)
(* called by the main thread at exit.                                      *)
(***************************************************************************)
EXTENDS MetricSocket, Functions

CONSTANT MaxVisits   \* bound of the model: how often an iteration meets one entry

ASSUME VisitAssumption == MaxVisits \in Nat \ {0}

VARIABLES
    running,  \* ExporterService::running
    stopper,  \* where stop() is
    loaded,   \* stop(): it found uds_server_fd # -1
    uds,      \* where the UDS thread is
    fd,       \* uds_server_fd # -1
    batch,    \* the snapshot being taken or sent
    counts,   \* both maps; 0: the key is not in its map
    updates,  \* bound of the model: updates of the maps to come
    reader    \* the KSM reader thread: read, ended

stopping == <<running, stopper, loaded>>
maps     == <<counts, updates, reader>>
cpp      == <<stopping, uds, fd, batch, maps>>

Keys == RiskKeys \cup FileKeys

KeysOf(type) == IF type = 1 THEN RiskKeys ELSE FileKeys

\* what the risk map holds for a domain
Total(d) == SumFunctionOnSet(counts, {k \in RiskKeys : DomainOf[k] = d})

(***************************************************************************)
(* visits: how often the iterator has met each key; must: the keys in the  *)
(* map when the iteration began; bodies: the snapshot; moved: the map was  *)
(* updated since.  floor is history: the totals when it began.             *)
(***************************************************************************)
NoBatch == [type |-> 0, visits |-> [k \in Keys |-> 0], must |-> {}, bodies |-> <<>>,
            moved |-> FALSE, floor |-> NoSums]

Begin(type) ==
    batch' = [NoBatch EXCEPT !.type = type,
                             !.must = {k \in KeysOf(type) : counts[k] > 0},
                             !.floor = IF type = 1 THEN [d \in Domains |-> Total(d)] ELSE NoSums]

ServiceInit ==
    /\ running = TRUE /\ stopper = "idle" /\ loaded = FALSE
    /\ uds = "none" /\ fd = FALSE /\ batch = NoBatch
    /\ counts = [k \in Keys |-> 0]
    /\ reader \in {"read", "ended"}      \* ended: there is no /dev/ksm_dev

Up == process = "up"

Uds(from, to) == Up /\ uds = from /\ uds' = to

-----------------------------------------------------------------------------
(***************************************************************************)
(* initUDSService and createAndBindUdsSocket.                              *)
(***************************************************************************)
\* start_exporter_server, startUDSService
StartUds ==
    /\ Uds("none", "create")
    /\ UNCHANGED <<kernel, stopping, fd, batch, maps>>

\* the outer loop tests running; a socket that cannot be made is retried
CreateSocket ==
    /\ \/ Uds("create", "ended") /\ ~running /\ UNCHANGED <<lsn, faults>>
       \/ Uds("create", "publish") /\ running /\ lsn' = "open" /\ UNCHANGED faults
       \/ Uds("create", "create") /\ running /\ Fault /\ UNCHANGED lsn
    /\ UNCHANGED <<process, term, backlog, conn, client, stream, stopping, fd, batch, maps>>

\* mutant: running is not tested again before accept
PublishAndAccept ==
    /\ Uds("publish", "accept")
    /\ fd' = TRUE
    /\ UNCHANGED <<kernel, stopping, batch, maps>>

PublishFd ==
    /\ Uds("publish", "test")
    /\ fd' = TRUE
    /\ UNCHANGED <<kernel, stopping, batch, maps>>

\* the inner loop
TestRunning ==
    /\ \/ Uds("test", "accept") /\ running
       \/ Uds("test", "close") /\ ~running
    /\ UNCHANGED <<kernel, stopping, fd, batch, maps>>

AcceptClient ==
    /\ Uds("accept", "round")
    /\ Accept
    /\ UNCHANGED <<stopping, fd, batch, maps>>

\* EINVAL on a socket that was shut down leaves the loop, running or not;
\* other errors are retried
AcceptFails ==
    /\ \/ Uds("accept", "close") /\ lsn = "shut" /\ backlog = 0 /\ UNCHANGED faults
       \/ Uds("accept", "test") /\ Fault
    /\ UNCHANGED <<process, term, lsn, backlog, conn, client, stream, stopping, fd, batch, maps>>

CloseServer ==
    /\ Uds("close", "forget")
    /\ CloseListener
    /\ UNCHANGED <<process, term, client, stream, faults, stopping, fd, batch, maps>>

ForgetFd ==
    /\ Uds("forget", "create")
    /\ fd' = FALSE
    /\ UNCHANGED <<kernel, stopping, batch, maps>>

-----------------------------------------------------------------------------
(***************************************************************************)
(* serveClient, _send_bpftrace, _send_ksm_events and send_all.             *)
(***************************************************************************)
Round ==
    /\ \/ Uds("round", "iterate") /\ running /\ Begin(1)
       \/ Uds("round", "hangup") /\ ~running /\ UNCHANGED batch
    /\ UNCHANGED <<kernel, stopping, fd, maps>>

\* A tbb::concurrent_hash_map that has grown splits its buckets lazily, on
\* any later access: an update during the iteration, of a new or an existing
\* key, moves entries ahead of the iterator, which meets them again, and may
\* hide others from it.
Visit(k) ==
    /\ Uds("iterate", "iterate")
    /\ k \in KeysOf(batch.type) /\ counts[k] > 0
    /\ batch.visits[k] < (IF batch.moved THEN MaxVisits ELSE 1)
    /\ batch' = [batch EXCEPT !.visits[k] = @ + 1,
                              !.bodies = Append(@, [key |-> k, n |-> counts[k]])]
    /\ UNCHANGED <<kernel, stopping, fd, maps>>

IterationOver ==
    /\ Uds("iterate", "head")
    /\ batch.moved \/ \A k \in batch.must : batch.visits[k] > 0
    /\ UNCHANGED <<kernel, stopping, fd, batch, maps>>

\* send_all gives up when running is cleared, the client is gone or, with a
\* full buffer, the send times out
SendOk    == running /\ client = "live" /\ Len(stream) < Buffer
SendFails ==
    \/ (~running \/ client = "dead") /\ UNCHANGED faults
    \/ client = "live" /\ Len(stream) = Buffer /\ Fault

\* after its last body a batch is followed by the next one, or by a pause
Sent(rest) ==
    IF rest # <<>> THEN uds' = "body" /\ batch' = [batch EXCEPT !.bodies = rest]
    ELSE IF batch.type = 1 THEN uds' = "iterate" /\ Begin(2)
    ELSE uds' = "round" /\ batch' = NoBatch

\* mutant: the count is that of the map when the iteration began
SendHeadSizeBefore ==
    /\ Up /\ uds = "head" /\ SendOk
    /\ stream' = Append(stream, HeadMsg(batch.type, Cardinality(batch.must), batch.floor, batch.moved))
    /\ Sent(batch.bodies)
    /\ UNCHANGED <<process, term, lsn, backlog, conn, client, faults, stopping, fd, maps>>

SendHead ==
    /\ Up /\ uds = "head" /\ SendOk
    /\ stream' = Append(stream, HeadMsg(batch.type, Len(batch.bodies), batch.floor, batch.moved))
    /\ Sent(batch.bodies)
    /\ UNCHANGED <<process, term, lsn, backlog, conn, client, faults, stopping, fd, maps>>

SendBody ==
    LET b == Head(batch.bodies) IN
    /\ Up /\ uds = "body" /\ SendOk
    /\ stream' = Append(stream, BodyMsg(batch.type, b.key, b.n))
    /\ Sent(Tail(batch.bodies))
    /\ UNCHANGED <<process, term, lsn, backlog, conn, client, faults, stopping, fd, maps>>

\* mutant: a batch that could not be sent is skipped
SkipBatch ==
    /\ Uds("head", "round") \/ Uds("body", "round")
    /\ SendFails
    /\ UNCHANGED <<process, term, lsn, backlog, conn, client, stream, stopping, fd, batch, maps>>

SendFailed ==
    /\ Uds("head", "hangup") \/ Uds("body", "hangup")
    /\ SendFails
    /\ UNCHANGED <<process, term, lsn, backlog, conn, client, stream, stopping, fd, batch, maps>>

CloseClient ==
    /\ Uds("hangup", "test")
    /\ HangUp
    /\ batch' = NoBatch
    /\ UNCHANGED <<stopping, fd, maps>>

UdsThread ==
    \/ StartUds \/ CreateSocket \/ PublishFd \/ TestRunning \/ AcceptClient \/ AcceptFails
    \/ CloseServer \/ ForgetFd
    \/ Round \/ (\E k \in Keys : Visit(k)) \/ IterationOver
    \/ SendHead \/ SendBody \/ SendFailed \/ CloseClient

-----------------------------------------------------------------------------
(***************************************************************************)
(* The writers of the maps.                                                *)
(***************************************************************************)
Count(k) ==
    /\ updates > 0 /\ updates' = updates - 1
    /\ counts' = [counts EXCEPT ![k] = @ + 1]
    /\ batch' = [batch EXCEPT !.moved = @ \/ (uds = "iterate" /\ k \in KeysOf(batch.type))]

\* RiskMetricInfos::update_metrics, called by the DPI engine
RiskUpdate(k) ==
    /\ Up /\ Count(k)
    /\ UNCHANGED <<kernel, stopping, uds, fd, reader>>

\* the KSM reader thread: a blocking read, whatever running says
KsmEvent(k) ==
    /\ Up /\ reader = "read"
    /\ Count(k)
    /\ reader' = IF running THEN "read" ELSE "ended"
    /\ UNCHANGED <<kernel, stopping, uds, fd>>

\* a read that returns no event; only then, or after an event, is running tested
KsmReadFails ==
    /\ Up /\ reader = "read" /\ ~running
    /\ reader' = "ended"
    /\ UNCHANGED <<kernel, stopping, uds, fd, batch, counts, updates>>

-----------------------------------------------------------------------------
(***************************************************************************)
(* stop(), on the main thread on its way out, and the end of the process.  *)
(***************************************************************************)
StopClear ==
    /\ Up /\ term /\ stopper = "idle" /\ stopper' = "load"
    /\ running' = FALSE
    /\ UNCHANGED <<kernel, loaded, uds, fd, batch, maps>>

StopLoadFd ==
    /\ Up /\ stopper = "load" /\ stopper' = "shutdown"
    /\ loaded' = fd
    /\ UNCHANGED <<kernel, running, uds, fd, batch, maps>>

\* the descriptor may have been closed since it was loaded
StopShutdown ==
    /\ Up /\ stopper = "shutdown" /\ stopper' = "join"
    /\ lsn' = IF loaded /\ lsn = "open" THEN "shut" ELSE lsn
    /\ UNCHANGED <<process, term, backlog, conn, client, stream, faults, running, loaded, uds, fd, batch, maps>>

\* the KSM reader is joined; then exit(0)
StopJoin ==
    /\ Up /\ stopper = "join" /\ reader = "ended"
    /\ Die /\ UNCHANGED faults
    /\ UNCHANGED cpp

Stopper == StopClear \/ StopLoadFd \/ StopShutdown \/ StopJoin

\* xdp_fw fails on its own
Crash ==
    /\ Up /\ Fault /\ Die
    /\ UNCHANGED cpp
=============================================================================
