----------------------------- MODULE GoExporter ------------------------------
(***************************************************************************)
(* cmd/exporter: the Go process that starts xdp_fw, reads its batches from *)
(* the socket into Prometheus metrics, reconnects when the stream breaks,  *)
(* and stops xdp_fw when it is told to stop itself.  Prometheus may scrape *)
(* in every state.                                                         *)
(***************************************************************************)
EXTENDS MetricSocket, Functions

CONSTANT MaxCount   \* bound of the model on a count

ASSUME CountAssumption == MaxCount \in Nat

VARIABLES
    go,       \* where main() is
    signal,   \* SIGINT or SIGTERM: never, due, received
    handler,  \* where the signal goroutine is
    ctx,      \* the context was cancelled
    type,     \* of the header being processed
    left,     \* bodies of it still to be read
    summary,  \* summaryBody: the sum for each domain met
    gauge,    \* riskMetrics; 0: no such series
    files,    \* kernel_file_events_total, by key and count label
    origin    \* history: floor and moved of the batches the metrics come from

inbox   == <<type, left, summary>>
metrics == <<gauge, files, origin>>
govars  == <<go, signal, handler, ctx, inbox, metrics>>

NoEvents == [l \in FileKeys \X (1..MaxCount) |-> 0]

GoInit ==
    /\ go = "start" /\ handler = "none" /\ ctx = FALSE
    /\ type = 0 /\ left = 0 /\ summary = NoSums
    /\ gauge = NoSums /\ files = NoEvents
    /\ origin = [floor |-> NoSums, moved |-> <<FALSE, FALSE>>]

Go(from, to) == go = from /\ go' = to

-----------------------------------------------------------------------------
\* ExporterManager.Start
StartProcess ==
    /\ Go("start", "dial")
    /\ process' = "up"
    /\ UNCHANGED <<term, lsn, backlog, conn, client, stream, faults, signal, handler, ctx, inbox, metrics>>

\* dialSocket, then the metrics server (its failure: ServeFatal) and the
\* signal goroutine
DialFirst ==
    /\ Go("dial", "test")
    /\ Connect
    /\ handler' = "wait"
    /\ UNCHANGED <<signal, ctx, inbox, metrics>>

\* fifty attempts failed: log.Fatalf, and xdp_fw is left to itself
DialFatal ==
    /\ Go("dial", "fatal")
    /\ ~Connectable
    /\ UNCHANGED <<kernel, signal, handler, ctx, inbox, metrics>>

-----------------------------------------------------------------------------
(***************************************************************************)
(* readLoop, readAndProcessBPFData, readAndProcessKSMData.                 *)
(***************************************************************************)
TestContext ==
    /\ \/ Go("test", "read") /\ ~ctx
       \/ Go("test", "finish") /\ ctx
    /\ UNCHANGED <<kernel, signal, handler, ctx, inbox, metrics>>

Consume == stream' = Tail(stream) /\ UNCHANGED <<process, term, lsn, backlog, conn, client, faults>>

Reading(pc) == go = pc /\ stream # <<>>

\* mutant: the counters of file events are not reset
ResetGaugesOnly == gauge' = NoSums /\ UNCHANGED files

\* ResetMetrics
ResetMetrics == gauge' = NoSums /\ files' = NoEvents

\* a header of type 1 or 2; anything else ends readLoop
ReadHeader ==
    LET h == Head(stream) IN
    /\ Reading("read") /\ Consume
    /\ IF h.kind = "head"
       THEN /\ type' = (IF h.n > 0 THEN h.type ELSE 0) /\ left' = h.n
            /\ IF h.type = 1 THEN ResetMetrics ELSE UNCHANGED <<gauge, files>>
            /\ origin' = IF h.type = 1 THEN [floor |-> h.floor, moved |-> <<h.moved, FALSE>>]
                                       ELSE [origin EXCEPT !.moved[2] = h.moved]
            /\ go' = IF h.n > 0 THEN "body" ELSE "test"
       ELSE go' = "broken" /\ UNCHANGED <<type, left, metrics>>
    /\ UNCHANGED <<signal, handler, ctx, summary>>

\* mutant: every body updates its gauge at once
ReadRiskAndSet ==
    LET b == Head(stream)
        d == DomainOf[b.key] IN
    /\ Reading("body") /\ Consume
    /\ type = 1 /\ b.kind = "body"
    /\ summary' = [summary EXCEPT ![d] = @ + b.n]
    /\ left' = left - 1
    /\ type' = IF left = 1 THEN 0 ELSE 1
    /\ go' = IF left = 1 THEN "test" ELSE "body"
    /\ gauge' = [gauge EXCEPT ![d] = summary'[d]]
    /\ UNCHANGED <<signal, handler, ctx, files, origin>>

ReadRisk ==
    LET b == Head(stream) IN
    /\ Reading("body") /\ Consume
    /\ type = 1 /\ b.kind = "body"
    /\ summary' = [summary EXCEPT ![DomainOf[b.key]] = @ + b.n]
    /\ left' = left - 1
    /\ type' = IF left = 1 THEN 0 ELSE 1
    /\ go' = IF left = 1 THEN "set" ELSE "body"
    /\ UNCHANGED <<signal, handler, ctx, metrics>>

\* ProcessSocketData for each domain met, in the order of a Go map
SetGauge(d) ==
    /\ go = "set" /\ summary[d] > 0
    /\ gauge' = [gauge EXCEPT ![d] = summary[d]]
    /\ summary' = [summary EXCEPT ![d] = 0]
    /\ go' = IF summary' = NoSums THEN "test" ELSE "set"
    /\ UNCHANGED <<kernel, signal, handler, ctx, type, left, files, origin>>

\* ProcessKSMEvent: the count is a label, the counter counts the records
ReadFile ==
    LET b == Head(stream) IN
    /\ Reading("body") /\ Consume
    /\ type = 2 /\ b.kind = "body"
    /\ files' = [files EXCEPT ![<<b.key, b.n>>] = @ + 1]
    /\ left' = left - 1
    /\ type' = IF left = 1 THEN 0 ELSE 2
    /\ go' = IF left = 1 THEN "test" ELSE "body"
    /\ UNCHANGED <<signal, handler, ctx, summary, gauge, origin>>

\* end of the stream, a closed connection, or the read deadline
ReadFails ==
    /\ Go("read", "broken") \/ Go("body", "broken")
    /\ \/ (EndOfStream \/ conn = "closed") /\ UNCHANGED faults
       \/ stream = <<>> /\ conn # "closed" /\ ~EndOfStream /\ Fault
    /\ type' = 0 /\ left' = 0 /\ summary' = NoSums
    /\ UNCHANGED <<process, term, lsn, backlog, conn, client, stream, signal, handler, ctx, metrics>>

\* the break statements of main() leave only their select: it always reconnects
CloseBroken ==
    /\ Go("broken", "redial")
    /\ Disconnect
    /\ UNCHANGED <<signal, handler, ctx, inbox, metrics>>

\* a failed dialSocket goes back to readLoop with the closed connection
Redial ==
    /\ Go("redial", "test")
    /\ Connect \/ (~Connectable /\ UNCHANGED kernel)
    /\ UNCHANGED <<signal, handler, ctx, inbox, metrics>>

\* the last Stop and Close of main(); Done is closed when xdp_fw is gone
Finish ==
    /\ Go("finish", "exited")
    /\ process = "gone"
    /\ Disconnect
    /\ UNCHANGED <<signal, handler, ctx, inbox, metrics>>

\* the metrics server cannot listen or fails: log.Fatalf in its goroutine ends
\* Go wherever it is, and xdp_fw is left to itself
ServeFatal ==
    /\ go \notin {"start", "dial", "fatal", "exited"} /\ go' = "fatal"
    /\ Fault /\ CutOff
    /\ type' = 0 /\ left' = 0 /\ summary' = NoSums
    /\ UNCHANGED <<signal, handler, ctx, metrics>>

GoMain ==
    \/ StartProcess \/ DialFirst \/ DialFatal
    \/ TestContext \/ ReadHeader \/ ReadRisk \/ (\E d \in Domains : SetGauge(d)) \/ ReadFile
    \/ ReadFails \/ CloseBroken \/ Redial \/ Finish

-----------------------------------------------------------------------------
(***************************************************************************)
(* The signal goroutine and ExporterManager.Stop.                          *)
(***************************************************************************)
Handler(from, to) == handler = from /\ handler' = to /\ go \notin {"exited", "fatal"}

RaiseSignal ==
    /\ signal = "due" /\ go \notin {"fatal", "exited"}
    /\ signal' = "received"
    /\ UNCHANGED <<kernel, go, handler, ctx, inbox, metrics>>

SendTerm ==
    /\ Handler("wait", "done")
    /\ signal = "received"
    /\ term' = TRUE
    /\ UNCHANGED <<process, lsn, backlog, conn, client, stream, faults, go, signal, ctx, inbox, metrics>>

\* mutant: Stop waits for Done without a time limit
NeverKill == FALSE /\ UNCHANGED <<kernel, govars>>

\* ten seconds without Done: SIGKILL
SendKill ==
    /\ Handler("done", "done") /\ process = "up"
    /\ Die /\ UNCHANGED faults
    /\ UNCHANGED <<go, signal, ctx, inbox, metrics>>

CloseConn ==
    /\ Handler("done", "cancel")
    /\ process = "gone"
    /\ Disconnect
    /\ UNCHANGED <<go, signal, ctx, inbox, metrics>>

Cancel ==
    /\ Handler("cancel", "ended")
    /\ ctx' = TRUE
    /\ UNCHANGED <<kernel, go, signal, inbox, metrics>>

GoHandler == SendTerm \/ SendKill \/ CloseConn \/ Cancel
=============================================================================
