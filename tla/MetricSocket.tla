---------------------------- MODULE MetricSocket ----------------------------
(***************************************************************************)
(* The UNIX stream socket between xdp_fw (ExporterService) and the Go      *)
(* exporter, and the xdp_fw process itself, as the kernel keeps them.      *)
(* Go has at most one connection open; connections it gave up may still be *)
(* waiting in the backlog, in front of the live one.  Bytes are counted in *)
(* messages: one cut off by a failing send never arrives, and the reader   *)
(* finds the end of the stream in its place.                               *)
(***************************************************************************)
EXTENDS Naturals, Sequences, FiniteSets

CONSTANTS
    Domains,   \* domains a connection can be counted under
    RiskKeys,  \* keys of RiskMetricInfos
    DomainOf,  \* the domain of each
    FileKeys,  \* keys of KsmFEMetricInfo
    Backlog,   \* connections that wait for accept (10 in the code)
    Buffer     \* messages the stream has room for

ASSUME KeyAssumption ==
    DomainOf \in [RiskKeys -> Domains] /\ IsFiniteSet(RiskKeys) /\ RiskKeys \cap FileKeys = {}
ASSUME SocketAssumption == Backlog \in Nat \ {0} /\ Buffer \in Nat \ {0}

VARIABLES
    process,  \* xdp_fw: none, up, gone
    term,     \* xdp_fw was sent SIGTERM
    lsn,      \* the listening socket: none, open, shut
    backlog,  \* connections in its backlog
    conn,     \* Go's connection: closed, queued, served
    client,   \* the connection xdp_fw serves: none, live, dead
    stream,   \* messages sent and not yet read
    faults    \* bound of the model: timeouts, failing calls and crashes to come

(***************************************************************************)
(* Messages: CommMsgHeader with its type and count; BPFTraceBody and       *)
(* KsmFEExportBody with key and count.  floor and moved are history, see   *)
(* ExporterService.                                                        *)
(***************************************************************************)
NoSums == [d \in Domains |-> 0]

HeadMsg(type, n, floor, moved) ==
    [kind |-> "head", type |-> type, n |-> n, floor |-> floor, moved |-> moved]

BodyMsg(type, key, n) == [kind |-> "body", type |-> type, key |-> key, n |-> n]

kernel == <<process, term, lsn, backlog, conn, client, stream, faults>>

SocketInit ==
    /\ process = "none" /\ term = FALSE
    /\ lsn = "none" /\ backlog = 0
    /\ conn = "closed" /\ client = "none"
    /\ stream = <<>>

Fault == faults > 0 /\ faults' = faults - 1

Connectable == lsn = "open" /\ backlog < Backlog

Connect ==
    /\ Connectable
    /\ backlog' = backlog + 1
    /\ conn' = "queued"
    /\ UNCHANGED <<process, term, lsn, client, stream, faults>>

\* a connection whose other end is closed still is accepted
Accept ==
    /\ backlog > 0
    /\ backlog' = backlog - 1
    /\ IF backlog = 1 /\ conn = "queued"
       THEN conn' = "served" /\ client' = "live"
       ELSE client' = "dead" /\ UNCHANGED conn
    /\ UNCHANGED <<process, term, lsn, stream, faults>>

\* the end of Go's connection, closed by Go or by its own end
CutOff ==
    /\ conn' = "closed"
    /\ client' = IF client = "live" THEN "dead" ELSE client
    /\ stream' = <<>>
    /\ UNCHANGED <<process, term, lsn, backlog>>

\* Go closes its connection
Disconnect == CutOff /\ UNCHANGED faults

\* xdp_fw closes the connection it serves: what was sent can still be read
HangUp ==
    /\ client' = "none"
    /\ UNCHANGED <<process, term, lsn, backlog, conn, stream, faults>>

\* connections in the backlog of a closed socket are at their end
CloseListener ==
    /\ lsn' = "none" /\ backlog' = 0
    /\ conn' = IF conn = "queued" THEN "served" ELSE conn

EndOfStream == conn = "served" /\ stream = <<>> /\ client # "live"

\* the process ends, however it does
Die ==
    /\ process' = "gone"
    /\ CloseListener
    /\ client' = "none"
    /\ UNCHANGED <<term, stream>>
=============================================================================
