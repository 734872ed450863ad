------------------------------ MODULE Exporter -------------------------------
(***************************************************************************)
(* The metrics path from end to end: ExporterService in xdp_fw, the Go     *)
(* exporter, and the socket and signals between them.                      *)
(***************************************************************************)
EXTENDS ExporterService, GoExporter

CONSTANT Budgets   \* bounds of the model on what may happen from outside

ASSUME BudgetAssumption ==
    Budgets \subseteq [updates : Nat, faults : Nat, signal : {"never", "due"}]

vars == <<kernel, cpp, govars>>

Init ==
    /\ SocketInit /\ ServiceInit /\ GoInit
    /\ \E b \in Budgets : updates = b.updates /\ faults = b.faults /\ signal = b.signal

Cpp ==
    \/ UdsThread \/ Stopper \/ Crash
    \/ (\E k \in RiskKeys : RiskUpdate(k))
    \/ (\E k \in FileKeys : KsmEvent(k)) \/ KsmReadFails

GoProcess == GoMain \/ GoHandler \/ RaiseSignal \/ ServeFatal

\* Go has ended; xdp_fw is gone too, or was left behind with nobody to serve
GoEnded == go \in {"exited", "fatal"} /\ UNCHANGED vars

Next ==
    \/ Cpp /\ UNCHANGED govars
    \/ GoProcess /\ UNCHANGED cpp
    \/ GoEnded

\* Threads and goroutines are scheduled.  Nothing is assumed of the device
\* the KSM reader blocks on, nor of the main thread of xdp_fw, which may hang
\* on its way to stop().
Fairness ==
    /\ WF_vars(UdsThread /\ UNCHANGED govars)
    /\ WF_vars((StopLoadFd \/ StopShutdown) /\ UNCHANGED govars)
    /\ WF_vars(GoMain /\ UNCHANGED cpp)
    /\ WF_vars(GoHandler /\ UNCHANGED cpp)

Spec == Init /\ [][Next]_vars /\ Fairness

-----------------------------------------------------------------------------
\* The reader always finds a header where it expects one, and bodies of the
\* batch it is in where it expects bodies: counts match what is sent although
\* the maps change meanwhile, and a stream that broke is never continued
\* (ExporterService.hpp:236-347, main.go:111-195).
FramesAligned ==
    stream # <<>> =>
        /\ go = "read" => Head(stream).kind = "head"
        /\ go = "body" => Head(stream).kind = "body" /\ Head(stream).type = type

\* A gauge that is shown is the whole sum of one snapshot: exactly what the
\* map held when the snapshot began, and no more than it holds now, also
\* across broken connections and while the map goes on being updated; only a
\* snapshot during which the risk map itself was updated may be off
\* (main.go:146-171, ExporterService.hpp:236-292).
GaugeFaithful ==
    \A d \in Domains : gauge[d] > 0 /\ ~origin.moved[1] =>
        gauge[d] = origin.floor[d] /\ gauge[d] <= Total(d)

\* A file-event series is counted once: each batch of file events follows a
\* batch of risk counts, which resets the counters, on every connection
\* (main.go:148, metric.go:98-130); unless the file map was updated during
\* the snapshot, when an entry may be sent twice.
FileEventsOnce == ~origin.moved[2] => \A l \in DOMAIN files : files[l] <= 1

\* What the risk map holds in the end is shown, whatever connections broke,
\* as long as both processes are left running (main.go:236-270).
EventuallyShown ==
    \A d \in Domains : [](updates = 0 =>
        <>(gauge[d] = Total(d) \/ signal = "received" \/ process = "gone" \/ go = "fatal"))

\* When stop() has shut the listening socket down and waits for the other
\* threads, the UDS thread cannot be left waiting in accept for a client: it
\* publishes the descriptor before it tests running, and stop() clears running
\* before it loads the descriptor (ExporterService.hpp:398-441, 564-588).
NoStuckAccept == Up /\ stopper = "join" /\ uds = "accept" => lsn = "shut"

\* A signal to a connected Go exporter ends both processes, even if xdp_fw
\* hangs in its shutdown, unless log.Fatalf of the metrics server ends Go first
\* (ExporterManager.go:75-99, main.go:226-275, metric.go:69, 92).
BothExit ==
    (signal = "received" /\ handler = "wait")
        ~> ((go = "exited" /\ process = "gone") \/ go = "fatal")
==============================================================================
