----------------------------- MODULE Lifecycle ------------------------------
(***************************************************************************)
(* The xdp_fw process from start-up to exit: main(), the signal thread,    *)
(* the ring-buffer poll thread and the netlink thread that re-attaches the *)
(* BPF programs when a link comes up.  Of the dashboard thread only the    *)
(* std::jthread matters here; its loop is the consumer of SpscQueue.       *)
(*                                                                         *)
(* The kernel is external: links and addresses change on their own, every  *)
(* link change is announced to a bound RTMGRP_LINK socket (or lost when    *)
(* its buffer is full), an address change is not.  Hooks stay on an        *)
(* interface until somebody removes them, also after the process is gone.  *)
(***************************************************************************)
EXTENDS Naturals, Sequences, FiniteSets

CONSTANTS
    Ifaces,     \* interfaces other than lo, with an ifindex below MAX_IFINDEX
    Boot,       \* the links and addresses the process may find
    QueueSize,  \* link messages the netlink socket has room for
    MaxChanges  \* bound of the model on link and address changes

LinkStates == {"down", "no_carrier", "up"}

ASSUME BootAssumption   == Boot \subseteq [Ifaces -> [state : LinkStates, addr : BOOLEAN]]
ASSUME QueueAssumption  == QueueSize \in Nat
ASSUME ChangeAssumption == MaxChanges \in Nat

VARIABLES
    main,     \* where main() is
    running,  \* g_running
    signal,   \* a shutdown signal: none, pending, or taken by sigwait
    thread,   \* where each thread is
    owner,    \* the std::jthread of each thread: none, joinable, detached
    stop,     \* stop_requested() of the netlink thread
    again,    \* unload_tc has to be repeated
    rb,       \* the ring buffer: null, live, freed
    config,   \* the configuration in global_config_map: zero, loaded
    latched,  \* the configuration the XDP program copied: no, zero, loaded
    link,     \* state and address of every interface
    msgs,     \* link messages not yet received
    known,    \* g_iface_state_known and g_iface_last_up
    xdp, tc,  \* interfaces with the XDP, the TC egress program attached
    changes,  \* link and address changes so far
    blind,    \* history: interfaces changed unannounced since the last scan
    lost,     \* history: interfaces of which a link message was lost
    raced     \* history: hooks were attached during or after the final sweep

proc == <<main, running, signal, thread, owner, stop, again, rb>>
bpf  == <<config, latched>>
env  == <<link, msgs, changes>>
hooks == <<xdp, tc>>
hist == <<blind, lost, raced>>
vars == <<proc, bpf, env, known, hooks, hist>>

Threads  == {"poll", "ui", "netlink"}   \* g_poll_thread, g_ui_dashboard_thread, g_netlink_thread
Startup  == {"skeleton", "config", "attach", "ring", "netlink"}
Shutdown == {"stop_netlink", "cleanup", "unload", "detach", "sweep", "free",
             "stop_exporter", "destroy"}

Init ==
    /\ main = "skeleton" /\ running = TRUE /\ signal = "none"
    /\ thread = [t \in Threads |-> "none"]
    /\ owner  = [t \in Threads |-> "none"]
    /\ stop = FALSE /\ again = FALSE /\ rb = "null"
    /\ config = "zero" /\ latched = "no"
    /\ link \in Boot
    /\ msgs = <<>> /\ changes = 0
    /\ known = [i \in Ifaces |-> "unknown"]
    /\ xdp = {} /\ tc = {}
    /\ blind = {} /\ lost = {} /\ raced = FALSE

-----------------------------------------------------------------------------
(***************************************************************************)
(* Hooks.  getifaddrs lists an interface once for each address and once    *)
(* for its link layer, so scans by address family miss the ones without    *)
(* an address.                                                             *)
(***************************************************************************)
WithAddress == {i \in Ifaces : link[i].addr}

\* attach_xdp_to_all_interfaces: IFF_UP, whatever the carrier, and an address
Attachable == {i \in WithAddress : link[i].state # "down"}

\* detach_interfaces (the TC part skips interfaces with IPv6 only, which the
\* sweep that always follows covers)
DetachInterfaces ==
    /\ xdp' = xdp \ WithAddress
    /\ tc'  = tc \ WithAddress

\* mutant: the sweep goes by address, too
SweepByAddress == xdp' = xdp \ WithAddress /\ tc' = tc \ WithAddress

\* force_clean_all_net_hooks
ForceClean == xdp' = {} /\ tc' = {}

-----------------------------------------------------------------------------
(***************************************************************************)
(* main() up to the dashboard.                                             *)
(***************************************************************************)
At(pc)   == main = pc
Goto(pc) == main' = pc

\* register_skeleton_handler; an exception leads to do_graceful_shutdown
LoadSkeleton ==
    /\ At("skeleton")
    /\ Goto("config") \/ Goto("stop_netlink")
    /\ UNCHANGED <<running, signal, thread, owner, stop, again, rb, bpf, env, known, hooks, hist>>

\* mutant: the configuration map is not written
ConfigureLater ==
    /\ At("config")
    /\ Goto("attach") \/ Goto("stop_netlink")
    /\ UNCHANGED <<running, signal, thread, owner, stop, again, rb, bpf, env, known, hooks, hist>>

\* register_config_and_pipe_handler: sync_xdp_config_map is its last step
Configure ==
    /\ At("config")
    /\ \/ Goto("attach") /\ config' = "loaded"
       \/ Goto("stop_netlink") /\ UNCHANGED config
    /\ UNCHANGED <<running, signal, thread, owner, stop, again, rb, latched, env, known, hooks, hist>>

\* register_xdp_fw_plugins: TC on every interface, XDP on the attachable ones
AttachHooks ==
    /\ At("attach")
    /\ Goto("ring")
    /\ tc' = Ifaces /\ xdp' = Attachable
    /\ blind' = {}
    /\ UNCHANGED <<running, signal, thread, owner, stop, again, rb, bpf, env, known, lost, raced>>

\* ring_buffer__new and the two threads; without a ring buffer it returns early
StartThreads ==
    /\ At("ring")
    /\ Goto("netlink")
    /\ \/ /\ rb' = "live"
          /\ thread' = [thread EXCEPT !["poll"] = "test"]
          /\ owner'  = [owner EXCEPT !["poll"] = "joinable", !["ui"] = "joinable"]
       \/ UNCHANGED <<rb, thread, owner>>
    /\ UNCHANGED <<running, signal, stop, again, bpf, env, known, hooks, hist>>

StartNetlink ==
    /\ At("netlink")
    /\ Goto("dashboard")
    /\ thread' = [thread EXCEPT !["netlink"] = "bind"]
    /\ owner'  = [owner EXCEPT !["netlink"] = "joinable"]
    /\ UNCHANGED <<running, signal, stop, again, rb, bpf, env, known, hooks, hist>>

\* start_global_dashboard tests g_running once a second
LeaveDashboard ==
    /\ At("dashboard")
    /\ ~running
    /\ Goto("stop_netlink")
    /\ UNCHANGED <<running, signal, thread, owner, stop, again, rb, bpf, env, known, hooks, hist>>

-----------------------------------------------------------------------------
(***************************************************************************)
(* do_graceful_shutdown, cleanup_and_exit and unload_tc.                   *)
(***************************************************************************)
StopNetlink ==
    /\ At("stop_netlink")
    /\ Goto("cleanup")
    /\ IF owner["netlink"] = "joinable"
       THEN stop' = TRUE /\ owner' = [owner EXCEPT !["netlink"] = "detached"]
       ELSE UNCHANGED <<stop, owner>>
    /\ UNCHANGED <<running, signal, thread, again, rb, bpf, env, known, hooks, hist>>

ClearRunning ==
    /\ At("cleanup")
    /\ Goto("unload")
    /\ running' = FALSE
    /\ UNCHANGED <<signal, thread, owner, stop, again, rb, bpf, env, known, hooks, hist>>

Detached == [t \in Threads |-> IF t \in {"poll", "ui"} /\ owner[t] = "joinable"
                               THEN "detached" ELSE owner[t]]


\* the threads are detached, not joined: they run on.  The result of unload_tc
\* is TRUE only if one of them was still joinable (cpu_values is never set).
DetachThreads ==
    /\ At("unload")
    /\ Goto("detach")
    /\ again' = ~(owner["poll"] = "joinable" \/ owner["ui"] = "joinable")
    /\ owner' = Detached
    /\ UNCHANGED <<running, signal, thread, stop, rb, bpf, env, known, hooks, hist>>

DetachHooks ==
    /\ At("detach")
    /\ Goto("sweep")
    /\ DetachInterfaces
    /\ UNCHANGED <<running, signal, thread, owner, stop, again, rb, bpf, env, known, hist>>

SweepHooks ==
    /\ At("sweep")
    /\ Goto("free")
    /\ ForceClean
    /\ UNCHANGED <<running, signal, thread, owner, stop, again, rb, bpf, env, known, hist>>

FreeRing ==
    /\ At("free")
    /\ rb' = IF rb = "live" THEN "freed" ELSE rb
    /\ IF again THEN Goto("unload") ELSE Goto("stop_exporter")
    /\ UNCHANGED <<running, signal, thread, owner, stop, again, bpf, env, known, hooks, hist>>

\* ExporterService::stop, then destroy_skeleton: exit(0)
StopExporter ==
    /\ At("stop_exporter")
    /\ Goto("destroy")
    /\ UNCHANGED <<running, signal, thread, owner, stop, again, rb, bpf, env, known, hooks, hist>>

\* the static destructors ran; the process and its threads are gone
Exit ==
    /\ At("destroy")
    /\ Goto("exited")
    /\ thread' = [t \in Threads |-> IF thread[t] = "none" THEN "none" ELSE "ended"]
    /\ UNCHANGED <<running, signal, owner, stop, again, rb, bpf, env, known, hooks, hist>>

Main ==
    \/ LoadSkeleton \/ Configure \/ AttachHooks \/ StartThreads \/ StartNetlink \/ LeaveDashboard
    \/ StopNetlink \/ ClearRunning \/ DetachThreads \/ DetachHooks \/ SweepHooks \/ FreeRing
    \/ StopExporter \/ Exit

-----------------------------------------------------------------------------
(***************************************************************************)
(* The other threads.                                                      *)
(***************************************************************************)
Alive == main # "exited"

Move(t, pc) == thread' = [thread EXCEPT ![t] = pc]

\* signal_wait_thread_func
TakeSignal ==
    /\ Alive /\ signal = "pending"
    /\ signal' = "taken" /\ running' = FALSE
    /\ UNCHANGED <<main, thread, owner, stop, again, rb, bpf, env, known, hooks, hist>>

\* the loop of the poll thread; "poll": inside ring_buffer__poll
TestRunning ==
    /\ Alive /\ thread["poll"] = "test"
    /\ IF running THEN Move("poll", "poll") ELSE Move("poll", "ended")
    /\ UNCHANGED <<main, running, signal, owner, stop, again, rb, bpf, env, known, hooks, hist>>

\* ring_buffer__poll returns; an error other than EINTR ends the poll thread
PollReturns ==
    /\ Alive /\ thread["poll"] = "poll"
    /\ Move("poll", "test") \/ Move("poll", "ended")
    /\ UNCHANGED <<main, running, signal, owner, stop, again, rb, bpf, env, known, hooks, hist>>

BindSocket ==
    /\ Alive /\ thread["netlink"] = "bind"
    /\ Move("netlink", "loop")
    /\ UNCHANGED <<main, running, signal, owner, stop, again, rb, bpf, env, known, hooks, hist>>

\* the test at the head of the loop; recv() then waits up to a second
TestStop ==
    /\ Alive /\ thread["netlink"] = "loop"
    /\ IF running /\ ~stop THEN Move("netlink", "recv") ELSE Move("netlink", "ended")
    /\ UNCHANGED <<main, running, signal, owner, stop, again, rb, bpf, env, known, hooks, hist>>

RecvTimeout ==
    /\ Alive /\ thread["netlink"] = "recv"
    /\ msgs = <<>>
    /\ Move("netlink", "loop")
    /\ UNCHANGED <<main, running, signal, owner, stop, again, rb, bpf, env, known, hooks, hist>>

\* mutant: the flags are kept as they came
IsUpRaw(s) == s

IsUp(s) == IF s = "up" THEN "up" ELSE "down"

\* mutant: once the state of an interface is known, its messages are ignored
OnInterfaceChangedOnce ==
    LET m == Head(msgs) IN
    /\ Alive /\ thread["netlink"] = "recv"
    /\ msgs # <<>> /\ msgs' = Tail(msgs)
    /\ known' = [known EXCEPT ![m.iface] = IsUp(m.state)]
    /\ IF known[m.iface] = "unknown" /\ IsUp(m.state) = "up"
       THEN Move("netlink", "clean") ELSE Move("netlink", "loop")
    /\ UNCHANGED <<main, running, signal, owner, stop, again, rb, bpf, link, changes, hooks, hist>>

\* netlink_monitor_thread and on_interface_changed: a repeated state is
\* ignored, a link that is UP and RUNNING starts a full reload
OnInterfaceChanged ==
    LET m == Head(msgs) IN
    /\ Alive /\ thread["netlink"] = "recv"
    /\ msgs # <<>> /\ msgs' = Tail(msgs)
    /\ known' = [known EXCEPT ![m.iface] = IsUp(m.state)]
    /\ IF known[m.iface] # IsUp(m.state) /\ IsUp(m.state) = "up"
       THEN Move("netlink", "clean") ELSE Move("netlink", "loop")
    /\ UNCHANGED <<main, running, signal, owner, stop, again, rb, bpf, link, changes, hooks, hist>>

\* the final sweep is over, or a reload step will follow it
Late == main \in {"free", "stop_exporter", "destroy"}

\* full_reload_all_xdp_tc: detach everything ...
ReloadClean ==
    /\ Alive /\ thread["netlink"] = "clean"
    /\ xdp' = xdp \ WithAddress /\ tc' = {}
    /\ Move("netlink", "xdp")
    /\ UNCHANGED <<main, running, signal, owner, stop, again, rb, bpf, env, known, hist>>

\* ... attach XDP ...
ReloadXdp ==
    /\ Alive /\ thread["netlink"] = "xdp"
    /\ xdp' = xdp \cup Attachable
    /\ blind' = {}
    /\ raced' = (raced \/ Late)
    /\ Move("netlink", "tc")
    /\ UNCHANGED <<main, running, signal, owner, stop, again, rb, bpf, env, known, tc, lost>>

\* ... and TC again
ReloadTc ==
    /\ Alive /\ thread["netlink"] = "tc"
    /\ tc' = Ifaces
    /\ raced' = (raced \/ Late)
    /\ Move("netlink", "loop")
    /\ UNCHANGED <<main, running, signal, owner, stop, again, rb, bpf, env, known, xdp, blind, lost>>

Netlink ==
    BindSocket \/ TestStop \/ RecvTimeout \/ OnInterfaceChanged
    \/ ReloadClean \/ ReloadXdp \/ ReloadTc

-----------------------------------------------------------------------------
(***************************************************************************)
(* The environment.                                                        *)
(***************************************************************************)
RaiseSignal ==
    /\ signal = "none" /\ Alive
    /\ signal' = "pending"
    /\ UNCHANGED <<main, running, thread, owner, stop, again, rb, bpf, env, known, hooks, hist>>

Listening == thread["netlink"] \notin {"none", "bind", "ended"}

\* a change before the first scan is another initial state
MayChange == main \notin {"skeleton", "config", "exited"} /\ changes < MaxChanges

LinkChange(i, s) ==
    /\ MayChange /\ changes' = changes + 1
    /\ link[i].state # s
    /\ link' = [link EXCEPT ![i].state = s]
    /\ \/ Listening /\ Len(msgs) < QueueSize
          /\ msgs' = Append(msgs, [iface |-> i, state |-> s])
          /\ UNCHANGED <<blind, lost>>
       \/ Listening /\ Len(msgs) = QueueSize
          /\ lost' = lost \cup {i}
          /\ UNCHANGED <<msgs, blind>>
       \/ ~Listening
          /\ blind' = blind \cup {i}
          /\ UNCHANGED <<msgs, lost>>
    /\ UNCHANGED <<proc, bpf, known, xdp, tc, raced>>

\* nothing announces an address; one given to a link that is not up counts
\* for the announcement of its way up
AddressChange(i) ==
    /\ MayChange /\ changes' = changes + 1
    /\ link' = [link EXCEPT ![i].addr = ~@]
    /\ blind' = IF link[i].state = "up" THEN blind \cup {i} ELSE blind
    /\ UNCHANGED <<proc, bpf, msgs, known, xdp, tc, lost, raced>>

\* the first packet on an interface with XDP: init_gconfig_and_gmap
Packet(i) ==
    /\ i \in xdp /\ link[i].state = "up"
    /\ latched = "no" /\ latched' = config
    /\ UNCHANGED <<proc, config, env, known, hooks, hist>>

Gone == ~Alive /\ UNCHANGED vars

Next ==
    \/ Main
    \/ TakeSignal
    \/ TestRunning \/ PollReturns
    \/ Netlink
    \/ RaiseSignal
    \/ \E i \in Ifaces : \/ \E s \in LinkStates : LinkChange(i, s)
                         \/ AddressChange(i)
                         \/ Packet(i)
    \/ Gone

\* every thread is scheduled; nobody has to send a signal
Fairness ==
    /\ WF_vars(Main) /\ WF_vars(TakeSignal) /\ WF_vars(Netlink)
    /\ WF_vars(TestRunning \/ PollReturns)

Spec == Init /\ [][Next]_vars /\ Fairness

-----------------------------------------------------------------------------
(***************************************************************************)
(* Properties.                                                             *)
(***************************************************************************)
\* Every variable keeps its type.
TypeOK ==
    /\ main \in Startup \cup {"dashboard"} \cup Shutdown \cup {"exited"}
    /\ running \in BOOLEAN /\ stop \in BOOLEAN /\ again \in BOOLEAN /\ raced \in BOOLEAN
    /\ signal \in {"none", "pending", "taken"}
    /\ thread \in [Threads -> {"none", "test", "poll", "bind", "loop", "recv", "clean", "xdp", "tc", "ended"}]
    /\ owner \in [Threads -> {"none", "joinable", "detached"}]
    /\ rb \in {"null", "live", "freed"}
    /\ config \in {"zero", "loaded"} /\ latched \in {"no", "zero", "loaded"}
    /\ link \in [Ifaces -> [state : LinkStates, addr : BOOLEAN]]
    /\ msgs \in Seq([iface : Ifaces, state : LinkStates]) /\ Len(msgs) <= QueueSize
    /\ known \in [Ifaces -> {"unknown", "up", "down"}]
    /\ xdp \subseteq Ifaces /\ tc \subseteq Ifaces /\ blind \subseteq Ifaces /\ lost \subseteq Ifaces
    /\ changes \in 0..MaxChanges

\* The XDP program latches its limits from the first packet it sees
\* (xdp_fw.c:118-135); start-up attaches it only after the configuration map
\* was written, so what it latches is never the zero the map is created with.
LatchedLoaded == latched # "zero"

\* When the netlink thread has caught up with the socket, every interface
\* that is up and has an address carries the XDP program, unless it changed
\* unannounced since the last reload (before the socket was bound, or by an
\* address given to a link already up), or a message about it was ever lost:
\* the debounce state then is stale and a later way up is ignored, reloads
\* for other interfaces notwithstanding (main.cpp:561-736).
HotplugCovered ==
    thread["netlink"] \in {"loop", "recv"} /\ msgs = <<>> /\ main = "dashboard" =>
        \A i \in Ifaces \ (blind \cup lost) : link[i].state = "up" /\ link[i].addr => i \in xdp

\* After exit no interface carries a BPF program, whatever happened to its
\* address meanwhile, unless the detached netlink thread attached again after
\* the final sweep (main.cpp:530-550, 741-770).
HooksGone == main = "exited" /\ ~raced => xdp = {} /\ tc = {}


\* The poll thread is never inside ring_buffer__poll on a ring buffer that
\* was freed: "1. stop the threads safely first" (main.cpp:743).
NoUseAfterFree == thread["poll"] = "poll" => rb = "live"
=============================================================================
