-------------------------- MODULE LifecycleProofs --------------------------
(***************************************************************************)
(* Start-up attaches the XDP program only to a loaded configuration,       *)
(* shutdown leaves no hook behind, and no interface that came up before    *)
(* or after start-up is overlooked by the hot-plug thread: for every set   *)
(* of interfaces, every link and address change and every signal, at any   *)
(* time.                                                                   *)
(***************************************************************************)
EXTENDS Lifecycle, TLAPS

Booted == {"attach", "ring", "netlink", "dashboard"}

\* Nothing is attached, and nobody will attach anything, before the
\* configuration is in its map.
ConfigFirst ==
    /\ config \in {"zero", "loaded"} /\ latched # "zero"
    /\ main \in Booted => config = "loaded"
    /\ config = "zero" => xdp = {} /\ thread["netlink"] \in {"none", "ended"}
    /\ thread \in [Threads -> {"none", "test", "poll", "bind", "loop", "recv", "clean", "xdp", "tc", "ended"}]

LEMMA ConfigInit == Init => ConfigFirst
  <1> SUFFICES ASSUME Init PROVE ConfigFirst
    OBVIOUS
  <1>1. thread = [t \in Threads |-> "none"] /\ "netlink" \in Threads
    BY DEF Init, Threads
  <1> QED
    BY <1>1 DEF Init, ConfigFirst, Booted

LEMMA ConfigMain ==
    ASSUME ConfigFirst, Main PROVE ConfigFirst'
  <1> USE DEF ConfigFirst, Booted, At, Goto, bpf, hooks
  <1>0. "netlink" \in Threads /\ "poll" \in Threads /\ "ui" \in Threads
    BY DEF Threads
  <1>1. CASE LoadSkeleton
    BY <1>1 DEF LoadSkeleton
  <1>2. CASE Configure
    BY <1>2 DEF Configure
  <1>3. CASE AttachHooks
    BY <1>3 DEF AttachHooks
  <1>4. CASE StartThreads
    BY <1>0, <1>4 DEF StartThreads
  <1>5. CASE StartNetlink
    BY <1>0, <1>5 DEF StartNetlink
  <1>6. CASE LeaveDashboard \/ StopNetlink \/ ClearRunning \/ DetachThreads \/ FreeRing \/ StopExporter
    BY <1>6 DEF LeaveDashboard, StopNetlink, ClearRunning, DetachThreads, FreeRing, StopExporter
  <1>7. CASE DetachHooks \/ SweepHooks
    BY <1>7 DEF DetachHooks, SweepHooks, DetachInterfaces, ForceClean
  <1>8. CASE Exit
    BY <1>0, <1>8 DEF Exit
  <1> QED
    BY <1>1, <1>2, <1>3, <1>4, <1>5, <1>6, <1>7, <1>8 DEF Main

LEMMA ConfigNetlink ==
    ASSUME ConfigFirst, Netlink PROVE ConfigFirst'
  <1> USE DEF ConfigFirst, Booted, Move, bpf, hooks
  <1>0. "netlink" \in Threads
    BY DEF Threads
  <1>1. CASE BindSocket \/ TestStop \/ RecvTimeout
    BY <1>0, <1>1 DEF BindSocket, TestStop, RecvTimeout
  <1>2. CASE OnInterfaceChanged
    BY <1>0, <1>2 DEF OnInterfaceChanged
  <1>3. CASE ReloadClean \/ ReloadXdp \/ ReloadTc
    BY <1>0, <1>3 DEF ReloadClean, ReloadXdp, ReloadTc
  <1> QED
    BY <1>1, <1>2, <1>3 DEF Netlink

LEMMA ConfigNext == ConfigFirst /\ [Next]_vars => ConfigFirst'
  <1> SUFFICES ASSUME ConfigFirst, [Next]_vars PROVE ConfigFirst'
    OBVIOUS
  <1> USE DEF proc, bpf, hooks
  <1>1. CASE TakeSignal \/ RaiseSignal
    BY <1>1 DEF TakeSignal, RaiseSignal, ConfigFirst
  <1>2. CASE TestRunning \/ PollReturns
    BY <1>2 DEF TestRunning, PollReturns, Move, ConfigFirst, Threads
  <1>3. ASSUME NEW i \in Ifaces, NEW s \in LinkStates, LinkChange(i, s)
        PROVE  ConfigFirst'
    BY <1>3 DEF LinkChange, ConfigFirst
  <1>4. ASSUME NEW i \in Ifaces, AddressChange(i) PROVE ConfigFirst'
    BY <1>4 DEF AddressChange, ConfigFirst
  <1>5. ASSUME NEW i \in Ifaces, Packet(i) PROVE ConfigFirst'
    BY <1>5 DEF Packet, ConfigFirst
  <1>6. CASE UNCHANGED vars
    BY <1>6 DEF vars, ConfigFirst
  <1> QED
    BY ConfigMain, ConfigNetlink, <1>1, <1>2, <1>3, <1>4, <1>5, <1>6 DEF Next, Gone

----------------------------------------------------------------------------
\* Once the final sweep is over, hooks reappear only if the detached netlink
\* thread attached them.
SweptClean ==
    main \in {"free", "stop_exporter", "destroy", "exited"} => raced \/ (xdp = {} /\ tc = {})

LEMMA SweptInit == Init => SweptClean
  BY DEF Init, SweptClean

LEMMA SweptNext == SweptClean /\ [Next]_vars => SweptClean'
  <1> SUFFICES ASSUME SweptClean, [Next]_vars PROVE SweptClean'
    OBVIOUS
  <1> USE DEF SweptClean, proc, hooks, hist
  <1>1. CASE Main
    <2> USE DEF At, Goto
    <2>1. CASE LoadSkeleton \/ Configure \/ AttachHooks \/ StartThreads \/ StartNetlink
      BY <2>1 DEF LoadSkeleton, Configure, AttachHooks, StartThreads, StartNetlink
    <2>2. CASE LeaveDashboard \/ StopNetlink \/ ClearRunning \/ DetachThreads \/ DetachHooks
      BY <2>2 DEF LeaveDashboard, StopNetlink, ClearRunning, DetachThreads, DetachHooks
    <2>3. CASE SweepHooks
      BY <2>3 DEF SweepHooks, ForceClean
    <2>4. CASE FreeRing \/ StopExporter \/ Exit
      BY <2>4 DEF FreeRing, StopExporter, Exit
    <2> QED
      BY <1>1, <2>1, <2>2, <2>3, <2>4 DEF Main
  <1>2. CASE Netlink
    <2>1. CASE BindSocket \/ TestStop \/ RecvTimeout \/ OnInterfaceChanged
      BY <2>1 DEF BindSocket, TestStop, RecvTimeout, OnInterfaceChanged
    <2>2. CASE ReloadClean
      BY <2>2 DEF ReloadClean
    <2>3. CASE ReloadXdp \/ ReloadTc
      BY <2>3 DEF ReloadXdp, ReloadTc, Late, Alive
    <2> QED
      BY <1>2, <2>1, <2>2, <2>3 DEF Netlink
  <1>3. CASE TakeSignal \/ RaiseSignal \/ TestRunning \/ PollReturns
    BY <1>3 DEF TakeSignal, RaiseSignal, TestRunning, PollReturns
  <1>4. ASSUME NEW i \in Ifaces, NEW s \in LinkStates, LinkChange(i, s) PROVE SweptClean'
    BY <1>4 DEF LinkChange
  <1>5. ASSUME NEW i \in Ifaces, AddressChange(i) \/ Packet(i) PROVE SweptClean'
    BY <1>5 DEF AddressChange, Packet
  <1>6. CASE UNCHANGED vars
    BY <1>6 DEF vars
  <1> QED
    BY <1>1, <1>2, <1>3, <1>4, <1>5, <1>6 DEF Next, Gone

----------------------------------------------------------------------------
(***************************************************************************)
(* Hot-plug.  Of an interface no message of which was lost, the last       *)
(* message on its way, or else the debounce state, tells its link state,   *)
(* and every way up is announced after a way down.  So an interface that   *)
(* is up has the program, or a message on its way starts the reload that   *)
(* attaches it.                                                            *)
(***************************************************************************)
\* The messages m about interface i and the debounce state u agree with the
\* link state s: the last message tells it, or else u does.
Tells(m, u, s, i) ==
    /\ \A k \in 1..Len(m) :
          m[k].iface = i /\ (\A j \in 1..Len(m) : j > k => m[j].iface # i) => m[k].state = s
    /\ (\A k \in 1..Len(m) : m[k].iface # i) => u \in {"unknown", IsUp(s)}

\* a way up is never announced twice in a row
Alternates(m, u, i) ==
    \A k \in 1..Len(m) :
        m[k].iface = i /\ m[k].state = "up" =>
            /\ (\A j \in 1..Len(m) : j < k => m[j].iface # i) => u # "up"
            /\ \A j \in 1..Len(m) :
                  j < k /\ m[j].iface = i /\ (\A l \in 1..Len(m) : j < l /\ l < k => m[l].iface # i)
                      => m[j].state # "up"

\* a message on its way says that i is up
UpComing(m, i) == \E k \in 1..Len(m) : m[k].iface = i /\ m[k].state = "up"

\* the netlink thread has nothing to act on before its socket is bound
Fresh ==
    /\ main \in Startup => thread["netlink"] = "none"
    /\ thread["netlink"] \in {"none", "bind"} => msgs = <<>> /\ \A i \in Ifaces : known[i] = "unknown"

Announced ==
    Listening => \A i \in Ifaces : i \notin lost => Tells(msgs, known[i], link[i].state, i)

Alternating ==
    \A i \in Ifaces : i \notin lost => Alternates(msgs, known[i], i)

Scanned == main \in {"ring", "netlink", "dashboard"} /\ thread["netlink"] \notin {"clean", "xdp"}

Covered ==
    Scanned => \A i \in Ifaces :
        i \notin blind /\ i \notin lost /\ link[i].state = "up" /\ link[i].addr
            => i \in xdp \/ UpComing(msgs, i)

HotplugInv == TypeOK /\ Fresh /\ Announced /\ Alternating /\ Covered

Messages == [iface : Ifaces, state : LinkStates]

\* announcing a change of i to another state ...
LEMMA AppendSame ==
    ASSUME NEW i \in Ifaces, NEW m \in Seq(Messages), NEW u, NEW s \in LinkStates,
           NEW t \in LinkStates, s # t, Tells(m, u, s, i), Alternates(m, u, i)
    PROVE  LET n == Append(m, [iface |-> i, state |-> t])
           IN  Tells(n, u, t, i) /\ Alternates(n, u, i) /\ (t = "up" => UpComing(n, i))
  <1> DEFINE n == Append(m, [iface |-> i, state |-> t])
  <1>1. Len(n) = Len(m) + 1 /\ Len(m) \in Nat /\ n[Len(m) + 1] = [iface |-> i, state |-> t]
        /\ \A k \in 1..Len(m) : n[k] = m[k]
    BY DEF Messages
  <1>0. n[Len(n)].iface = i /\ n[Len(n)].state = t
    BY <1>1
  <1> HIDE DEF n
  <1>2. Tells(n, u, t, i)
    BY <1>0, <1>1 DEF Tells
  <1>3. Alternates(n, u, i)
    <2> SUFFICES ASSUME NEW k \in 1..Len(n), n[k].iface = i, n[k].state = "up"
                 PROVE  /\ (\A j \in 1..Len(n) : j < k => n[j].iface # i) => u # "up"
                        /\ \A j \in 1..Len(n) :
                              j < k /\ n[j].iface = i
                              /\ (\A l \in 1..Len(n) : j < l /\ l < k => n[l].iface # i)
                                  => n[j].state # "up"
      BY DEF Alternates
    <2>1. CASE k = Len(n)
      <3>1. s # "up"
        BY <2>1, <1>0
      <3>2. \A j \in 1..Len(m) : j \in 1..Len(n) /\ j < k
        BY <1>1, <2>1
      <3>3. \A j \in 1..Len(n) : j < k => j \in 1..Len(m)
        BY <1>1, <2>1
      <3>4. IsUp(s) # "up"
        BY <3>1 DEF IsUp
      <3> QED
        BY <1>1, <3>1, <3>2, <3>3, <3>4 DEF Tells
    <2>2. CASE k # Len(n)
      <3>1. k \in 1..Len(m)
        BY <1>1, <2>2
      <3>2. \A j \in 1..Len(m) : j \in 1..Len(n)
        BY <1>1
      <3>3. \A j \in 1..Len(n) : j < k => j \in 1..Len(m)
        BY <1>1, <2>2
      <3> QED
        BY <1>1, <3>1, <3>2, <3>3 DEF Alternates
    <2> QED
      BY <2>1, <2>2
  <1>4. t = "up" => UpComing(n, i)
    BY <1>0, <1>1 DEF UpComing
  <1> QED
    BY <1>2, <1>3, <1>4 DEF n

\* ... says nothing of another interface, and takes no message away
LEMMA AppendOther ==
    ASSUME NEW i \in Ifaces, NEW m \in Seq(Messages), NEW u, NEW s, NEW x \in Messages, x.iface # i
    PROVE  /\ Tells(m, u, s, i) => Tells(Append(m, x), u, s, i)
           /\ Alternates(m, u, i) => Alternates(Append(m, x), u, i)
           /\ UpComing(m, i) => UpComing(Append(m, x), i)
  <1> DEFINE n == Append(m, x)
  <1>1. Len(n) = Len(m) + 1 /\ Len(m) \in Nat /\ n[Len(m) + 1] = x /\ \A k \in 1..Len(m) : n[k] = m[k]
    OBVIOUS
  <1> HIDE DEF n
  <1>2. \A k \in 1..Len(n) : n[k].iface = i => k \in 1..Len(m)
    BY <1>1
  <1>3. \A k \in 1..Len(m) : k \in 1..Len(n)
    BY <1>1
  <1>4. Tells(m, u, s, i) => Tells(n, u, s, i)
    BY <1>1, <1>2, <1>3 DEF Tells
  <1>5. Alternates(m, u, i) => Alternates(n, u, i)
    BY <1>1, <1>2, <1>3 DEF Alternates
  <1>6. UpComing(m, i) => UpComing(n, i)
    BY <1>1, <1>2, <1>3 DEF UpComing
  <1> QED
    BY <1>4, <1>5, <1>6 DEF n

LEMMA TailIndex ==
    ASSUME NEW m \in Seq(Messages), m # <<>>
    PROVE  /\ Tail(m) \in Seq(Messages) /\ Head(m) = m[1] /\ Head(m) \in Messages
           /\ Len(m) \in Nat /\ 1 \in 1..Len(m) /\ Len(m) = Len(Tail(m)) + 1 /\ Len(Tail(m)) \in Nat
           /\ \A k \in 1..Len(Tail(m)) : Tail(m)[k] = m[k + 1] /\ k + 1 \in 1..Len(m)
           /\ \A k \in 1..Len(m) : k # 1 => k - 1 \in 1..Len(Tail(m)) /\ m[k] = Tail(m)[k - 1]
  OBVIOUS

\* what the netlink thread does with the first message: it becomes the
\* debounce state of its interface ...
LEMMA TailSame ==
    ASSUME NEW i \in Ifaces, NEW m \in Seq(Messages), m # <<>>, Head(m).iface = i, NEW u, NEW s,
           Alternates(m, u, i)
    PROVE  /\ Head(m).state = "up" => u # "up"
           /\ Tells(m, u, s, i) => Tells(Tail(m), IsUp(Head(m).state), s, i)
           /\ Alternates(Tail(m), IsUp(Head(m).state), i)
           /\ UpComing(m, i) => UpComing(Tail(m), i) \/ Head(m).state = "up"
  <1> DEFINE n == Tail(m)
             h == Head(m)
  <1>1. h = m[1] /\ Len(m) \in Nat /\ 1 \in 1..Len(m) /\ Len(m) = Len(n) + 1 /\ Len(n) \in Nat
    BY TailIndex
  <1>2. \A k \in 1..Len(n) : n[k] = m[k + 1] /\ k + 1 \in 1..Len(m)
    BY TailIndex
  <1>3. \A k \in 1..Len(m) : k # 1 => k - 1 \in 1..Len(n) /\ m[k] = n[k - 1]
    BY TailIndex
  <1>4. h.iface = i
    OBVIOUS
  <1> HIDE DEF n, h
  <1>5. h.state = "up" => u # "up"
    BY <1>1, <1>4 DEF Alternates
  <1>6. Tells(m, u, s, i) => Tells(n, IsUp(h.state), s, i)
    <2> SUFFICES ASSUME Tells(m, u, s, i) PROVE Tells(n, IsUp(h.state), s, i)
      OBVIOUS
    <2>1. ASSUME NEW k \in 1..Len(n), n[k].iface = i, \A j \in 1..Len(n) : j > k => n[j].iface # i
          PROVE  n[k].state = s
      <3>1. ASSUME NEW j \in 1..Len(m), j > k + 1 PROVE m[j].iface # i
        <4>1. j # 1 /\ j - 1 > k
          BY <1>1, <3>1
        <4> QED
          BY <1>3, <2>1, <4>1
      <3> QED
        BY <1>2, <2>1, <3>1 DEF Tells
    <2>2. ASSUME \A k \in 1..Len(n) : n[k].iface # i PROVE h.state = s
      <3>1. \A j \in 1..Len(m) : j > 1 => m[j].iface # i
        BY <1>1, <1>3, <2>2
      <3> QED
        BY <1>1, <1>4, <3>1 DEF Tells
    <2> QED
      BY <2>1, <2>2 DEF Tells
  <1>7. Alternates(n, IsUp(h.state), i)
    <2> SUFFICES ASSUME NEW k \in 1..Len(n), n[k].iface = i, n[k].state = "up"
                 PROVE  /\ (\A j \in 1..Len(n) : j < k => n[j].iface # i) => IsUp(h.state) # "up"
                        /\ \A j \in 1..Len(n) :
                              j < k /\ n[j].iface = i
                              /\ (\A l \in 1..Len(n) : j < l /\ l < k => n[l].iface # i)
                                  => n[j].state # "up"
      BY DEF Alternates
    <2>1. k + 1 \in 1..Len(m) /\ m[k + 1].iface = i /\ m[k + 1].state = "up"
      BY <1>2
    <2>2. ASSUME \A j \in 1..Len(n) : j < k => n[j].iface # i PROVE IsUp(h.state) # "up"
      <3>1. ASSUME NEW l \in 1..Len(m), 1 < l, l < k + 1 PROVE m[l].iface # i
        <4>1. l # 1 /\ l - 1 < k
          BY <1>1, <3>1
        <4> QED
          BY <1>3, <2>2, <4>1
      <3>2. m[1].state # "up"
        BY <1>1, <1>4, <2>1, <3>1 DEF Alternates
      <3> QED
        BY <1>1, <3>2 DEF IsUp
    <2>3. ASSUME NEW j \in 1..Len(n), j < k, n[j].iface = i,
                 \A l \in 1..Len(n) : j < l /\ l < k => n[l].iface # i
          PROVE  n[j].state # "up"
      <3>1. ASSUME NEW l \in 1..Len(m), j + 1 < l, l < k + 1 PROVE m[l].iface # i
        <4>1. l # 1 /\ j < l - 1 /\ l - 1 < k
          BY <1>1, <3>1
        <4> QED
          BY <1>3, <2>3, <4>1
      <3>2. j + 1 \in 1..Len(m) /\ j + 1 < k + 1 /\ m[j + 1].iface = i /\ m[j + 1] = n[j]
        BY <1>2, <2>3
      <3> QED
        BY <2>1, <3>1, <3>2 DEF Alternates
    <2> QED
      BY <2>2, <2>3
  <1>8. UpComing(m, i) => UpComing(n, i) \/ h.state = "up"
    BY <1>1, <1>3 DEF UpComing
  <1> QED
    BY <1>5, <1>6, <1>7, <1>8 DEF n, h

\* ... and changes nothing for the others
LEMMA TailOther ==
    ASSUME NEW i \in Ifaces, NEW m \in Seq(Messages), m # <<>>, Head(m).iface # i, NEW u, NEW s
    PROVE  /\ Tells(m, u, s, i) => Tells(Tail(m), u, s, i)
           /\ Alternates(m, u, i) => Alternates(Tail(m), u, i)
           /\ UpComing(m, i) => UpComing(Tail(m), i)
  <1> DEFINE n == Tail(m)
  <1>1. Len(m) \in Nat /\ 1 \in 1..Len(m) /\ Len(m) = Len(n) + 1 /\ Len(n) \in Nat /\ m[1].iface # i
    BY TailIndex
  <1>2. \A k \in 1..Len(n) : n[k] = m[k + 1] /\ k + 1 \in 1..Len(m)
    BY TailIndex
  <1>3. \A k \in 1..Len(m) : k # 1 => k - 1 \in 1..Len(n) /\ m[k] = n[k - 1]
    BY TailIndex
  <1> HIDE DEF n
  <1>4. Tells(m, u, s, i) => Tells(n, u, s, i)
    <2> SUFFICES ASSUME Tells(m, u, s, i) PROVE Tells(n, u, s, i)
      OBVIOUS
    <2>1. ASSUME NEW k \in 1..Len(n), n[k].iface = i, \A j \in 1..Len(n) : j > k => n[j].iface # i
          PROVE  n[k].state = s
      <3>1. ASSUME NEW j \in 1..Len(m), j > k + 1 PROVE m[j].iface # i
        <4>1. j # 1 /\ j - 1 > k
          BY <1>1, <3>1
        <4> QED
          BY <1>3, <2>1, <4>1
      <3> QED
        BY <1>2, <2>1, <3>1 DEF Tells
    <2>2. ASSUME \A k \in 1..Len(n) : n[k].iface # i PROVE u \in {"unknown", IsUp(s)}
      <3>1. \A j \in 1..Len(m) : m[j].iface # i
        BY <1>1, <1>3, <2>2
      <3> QED
        BY <3>1 DEF Tells
    <2> QED
      BY <2>1, <2>2 DEF Tells
  <1>5. Alternates(m, u, i) => Alternates(n, u, i)
    <2> SUFFICES ASSUME Alternates(m, u, i), NEW k \in 1..Len(n), n[k].iface = i, n[k].state = "up"
                 PROVE  /\ (\A j \in 1..Len(n) : j < k => n[j].iface # i) => u # "up"
                        /\ \A j \in 1..Len(n) :
                              j < k /\ n[j].iface = i
                              /\ (\A l \in 1..Len(n) : j < l /\ l < k => n[l].iface # i)
                                  => n[j].state # "up"
      BY DEF Alternates
    <2>1. k + 1 \in 1..Len(m) /\ m[k + 1].iface = i /\ m[k + 1].state = "up"
      BY <1>2
    <2>2. ASSUME \A j \in 1..Len(n) : j < k => n[j].iface # i PROVE u # "up"
      <3>1. ASSUME NEW l \in 1..Len(m), l < k + 1 PROVE m[l].iface # i
        <4>1. CASE l = 1
          BY <1>1, <4>1
        <4>2. CASE l # 1
          <5>1. l - 1 < k
            BY <1>1, <3>1
          <5> QED
            BY <1>3, <2>2, <4>2, <5>1
        <4> QED
          BY <4>1, <4>2
      <3> QED
        BY <2>1, <3>1 DEF Alternates
    <2>3. ASSUME NEW j \in 1..Len(n), j < k, n[j].iface = i,
                 \A l \in 1..Len(n) : j < l /\ l < k => n[l].iface # i
          PROVE  n[j].state # "up"
      <3>1. ASSUME NEW l \in 1..Len(m), j + 1 < l, l < k + 1 PROVE m[l].iface # i
        <4>1. l # 1 /\ j < l - 1 /\ l - 1 < k
          BY <1>1, <3>1
        <4> QED
          BY <1>3, <2>3, <4>1
      <3>2. j + 1 \in 1..Len(m) /\ j + 1 < k + 1 /\ m[j + 1].iface = i /\ m[j + 1] = n[j]
        BY <1>2, <2>3
      <3> QED
        BY <2>1, <3>1, <3>2 DEF Alternates
    <2> QED
      BY <2>2, <2>3
  <1>6. UpComing(m, i) => UpComing(n, i)
    BY <1>1, <1>3 DEF UpComing
  <1> QED
    BY <1>4, <1>5, <1>6 DEF n

\* TypeOK, action by action
LEMMA TypeInit == Init => TypeOK
  <1> SUFFICES ASSUME Init PROVE TypeOK
    OBVIOUS
  <1>1. /\ thread \in [Threads -> {"none", "test", "poll", "bind", "loop", "recv", "clean", "xdp", "tc", "ended"}]
        /\ owner \in [Threads -> {"none", "joinable", "detached"}]
        /\ known \in [Ifaces -> {"unknown", "up", "down"}]
    BY DEF Init
  <1>2. link \in [Ifaces -> [state : LinkStates, addr : BOOLEAN]]
    BY BootAssumption DEF Init
  <1>3. /\ msgs \in Seq([iface : Ifaces, state : LinkStates]) /\ Len(msgs) <= QueueSize
        /\ changes \in 0..MaxChanges
    BY QueueAssumption, ChangeAssumption DEF Init
  <1> QED
    BY <1>1, <1>2, <1>3 DEF Init, TypeOK, Startup

LEMMA TypeMain == ASSUME TypeOK, Main PROVE TypeOK'
  <1> USE DEF TypeOK, At, Goto, bpf, env, hooks, hist, Startup, Shutdown
  <1>0. Attachable \subseteq Ifaces
    BY DEF Attachable, WithAddress
  <1>1. CASE LoadSkeleton \/ LeaveDashboard \/ StopExporter
    BY <1>1 DEF LoadSkeleton, LeaveDashboard, StopExporter
  <1>2. CASE AttachHooks
    BY <1>0, <1>2 DEF AttachHooks
  <1>10. CASE Configure
    BY <1>10 DEF Configure
  <1>11. CASE ClearRunning
    BY <1>11 DEF ClearRunning
  <1>3. CASE StartThreads
    BY <1>3 DEF StartThreads, Threads
  <1>4. CASE StartNetlink
    BY <1>4 DEF StartNetlink, Threads
  <1>5. CASE StopNetlink
    <2>1. stop' \in BOOLEAN
      BY <1>5 DEF StopNetlink
    <2>2. owner' = owner \/ owner' = [owner EXCEPT !["netlink"] = "detached"]
      BY <1>5 DEF StopNetlink
    <2>3. owner' \in [Threads -> {"none", "joinable", "detached"}]
      BY <2>2
    <2> QED
      BY <1>5, <2>1, <2>3 DEF StopNetlink
  <1>6. CASE DetachThreads
    <2>1. Detached \in [Threads -> {"none", "joinable", "detached"}]
      BY DEF Detached
    <2>2. again' \in BOOLEAN
      BY <1>6 DEF DetachThreads
    <2> QED
      BY <1>6, <2>1, <2>2 DEF DetachThreads
  <1>7. CASE DetachHooks \/ SweepHooks
    BY <1>7 DEF DetachHooks, SweepHooks, DetachInterfaces, ForceClean
  <1>8. CASE FreeRing
    BY <1>8 DEF FreeRing
  <1>9. CASE Exit
    BY <1>9 DEF Exit
  <1> QED
    BY <1>1, <1>2, <1>3, <1>4, <1>5, <1>6, <1>7, <1>8, <1>9, <1>10, <1>11 DEF Main

LEMMA TypeNetlink == ASSUME TypeOK, Netlink PROVE TypeOK'
  <1> USE DEF TypeOK, Move, bpf, env, hooks, hist
  <1>0. Attachable \subseteq Ifaces /\ "netlink" \in Threads
    BY DEF Attachable, WithAddress, Threads
  <1>1. CASE BindSocket \/ TestStop \/ RecvTimeout
    BY <1>0, <1>1 DEF BindSocket, TestStop, RecvTimeout
  <1>2. CASE OnInterfaceChanged
    <2>1. msgs \in Seq(Messages) /\ msgs # <<>>
      BY <1>2 DEF OnInterfaceChanged, Messages
    <2>2. /\ Tail(msgs) \in Seq(Messages) /\ Head(msgs) \in Messages
          /\ Len(Tail(msgs)) <= QueueSize
      BY <2>1, TailIndex, QueueAssumption
    <2>3. /\ msgs' \in Seq([iface : Ifaces, state : LinkStates]) /\ Len(msgs') <= QueueSize
      BY <1>2, <2>2 DEF OnInterfaceChanged, Messages
    <2>4. known' \in [Ifaces -> {"unknown", "up", "down"}]
      BY <1>2 DEF OnInterfaceChanged, IsUp
    <2>5. /\ thread' \in [Threads -> {"none", "test", "poll", "bind", "loop", "recv", "clean", "xdp", "tc", "ended"}]
          /\ UNCHANGED <<main, running, signal, owner, stop, again, rb, config, latched, link, changes,
                          xdp, tc, blind, lost, raced>>
      BY <1>0, <1>2 DEF OnInterfaceChanged
    <2> QED
      BY <2>3, <2>4, <2>5
  <1>3. CASE ReloadClean
    BY <1>0, <1>3 DEF ReloadClean
  <1>4. CASE ReloadXdp
    <2>1. raced' \in BOOLEAN
      BY <1>4 DEF ReloadXdp, Late
    <2> QED
      BY <1>0, <1>4, <2>1 DEF ReloadXdp
  <1>5. CASE ReloadTc
    <2>1. raced' \in BOOLEAN
      BY <1>5 DEF ReloadTc, Late
    <2> QED
      BY <1>0, <1>5, <2>1 DEF ReloadTc
  <1> QED
    BY <1>1, <1>2, <1>3, <1>4, <1>5 DEF Netlink

LEMMA TypeNext == TypeOK /\ [Next]_vars => TypeOK'
  <1> SUFFICES ASSUME TypeOK, [Next]_vars PROVE TypeOK'
    OBVIOUS
  <1> USE DEF proc, bpf, env, hooks, hist
  <1>1. CASE TakeSignal \/ RaiseSignal
    <2>1. CASE TakeSignal
      BY <2>1 DEF TakeSignal, TypeOK
    <2>2. CASE RaiseSignal
      BY <2>2 DEF RaiseSignal, TypeOK
    <2> QED
      BY <1>1, <2>1, <2>2
  <1>2. CASE TestRunning \/ PollReturns
    BY <1>2 DEF TestRunning, PollReturns, Move, TypeOK, Threads
  <1>3. ASSUME NEW i \in Ifaces, NEW s \in LinkStates, LinkChange(i, s) PROVE TypeOK'
    <2>1. link' \in [Ifaces -> [state : LinkStates, addr : BOOLEAN]]
      BY <1>3 DEF LinkChange, TypeOK
    <2>2. msgs' \in Seq([iface : Ifaces, state : LinkStates]) /\ Len(msgs') <= QueueSize
      <3>1. CASE UNCHANGED msgs
        BY <3>1 DEF TypeOK
      <3>2. CASE Len(msgs) < QueueSize /\ msgs' = Append(msgs, [iface |-> i, state |-> s])
        <4>1. msgs \in Seq(Messages) /\ [iface |-> i, state |-> s] \in Messages
          BY DEF TypeOK, Messages
        <4>2. msgs' \in Seq(Messages) /\ Len(msgs') = Len(msgs) + 1 /\ Len(msgs) \in Nat
          BY <3>2, <4>1
        <4> QED
          BY <3>2, <4>2, QueueAssumption DEF Messages
      <3> QED
        BY <1>3, <3>1, <3>2 DEF LinkChange
    <2>3. changes' \in 0..MaxChanges
      BY <1>3, ChangeAssumption DEF LinkChange, MayChange, TypeOK
    <2>4. blind' \subseteq Ifaces /\ lost' \subseteq Ifaces
      BY <1>3 DEF LinkChange, TypeOK
    <2> QED
      BY <1>3, <2>1, <2>2, <2>3, <2>4 DEF LinkChange, TypeOK
  <1>4. ASSUME NEW i \in Ifaces, AddressChange(i) PROVE TypeOK'
    <2>1. link' \in [Ifaces -> [state : LinkStates, addr : BOOLEAN]]
      BY <1>4 DEF AddressChange, TypeOK
    <2>2. changes' \in 0..MaxChanges
      BY <1>4, ChangeAssumption DEF AddressChange, MayChange, TypeOK
    <2> QED
      BY <1>4, <2>1, <2>2 DEF AddressChange, TypeOK
  <1>5. ASSUME NEW i \in Ifaces, Packet(i) PROVE TypeOK'
    BY <1>5 DEF Packet, TypeOK
  <1>6. CASE UNCHANGED vars
    BY <1>6 DEF vars, TypeOK
  <1> QED
    BY TypeMain, TypeNetlink, <1>1, <1>2, <1>3, <1>4, <1>5, <1>6 DEF Next, Gone

\* the parts of the state the hot-plug invariant is about
watched == <<main, thread["netlink"], link, msgs, known, blind, lost, xdp>>

LEMMA HotplugInit == Init => HotplugInv
  <1> SUFFICES ASSUME Init PROVE HotplugInv
    OBVIOUS
  <1>1. thread["netlink"] = "none"
    BY DEF Init, Threads
  <1>2. msgs = <<>> /\ main = "skeleton" /\ \A i \in Ifaces : known[i] = "unknown"
    BY DEF Init
  <1>3. Fresh /\ Covered
    BY <1>1, <1>2 DEF Fresh, Covered, Scanned
  <1>4. Announced
    BY <1>1 DEF Announced, Listening
  <1>5. Alternating
    BY <1>2 DEF Alternating, Alternates
  <1> QED
    BY <1>3, <1>4, <1>5, TypeInit DEF HotplugInv

\* a step that leaves all of it alone
LEMMA HotplugStutter ==
    ASSUME HotplugInv, TypeOK', UNCHANGED watched PROVE HotplugInv'
  BY DEF HotplugInv, watched, Fresh, Announced, Alternating, Covered, Scanned, Listening

\* a step of main() after the first scan, or of the netlink thread, that
\* leaves links, messages and hooks alone
LEMMA HotplugMove ==
    ASSUME HotplugInv, TypeOK', UNCHANGED <<link, msgs, known, blind, lost, xdp>>,
           Fresh', Listening' => Listening, Scanned' => Scanned
    PROVE  HotplugInv'
  <1>1. Announced'
    BY DEF HotplugInv, Announced
  <1>2. Alternating'
    BY DEF HotplugInv, Alternating
  <1>3. Covered'
    BY DEF HotplugInv, Covered
  <1> QED
    BY <1>1, <1>2, <1>3 DEF HotplugInv

LEMMA HotplugMain == ASSUME HotplugInv, Main PROVE HotplugInv'
  <1> USE DEF At, Goto, bpf, env, hooks, hist
  <1>0. TypeOK' /\ "netlink" \in Threads /\ thread \in [Threads -> {"none", "test", "poll", "bind",
            "loop", "recv", "clean", "xdp", "tc", "ended"}]
    BY TypeMain DEF HotplugInv, TypeOK, Threads
  <1>1. CASE LoadSkeleton \/ Configure \/ LeaveDashboard \/ StopNetlink \/ ClearRunning \/ DetachThreads
             \/ FreeRing \/ StopExporter
    <2>1. UNCHANGED <<thread, link, msgs, known, blind, lost, xdp>>
      BY <1>1 DEF LoadSkeleton, Configure, LeaveDashboard, StopNetlink, ClearRunning, DetachThreads,
                  FreeRing, StopExporter
    <2>2. main' \notin {"ring", "netlink", "dashboard"} /\ (main' \in Startup => main \in Startup)
      BY <1>1 DEF LoadSkeleton, Configure, LeaveDashboard, StopNetlink, ClearRunning, DetachThreads,
                  FreeRing, StopExporter, Startup
    <2>3. Fresh' /\ Listening' = Listening /\ ~Scanned'
      BY <2>1, <2>2 DEF HotplugInv, Fresh, Listening, Scanned
    <2> QED
      BY <1>0, <2>1, <2>3, HotplugMove
  <1>2. CASE AttachHooks
    <2>1. UNCHANGED <<thread, link, msgs, known, lost>> /\ xdp' = Attachable
          /\ main \in Startup /\ main' \in Startup
      BY <1>2 DEF AttachHooks, Startup
    <2>2. Fresh' /\ Announced' /\ Alternating'
      BY <2>1 DEF HotplugInv, Fresh, Announced, Alternating, Listening
    <2>3. Covered'
      BY <2>1 DEF Covered, Attachable, WithAddress
    <2> QED
      BY <1>0, <2>2, <2>3 DEF HotplugInv
  <1>3. CASE StartThreads
    <2>1. thread'["netlink"] = thread["netlink"] /\ UNCHANGED <<link, msgs, known, blind, lost, xdp>>
          /\ main = "ring" /\ main' = "netlink"
      BY <1>0, <1>3 DEF StartThreads
    <2>2. Fresh' /\ (Listening' => Listening) /\ (Scanned' => Scanned)
      BY <2>1 DEF HotplugInv, Fresh, Listening, Scanned, Startup
    <2> QED
      BY <1>0, <2>1, <2>2, HotplugMove
  <1>4. CASE StartNetlink
    <2>1. thread'["netlink"] = "bind" /\ UNCHANGED <<link, msgs, known, blind, lost, xdp>>
          /\ main = "netlink" /\ main' = "dashboard"
      BY <1>0, <1>4 DEF StartNetlink
    <2>2. Fresh' /\ (Listening' => Listening) /\ (Scanned' => Scanned)
      BY <2>1 DEF HotplugInv, Fresh, Listening, Scanned, Startup
    <2> QED
      BY <1>0, <2>1, <2>2, HotplugMove
  <1>5. CASE DetachHooks \/ SweepHooks
    <2>1. UNCHANGED <<thread, link, msgs, known, blind, lost>> /\ main' \in {"sweep", "free"}
      BY <1>5 DEF DetachHooks, SweepHooks
    <2>2. Fresh' /\ Announced' /\ Alternating' /\ Covered'
      BY <2>1 DEF HotplugInv, Fresh, Announced, Alternating, Covered, Scanned, Listening, Startup
    <2> QED
      BY <1>0, <2>2 DEF HotplugInv
  <1>6. CASE Exit
    <2>1. UNCHANGED <<link, msgs, known, blind, lost, xdp>> /\ main' = "exited"
          /\ thread'["netlink"] \in {"none", "ended"}
          /\ (thread'["netlink"] = "none" => thread["netlink"] = "none")
      BY <1>0, <1>6 DEF Exit
    <2>2. Fresh' /\ (Listening' => Listening) /\ (Scanned' => Scanned)
      BY <2>1 DEF HotplugInv, Fresh, Listening, Scanned, Startup
    <2> QED
      BY <1>0, <2>1, <2>2, HotplugMove
  <1> QED
    BY <1>1, <1>2, <1>3, <1>4, <1>5, <1>6 DEF Main

LEMMA HotplugNetlink == ASSUME HotplugInv, Netlink PROVE HotplugInv'
  <1> USE DEF Move, bpf, env, hooks, hist
  <1>0. TypeOK' /\ "netlink" \in Threads /\ thread \in [Threads -> {"none", "test", "poll", "bind",
            "loop", "recv", "clean", "xdp", "tc", "ended"}]
    BY TypeNetlink DEF HotplugInv, TypeOK, Threads
  <1>1. CASE BindSocket
    <2>1. UNCHANGED <<main, link, msgs, known, blind, lost, xdp>>
          /\ thread["netlink"] = "bind" /\ thread'["netlink"] = "loop"
      BY <1>0, <1>1 DEF BindSocket
    <2>2. msgs = <<>> /\ (\A i \in Ifaces : known[i] = "unknown") /\ main \notin Startup
      BY <2>1 DEF HotplugInv, Fresh
    <2>3. Fresh' /\ Alternating' /\ Covered'
      BY <2>1, <2>2 DEF HotplugInv, Fresh, Alternating, Covered, Scanned
    <2>4. Announced'
      BY <2>1, <2>2 DEF Announced, Tells
    <2> QED
      BY <1>0, <2>3, <2>4 DEF HotplugInv
  <1>2. CASE TestStop \/ RecvTimeout \/ ReloadTc
    <2>1. UNCHANGED <<main, link, msgs, known, blind, lost, xdp>>
          /\ thread["netlink"] \in {"loop", "recv", "tc"} /\ thread'["netlink"] \in {"loop", "recv", "ended"}
      BY <1>0, <1>2 DEF TestStop, RecvTimeout, ReloadTc
    <2>2. Fresh' /\ (Listening' => Listening) /\ (Scanned' => Scanned)
      BY <2>1 DEF HotplugInv, Fresh, Listening, Scanned
    <2> QED
      BY <1>0, <2>1, <2>2, HotplugMove
  <1>3. CASE OnInterfaceChanged
    <2> DEFINE m == Head(msgs)
    <2>1. msgs \in Seq(Messages) /\ msgs # <<>> /\ m \in Messages
      BY <1>3, TailIndex DEF OnInterfaceChanged, HotplugInv, TypeOK, Messages
    <2>2. UNCHANGED <<main, link, blind, lost, xdp>> /\ msgs' = Tail(msgs) /\ thread["netlink"] = "recv"
          /\ thread'["netlink"] \in {"clean", "loop"}
      BY <1>0, <1>3 DEF OnInterfaceChanged
    <2>3. known' = [known EXCEPT ![m.iface] = IsUp(m.state)] /\ known \in [Ifaces -> {"unknown", "up", "down"}]
      BY <1>3 DEF OnInterfaceChanged, HotplugInv, TypeOK
    <2>4. m.state = "up" /\ known[m.iface] # "up" => thread'["netlink"] = "clean"
      BY <1>0, <1>3 DEF OnInterfaceChanged, IsUp
    <2>5. m.iface \in Ifaces
      BY <2>1 DEF Messages
    <2> HIDE DEF m
    <2>6. Fresh'
      BY <2>2 DEF HotplugInv, Fresh
    <2>7. ASSUME NEW i \in Ifaces, i \notin lost
          PROVE  /\ Tells(msgs, known[i], link[i].state, i) => Tells(msgs', known'[i], link'[i].state, i)
                 /\ Alternates(msgs', known'[i], i)
                 /\ UpComing(msgs, i) /\ thread'["netlink"] # "clean" => UpComing(msgs', i)
      <3>1. Alternates(msgs, known[i], i)
        BY <2>7 DEF HotplugInv, Alternating
      <3>2. CASE m.iface = i
        <4>1. known'[i] = IsUp(m.state)
          BY <2>3, <3>2
        <4>2. msgs \in Seq(Messages) /\ msgs # <<>> /\ Head(msgs).iface = i
          BY <2>1, <3>2 DEF m
        <4>3. /\ Head(msgs).state = "up" => known[i] # "up"
              /\ Tells(msgs, known[i], link[i].state, i) => Tells(Tail(msgs), IsUp(Head(msgs).state), link[i].state, i)
              /\ Alternates(Tail(msgs), IsUp(Head(msgs).state), i)
              /\ UpComing(msgs, i) => UpComing(Tail(msgs), i) \/ Head(msgs).state = "up"
          BY <2>7, <3>1, <4>2, TailSame, Zenon
        <4> QED
          BY <2>2, <2>4, <3>2, <4>1, <4>3 DEF m
      <3>3. CASE m.iface # i
        <4>1. known'[i] = known[i]
          BY <2>3, <3>3
        <4> QED
          BY <2>1, <2>2, <3>1, <3>3, <4>1, TailOther DEF m
      <3> QED
        BY <3>2, <3>3
    <2>8. Announced'
      BY <2>2, <2>7 DEF HotplugInv, Announced, Listening
    <2>9. Alternating'
      BY <2>2, <2>7 DEF Alternating
    <2>10. Covered'
      BY <2>2, <2>7 DEF HotplugInv, Covered, Scanned
    <2> QED
      BY <1>0, <2>6, <2>8, <2>9, <2>10 DEF HotplugInv
  <1>4. CASE ReloadClean
    <2>1. UNCHANGED <<main, link, msgs, known, blind, lost>> /\ thread["netlink"] = "clean"
          /\ thread'["netlink"] = "xdp"
      BY <1>0, <1>4 DEF ReloadClean
    <2>2. Fresh' /\ Announced' /\ Alternating' /\ Covered'
      BY <2>1 DEF HotplugInv, Fresh, Announced, Alternating, Covered, Scanned, Listening
    <2> QED
      BY <1>0, <2>2 DEF HotplugInv
  <1>5. CASE ReloadXdp
    <2>1. UNCHANGED <<main, link, msgs, known, lost>> /\ thread["netlink"] = "xdp"
          /\ thread'["netlink"] = "tc" /\ xdp' = xdp \cup Attachable
      BY <1>0, <1>5 DEF ReloadXdp
    <2>2. Fresh' /\ Announced' /\ Alternating'
      BY <2>1 DEF HotplugInv, Fresh, Announced, Alternating, Listening
    <2>3. Covered'
      BY <2>1 DEF Covered, Attachable, WithAddress
    <2> QED
      BY <1>0, <2>2, <2>3 DEF HotplugInv
  <1> QED
    BY <1>1, <1>2, <1>3, <1>4, <1>5 DEF Netlink

LEMMA HotplugLink ==
    ASSUME HotplugInv, TypeOK', NEW i \in Ifaces, NEW s \in LinkStates, LinkChange(i, s)
    PROVE  HotplugInv'
  <1>1. /\ UNCHANGED <<main, thread, known, xdp>> /\ link[i].state # s /\ link' = [link EXCEPT ![i].state = s]
        /\ link \in [Ifaces -> [state : LinkStates, addr : BOOLEAN]]
        /\ main \in {"attach", "ring", "netlink"} => main \in Startup
        /\ msgs \in Seq(Messages)
    BY DEF LinkChange, proc, HotplugInv, TypeOK, Startup, Messages
  <1>2. /\ link'[i].state = s /\ link'[i].addr = link[i].addr
        /\ \A j \in Ifaces : j # i => link'[j] = link[j]
    BY <1>1
  <1>3. CASE Listening /\ Len(msgs) < QueueSize /\ msgs' = Append(msgs, [iface |-> i, state |-> s])
             /\ UNCHANGED <<blind, lost>>
    <2>1. Fresh'
      BY <1>1, <1>3 DEF HotplugInv, Fresh, Listening
    <2>2. ASSUME NEW j \in Ifaces, j \notin lost
          PROVE  /\ Tells(msgs', known'[j], link'[j].state, j)
                 /\ Alternates(msgs', known'[j], j)
                 /\ link'[j].state = "up" => (link[j].state = "up" /\ (UpComing(msgs, j) => UpComing(msgs', j)))
                                               \/ UpComing(msgs', j)
      <3>1. Tells(msgs, known[j], link[j].state, j) /\ Alternates(msgs, known[j], j)
        BY <1>3, <2>2 DEF HotplugInv, Announced, Alternating
      <3>2. CASE j = i
        <4>1. link[i].state \in LinkStates
          BY <1>1
        <4> QED
          BY <1>1, <1>2, <1>3, <3>1, <3>2, <4>1, AppendSame
      <3>3. CASE j # i
        <4>1. [iface |-> i, state |-> s] \in Messages /\ [iface |-> i, state |-> s].iface # j
          BY <3>3 DEF Messages
        <4> QED
          BY <1>1, <1>2, <1>3, <3>1, <3>3, <4>1, AppendOther
      <3> QED
        BY <3>2, <3>3
    <2>3. Announced' /\ Alternating'
      BY <1>3, <2>2 DEF Announced, Alternating
    <2>4. Covered'
      BY <1>1, <1>2, <1>3, <2>2 DEF HotplugInv, Covered, Scanned
    <2> QED
      BY <2>1, <2>3, <2>4 DEF HotplugInv
  <1>4. CASE Listening /\ lost' = lost \cup {i} /\ UNCHANGED <<msgs, blind>>
    <2>1. Fresh'
      BY <1>1, <1>4 DEF HotplugInv, Fresh, Listening
    <2>2. Announced' /\ Alternating'
      BY <1>1, <1>2, <1>4 DEF HotplugInv, Announced, Alternating
    <2>3. Covered'
      BY <1>1, <1>2, <1>4 DEF HotplugInv, Covered, Scanned
    <2> QED
      BY <2>1, <2>2, <2>3 DEF HotplugInv
  <1>5. CASE ~Listening /\ blind' = blind \cup {i} /\ UNCHANGED <<msgs, lost>>
    <2>1. Fresh'
      BY <1>1, <1>5 DEF HotplugInv, Fresh
    <2>2. Announced' /\ Alternating'
      BY <1>1, <1>5 DEF HotplugInv, Announced, Alternating, Listening
    <2>3. Covered'
      BY <1>1, <1>2, <1>5 DEF HotplugInv, Covered, Scanned
    <2> QED
      BY <2>1, <2>2, <2>3 DEF HotplugInv
  <1> QED
    BY <1>3, <1>4, <1>5 DEF LinkChange

LEMMA HotplugAddress ==
    ASSUME HotplugInv, TypeOK', NEW i \in Ifaces, AddressChange(i) PROVE HotplugInv'
  <1>1. /\ UNCHANGED <<main, thread, known, xdp, msgs, lost>> /\ link' = [link EXCEPT ![i].addr = ~@]
        /\ blind' = IF link[i].state = "up" THEN blind \cup {i} ELSE blind
        /\ link \in [Ifaces -> [state : LinkStates, addr : BOOLEAN]]
    BY DEF AddressChange, proc, HotplugInv, TypeOK
  <1>2. /\ \A j \in Ifaces : link'[j].state = link[j].state
        /\ \A j \in Ifaces : j # i => link'[j] = link[j]
    BY <1>1
  <1>3. Fresh' /\ Announced' /\ Alternating'
    BY <1>1, <1>2 DEF HotplugInv, Fresh, Announced, Alternating, Listening
  <1>4. Covered'
    BY <1>1, <1>2 DEF HotplugInv, Covered, Scanned
  <1> QED
    BY <1>3, <1>4 DEF HotplugInv

LEMMA HotplugNext == HotplugInv /\ [Next]_vars => HotplugInv'
  <1> SUFFICES ASSUME HotplugInv, [Next]_vars PROVE HotplugInv'
    OBVIOUS
  <1>0. TypeOK'
    BY TypeNext DEF HotplugInv
  <1> USE DEF proc, bpf, env, hooks, hist
  <1>1. CASE TakeSignal \/ RaiseSignal
    BY <1>0, <1>1, HotplugStutter DEF TakeSignal, RaiseSignal, watched
  <1>2. CASE TestRunning \/ PollReturns
    <2>1. thread \in [Threads -> {"none", "test", "poll", "bind", "loop", "recv", "clean", "xdp", "tc", "ended"}]
      BY DEF HotplugInv, TypeOK
    <2>2. UNCHANGED watched
      BY <1>2, <2>1 DEF TestRunning, PollReturns, Move, watched, Threads
    <2> QED
      BY <1>0, <2>2, HotplugStutter
  <1>3. ASSUME NEW i \in Ifaces, Packet(i) PROVE HotplugInv'
    BY <1>0, <1>3, HotplugStutter DEF Packet, watched
  <1>4. CASE UNCHANGED vars
    BY <1>0, <1>4, HotplugStutter DEF vars, watched
  <1> QED
    BY <1>0, <1>1, <1>2, <1>3, <1>4, HotplugMain, HotplugNetlink, HotplugLink, HotplugAddress DEF Next, Gone

----------------------------------------------------------------------------
\* Every variable of the process and of the kernel it sees keeps its type.
THEOREM TypeCorrect == Spec => []TypeOK
  BY TypeInit, TypeNext, PTL DEF Spec

\* The XDP program never latches the zero configuration (xdp_fw.c:118-135).
THEOREM ConfigurationFirst == Spec => []LatchedLoaded
  <1>1. ConfigFirst => LatchedLoaded
    BY DEF ConfigFirst, LatchedLoaded
  <1> QED
    BY <1>1, ConfigInit, ConfigNext, PTL DEF Spec

\* No BPF program outlives the process unless the detached netlink thread
\* attached it again after the final sweep (main.cpp:741-770).
THEOREM NoHookLeft == Spec => []HooksGone
  <1>1. SweptClean => HooksGone
    BY DEF SweptClean, HooksGone
  <1> QED
    BY <1>1, SweptInit, SweptNext, PTL DEF Spec

\* Whatever links go up and down while the netlink thread works, once it has
\* caught up every interface that is up and has an address carries the XDP
\* program, but for the ones that changed unannounced or of which a message
\* was lost (main.cpp:561-736).
THEOREM HotplugHolds == Spec => []HotplugCovered
  <1>1. HotplugInv => HotplugCovered
    BY DEF HotplugInv, HotplugCovered, Covered, Scanned, UpComing
  <1> QED
    BY <1>1, HotplugInit, HotplugNext, PTL DEF Spec
============================================================================
