--------------------------- MODULE ExporterProofs ----------------------------
(***************************************************************************)
(* The metrics path, for any number of keys, clients, faults and signals   *)
(* and any size of the socket buffer: stop() never leaves the UDS thread   *)
(* waiting in accept, the reader never loses the message boundaries, a     *)
(* file event is counted once, and a gauge shows one whole snapshot.       *)
(***************************************************************************)
EXTENDS Exporter, SequenceTheorems, SumTheorems

\* from the publication of the descriptor to the end of the inner loop
Published == {"test", "accept", "round", "iterate", "head", "body", "hangup", "close"}

(***************************************************************************)
(* The property is not inductive: that the socket is shut down when stop() *)
(* waits follows from what stop() loaded one step earlier, and that from   *)
(* the descriptor being published whenever the thread is in accept.        *)
(***************************************************************************)
StartOrder ==
    /\ go = "start" => process = "none"
    /\ process = "none" => uds = "none"

Descriptor ==
    /\ uds \in Published => fd
    /\ Up /\ uds \in Published => lsn \in {"open", "shut"}
    /\ Up /\ uds = "publish" => lsn \in {"open", "shut"}

Stopped ==
    /\ stopper # "idle" => ~running
    /\ stopper = "shutdown" /\ uds = "accept" => loaded

StopInv == StartOrder /\ Descriptor /\ Stopped /\ NoStuckAccept

LEMMA StopInvInit == Init => StopInv
  BY DEF Init, SocketInit, ServiceInit, GoInit, StopInv, StartOrder, Descriptor, Stopped,
         NoStuckAccept, Published, Up

\* what StopInv looks at
Watched == <<process, lsn, go, running, stopper, loaded, uds, fd>>

LEMMA StopInvWatched == StopInv /\ UNCHANGED Watched => StopInv'
  BY DEF Watched, StopInv, StartOrder, Descriptor, Stopped, NoStuckAccept, Up, Published

\* The UDS thread on its way to accept and back.
LEMMA UdsKeeps == ASSUME StopInv, UdsThread, UNCHANGED govars PROVE StopInv'
<1> USE DEF StopInv, StartOrder, Descriptor, Stopped, NoStuckAccept, Published, Up, Uds,
            kernel, stopping, govars
<1>1. CASE StartUds BY <1>1 DEF StartUds
<1>2. CASE CreateSocket BY <1>2 DEF CreateSocket
<1>3. CASE PublishFd BY <1>3 DEF PublishFd
<1>4. CASE TestRunning BY <1>4 DEF TestRunning
<1>5. CASE AcceptClient BY <1>5 DEF AcceptClient, Accept
<1>6. CASE AcceptFails BY <1>6 DEF AcceptFails
<1>7. CASE CloseServer BY <1>7 DEF CloseServer, CloseListener
<1>8. CASE ForgetFd BY <1>8 DEF ForgetFd
<1>9. CASE Round BY <1>9 DEF Round
<1>10. CASE \E k \in Keys : Visit(k) BY <1>10 DEF Visit
<1>11. CASE IterationOver BY <1>11 DEF IterationOver
<1>12. CASE SendHead BY <1>12 DEF SendHead, Sent
<1>13. CASE SendBody BY <1>13 DEF SendBody, Sent
<1>14. CASE SendFailed BY <1>14 DEF SendFailed
<1>15. CASE CloseClient BY <1>15 DEF CloseClient, HangUp
<1> QED
  BY <1>1, <1>2, <1>3, <1>4, <1>5, <1>6, <1>7, <1>8, <1>9, <1>10, <1>11, <1>12, <1>13,
     <1>14, <1>15 DEF UdsThread

\* stop() itself, and the end of the process.
LEMMA StopperKeeps == ASSUME StopInv, Stopper \/ Crash, UNCHANGED govars PROVE StopInv'
<1> USE DEF StopInv, StartOrder, Descriptor, Stopped, NoStuckAccept, Published, Up,
            kernel, stopping, cpp, govars
<1>1. CASE StopClear BY <1>1 DEF StopClear
<1>2. CASE StopLoadFd BY <1>2 DEF StopLoadFd
<1>3. CASE StopShutdown BY <1>3 DEF StopShutdown
<1>4. CASE StopJoin BY <1>4 DEF StopJoin, Die, CloseListener
<1>5. CASE Crash BY <1>5 DEF Crash, Die, CloseListener
<1> QED BY <1>1, <1>2, <1>3, <1>4, <1>5 DEF Stopper

\* The writers of the maps touch nothing of it.
LEMMA WritersKeep ==
    ASSUME StopInv, UNCHANGED govars,
           (\E k \in RiskKeys : RiskUpdate(k)) \/ (\E k \in FileKeys : KsmEvent(k)) \/ KsmReadFails
    PROVE  StopInv'
<1>1. UNCHANGED Watched
  BY DEF RiskUpdate, KsmEvent, KsmReadFails, Watched, kernel, stopping, govars
<1> QED BY <1>1, StopInvWatched

\* Go starts xdp_fw once, and can kill it.
LEMMA GoKeeps == ASSUME StopInv, GoProcess, UNCHANGED cpp PROVE StopInv'
<1> USE DEF StopInv, StartOrder, Descriptor, Stopped, NoStuckAccept, Published, Up, Go,
            kernel, stopping, cpp, govars
<1>1. CASE StartProcess BY <1>1 DEF StartProcess
<1>2. CASE DialFirst BY <1>2 DEF DialFirst, Connect
<1>3. CASE DialFatal BY <1>3 DEF DialFatal
<1>4. CASE TestContext BY <1>4 DEF TestContext
<1>5. CASE ReadHeader BY <1>5 DEF ReadHeader, Reading, Consume
<1>6. CASE ReadRisk BY <1>6 DEF ReadRisk, Reading, Consume
<1>7. CASE \E d \in Domains : SetGauge(d) BY <1>7 DEF SetGauge
<1>8. CASE ReadFile BY <1>8 DEF ReadFile, Reading, Consume
<1>9. CASE ReadFails BY <1>9 DEF ReadFails
<1>10. CASE CloseBroken BY <1>10 DEF CloseBroken, Disconnect, CutOff
<1>11. CASE Redial BY <1>11 DEF Redial, Connect
<1>12. CASE Finish BY <1>12 DEF Finish, Disconnect, CutOff
<1>13. CASE SendTerm BY <1>13 DEF SendTerm, Handler
<1>14. CASE SendKill BY <1>14 DEF SendKill, Handler, Die, CloseListener
<1>15. CASE CloseConn BY <1>15 DEF CloseConn, Handler, Disconnect, CutOff
<1>16. CASE Cancel BY <1>16 DEF Cancel, Handler
<1>17. CASE RaiseSignal BY <1>17 DEF RaiseSignal
<1>18. CASE ServeFatal BY <1>18 DEF ServeFatal, CutOff
<1> QED
  BY <1>1, <1>2, <1>3, <1>4, <1>5, <1>6, <1>7, <1>8, <1>9, <1>10, <1>11, <1>12, <1>13,
     <1>14, <1>15, <1>16, <1>17, <1>18 DEF GoProcess, GoMain, GoHandler

\* NoStuckAccept for every instance: stop(), which clears running and only
\* then loads uds_server_fd, and the UDS thread, which publishes the descriptor
\* and only then tests running, never miss each other
\* (ExporterService.hpp:413-418, 565-573).
THEOREM AcceptIsWoken == Spec => []NoStuckAccept
<1>1. Init => StopInv BY StopInvInit
<1>2. StopInv /\ [Next]_vars => StopInv'
  <2>1. ASSUME StopInv, Cpp, UNCHANGED govars PROVE StopInv'
    BY <2>1, UdsKeeps, StopperKeeps, WritersKeep DEF Cpp
  <2>2. ASSUME StopInv, GoProcess, UNCHANGED cpp PROVE StopInv'
    BY <2>2, GoKeeps
  <2>3. ASSUME StopInv, UNCHANGED vars PROVE StopInv'
    BY <2>3, StopInvWatched DEF vars, kernel, cpp, stopping, govars, Watched
  <2> QED BY <2>1, <2>2, <2>3 DEF Next, GoEnded
<1>3. StopInv => NoStuckAccept BY DEF StopInv
<1> QED BY <1>1, <1>2, <1>3, PTL DEF Spec
-----------------------------------------------------------------------------
(***************************************************************************)
(* The stream.  A header at place i of the stream s announces n bodies of  *)
(* its type; place 0 stands for the header Go has read last, with the      *)
(* bodies it still expects.  While xdp_fw serves the connection (live) the *)
(* last batch lacks exactly the bodies in rest, which are still to be      *)
(* sent, of type bt; a batch may stay incomplete only when nothing more    *)
(* can be sent.                                                            *)
(***************************************************************************)
IsSeq(s) == s \in Seq(Range(s))

Framed(s, i, n, t, live, rest, bt) ==
    /\ \A j \in (i + 1)..(i + n) : j <= Len(s) => s[j].kind = "body" /\ s[j].type = t
    /\ i + n < Len(s) => s[i + n + 1].kind = "head"
    /\ live /\ i + n >= Len(s) => i + n = Len(s) + Len(rest) /\ (rest # <<>> => bt = t)

\* the header after that batch, sent or next to be sent, has type t
Follows(s, i, n, t, live, next) ==
    /\ i + n < Len(s) => s[i + n + 1].type = t
    /\ live /\ i + n >= Len(s) => next = t

\* no two bodies of that batch have the same key
Apart(s, i, n, live, rest) ==
    /\ \A j, k \in (i + 1)..(i + n) :
          j <= Len(s) /\ k <= Len(s) /\ s[j].key = s[k].key => j = k
    /\ live /\ i + n > Len(s) =>
          \A j \in (i + 1)..Len(s), k \in 1..Len(rest) : s[j].key # rest[k].key

Distinct(bodies) == \A j, k \in 1..Len(bodies) : bodies[j].key = bodies[k].key => j = k

\* no body still to be read has the key k
Absent(s, n, live, rest, k) ==
    /\ \A j \in 1..n : j <= Len(s) => s[j].key # k
    /\ live /\ n > Len(s) => \A j \in 1..Len(rest) : rest[j].key # k

Other(t) == IF t = 1 THEN 2 ELSE 1

Live   == client = "live" /\ uds \in {"round", "iterate", "head", "body"}
Unsent == IF uds = "body" THEN batch.bodies ELSE <<>>

\* the type of the next header
Coming == IF uds = "round" THEN 1
          ELSE IF uds = "body" THEN Other(batch.type) ELSE batch.type

IsBatch(b) ==
    /\ b = [type |-> b.type, visits |-> b.visits, must |-> b.must, bodies |-> b.bodies,
            moved |-> b.moved, floor |-> b.floor]
    /\ b.visits \in [Keys -> Nat] /\ b.moved \in BOOLEAN
    /\ IsSeq(b.bodies)

StreamTypes ==
    /\ IsSeq(stream) /\ left \in Nat
    /\ files \in [FileKeys \X (1..MaxCount) -> Nat]
    /\ DOMAIN origin = {"floor", "moved"} /\ 2 \in DOMAIN origin.moved
    /\ IsBatch(batch)

Connected ==
    /\ conn # "served" => stream = <<>> /\ client # "live"
    /\ conn = "queued" => left = 0
    /\ go \in {"start", "dial", "redial"} => conn = "closed"
    /\ go = "body" <=> left > 0

\* the snapshot being taken or sent
Snapshot ==
    uds \in {"iterate", "head", "body"} =>
        /\ batch.type \in {1, 2}
        /\ uds = "body" => batch.bodies # <<>>
        /\ ~batch.moved => Distinct(batch.bodies)
        /\ uds = "iterate" => \A j \in 1..Len(batch.bodies) : batch.visits[batch.bodies[j].key] > 0

\* what is sent and not yet read
OnTheWay ==
    \A i \in 1..Len(stream) : stream[i].kind = "head" =>
        LET h == stream[i] IN
        /\ h.n \in Nat /\ h.type \in {1, 2}
        /\ Framed(stream, i, h.n, h.type, Live, Unsent, batch.type)
        /\ Follows(stream, i, h.n, Other(h.type), Live, Coming)
        /\ ~h.moved => Apart(stream, i, h.n, Live, Unsent)
        /\ Live /\ i + h.n > Len(stream) => h.moved = batch.moved

\* what Go expects
Expected ==
    go # "broken" =>
        /\ Framed(stream, 0, left, type, Live, Unsent, batch.type)
        /\ left > 0 => type \in {1, 2} /\ (type = 1 => files = NoEvents)
        /\ files # NoEvents \/ (left > 0 /\ type = 2) =>
              Follows(stream, 0, left, 1, Live, Coming)

\* the file events still to be read are not counted yet
Uncounted ==
    go # "broken" /\ left > 0 /\ type = 2 /\ ~origin.moved[2] =>
        /\ Apart(stream, 0, left, Live, Unsent)
        /\ Live /\ left > Len(stream) => ~batch.moved
        /\ \A l \in DOMAIN files : files[l] > 0 => Absent(stream, left, Live, Unsent, l[1])

StreamInv == StreamTypes /\ Connected /\ Snapshot /\ OnTheWay /\ Expected /\ Uncounted /\ FileEventsOnce

\* Sequences whose elements have no common type: messages of either kind, and
\* headers whose history is a sum.
LEMMA SeqOf == ASSUME NEW T, NEW s \in Seq(T) PROVE IsSeq(s)
<1>1. s \in [1..Len(s) -> T] /\ Len(s) \in Nat
  OBVIOUS
<1>2. s \in [1..Len(s) -> Range(s)]
  BY <1>1 DEF Range
<1> QED BY <1>1, <1>2, IsASeq DEF IsSeq

LEMMA SeqBasics ==
    ASSUME NEW s, IsSeq(s)
    PROVE  /\ Len(s) \in Nat
           /\ s = <<>> <=> Len(s) = 0
BY DEF IsSeq

LEMMA SeqEmpty == IsSeq(<<>>) /\ Len(<<>>) = 0
<1>1. <<>> \in Seq({})
  OBVIOUS
<1> QED BY <1>1, SeqOf

LEMMA SeqAppend ==
    ASSUME NEW s, IsSeq(s), NEW e
    PROVE  /\ IsSeq(Append(s, e)) /\ Len(Append(s, e)) = Len(s) + 1
           /\ \A i \in 1..Len(s) : Append(s, e)[i] = s[i]
           /\ Append(s, e)[Len(s) + 1] = e
<1> DEFINE T == Range(s) \cup {e}
<1>1. Range(s) \subseteq T /\ e \in T
  OBVIOUS
<1>2. s \in Seq(T)
  <2>1. s \in [1..Len(s) -> Range(s)] /\ Len(s) \in Nat
    BY DEF IsSeq
  <2>2. s \in [1..Len(s) -> T]
    BY <1>1, <2>1
  <2> QED BY <2>1, <2>2, IsASeq
<1> HIDE DEF T
<1>3. Append(s, e) \in Seq(T)
  BY <1>1, <1>2
<1>4. IsSeq(Append(s, e))
  BY <1>3, SeqOf
<1> QED BY <1>1, <1>2, <1>4

LEMMA SeqTail ==
    ASSUME NEW s, IsSeq(s), s # <<>>
    PROVE  /\ IsSeq(Tail(s)) /\ Len(s) \in Nat \ {0} /\ Len(Tail(s)) = Len(s) - 1
           /\ \A i \in 1..(Len(s) - 1) : Tail(s)[i] = s[i + 1]
           /\ Head(s) = s[1]
<1> DEFINE T == Range(s)
<1>1. s \in Seq(T)
  BY DEF IsSeq
<1> HIDE DEF T
<1>2. Tail(s) \in Seq(T)
  BY <1>1
<1>3. IsSeq(Tail(s))
  BY <1>2, SeqOf
<1> QED BY <1>1, <1>3

\* The stream grows by a header only when no body is owed, by a body only when
\* one is, and what is read from it leaves the rest in place.
LEMMA FramedHead ==
    ASSUME NEW s, IsSeq(s), NEW m, m.kind = "head", NEW i \in Nat, NEW n \in Nat, NEW t, NEW bt,
           NEW live2, NEW rest2, NEW bt2, i <= Len(s), Framed(s, i, n, t, TRUE, <<>>, bt)
    PROVE  Framed(Append(s, m), i, n, t, live2, rest2, bt2)
<1> DEFINE a == Append(s, m)
<1>1. /\ Len(s) \in Nat /\ Len(a) = Len(s) + 1
      /\ \A j \in 1..Len(s) : a[j] = s[j]
      /\ a[Len(s) + 1] = m
  BY SeqAppend, SeqBasics
<1>2. i + n <= Len(s)
  BY <1>1, SeqEmpty DEF Framed
<1> HIDE DEF a
<1> QED
  <2>1. ASSUME NEW j \in (i + 1)..(i + n) PROVE a[j].kind = "body" /\ a[j].type = t
    <3>1. j \in 1..Len(s) /\ j <= Len(s)
      BY <1>1, <1>2
    <3>2. s[j].kind = "body" /\ s[j].type = t
      BY <3>1 DEF Framed
    <3> QED
      BY <1>1, <3>1, <3>2
  <2>2. i + n < Len(a) /\ a[i + n + 1].kind = "head"
    BY <1>1, <1>2 DEF Framed
  <2> QED BY <1>1, <2>1, <2>2 DEF Framed, a

LEMMA FramedBody ==
    ASSUME NEW s, IsSeq(s), NEW m, m.kind = "body", NEW i \in Nat, NEW n \in Nat, NEW t,
           NEW live2, NEW rest, NEW bt2, i <= Len(s), IsSeq(rest), rest # <<>>,
           Tail(rest) # <<>> => bt2 = m.type,
           Framed(s, i, n, t, TRUE, rest, m.type)
    PROVE  Framed(Append(s, m), i, n, t, live2, Tail(rest), bt2)
<1> DEFINE a == Append(s, m)
<1>1. /\ Len(s) \in Nat /\ Len(a) = Len(s) + 1
      /\ \A j \in 1..Len(s) : a[j] = s[j]
      /\ a[Len(s) + 1] = m
  BY SeqAppend, SeqBasics
<1>2. Len(rest) \in Nat \ {0} /\ Len(Tail(rest)) = Len(rest) - 1
  BY SeqTail
<1> DEFINE r == Tail(rest)
<1> HIDE DEF a, r
<1>3. CASE i + n < Len(s)
  <2>1. i + n < Len(a) /\ a[i + n + 1] = s[i + n + 1]
    BY <1>1, <1>3
  <2>2. \A j \in (i + 1)..(i + n) : a[j] = s[j] /\ j <= Len(s)
    BY <1>1, <1>3
  <2> QED BY <1>1, <1>3, <2>1, <2>2 DEF Framed, a, r
<1>4. CASE i + n >= Len(s)
  <2>1. i + n = Len(s) + Len(rest) /\ m.type = t
    BY <1>4 DEF Framed
  <2>2. ~(i + n < Len(a)) /\ i + n = Len(a) + Len(r)
    BY <1>1, <1>2, <2>1 DEF r
  <2>3. \A j \in (i + 1)..(i + n) : j <= Len(a) => a[j].kind = "body" /\ a[j].type = t
    <3> SUFFICES ASSUME NEW j \in (i + 1)..(i + n), j <= Len(a)
                 PROVE  a[j].kind = "body" /\ a[j].type = t
      OBVIOUS
    <3>1. j \in 1..Len(s) \/ j = Len(s) + 1
      BY <1>1
    <3> QED BY <1>1, <2>1, <3>1 DEF Framed
  <2> QED BY <2>1, <2>2, <2>3 DEF Framed, a, r
<1> QED BY <1>1, <1>3, <1>4

LEMMA FramedTail ==
    ASSUME NEW s, IsSeq(s), s # <<>>, NEW i \in Nat, NEW n \in Nat, NEW t, NEW live, NEW rest,
           NEW bt, IsSeq(rest), Framed(s, i + 1, n, t, live, rest, bt)
    PROVE  Framed(Tail(s), i, n, t, live, rest, bt)
<1> DEFINE a == Tail(s)
<1>1. /\ Len(s) \in Nat \ {0} /\ Len(a) = Len(s) - 1 /\ Len(rest) \in Nat
      /\ \A j \in 1..Len(a) : a[j] = s[j + 1]
  BY SeqTail, SeqBasics
<1> HIDE DEF a
<1>2. \A j \in (i + 1)..(i + n) : j <= Len(a) => a[j].kind = "body" /\ a[j].type = t
  <2> SUFFICES ASSUME NEW j \in (i + 1)..(i + n), j <= Len(a)
               PROVE  a[j].kind = "body" /\ a[j].type = t
    OBVIOUS
  <2>1. j + 1 \in (i + 1 + 1)..(i + 1 + n) /\ j + 1 <= Len(s) /\ a[j] = s[j + 1]
    BY <1>1
  <2> QED BY <2>1 DEF Framed
<1>3. i + n < Len(a) => a[i + n + 1].kind = "head"
  <2> SUFFICES ASSUME i + n < Len(a) PROVE a[i + n + 1].kind = "head"
    OBVIOUS
  <2>1. i + 1 + n < Len(s) /\ i + n + 1 \in 1..Len(a) /\ (i + n + 1) + 1 = i + 1 + n + 1
    BY <1>1
  <2> QED BY <1>1, <2>1 DEF Framed
<1>4. live /\ i + n >= Len(a) => i + n = Len(a) + Len(rest) /\ (rest # <<>> => bt = t)
  BY <1>1 DEF Framed
<1> QED BY <1>2, <1>3, <1>4 DEF Framed, a

LEMMA FollowsHead ==
    ASSUME NEW s, IsSeq(s), NEW m, NEW i \in Nat, NEW n \in Nat, NEW t, NEW live2, NEW next2,
           i + n <= Len(s), Follows(s, i, n, t, TRUE, m.type)
    PROVE  Follows(Append(s, m), i, n, t, live2, next2)
<1> DEFINE a == Append(s, m)
<1>1. /\ Len(s) \in Nat /\ Len(a) = Len(s) + 1
      /\ \A j \in 1..Len(s) : a[j] = s[j]
      /\ a[Len(s) + 1] = m
  BY SeqAppend, SeqBasics
<1> HIDE DEF a
<1>2. i + n < Len(a) /\ a[i + n + 1].type = t
  BY <1>1 DEF Follows
<1> QED BY <1>1, <1>2 DEF Follows, a

LEMMA FollowsBody ==
    ASSUME NEW s, IsSeq(s), NEW m, NEW i \in Nat, NEW n \in Nat, NEW t, NEW next,
           i + n # Len(s), Follows(s, i, n, t, TRUE, next)
    PROVE  Follows(Append(s, m), i, n, t, TRUE, next)
<1> DEFINE a == Append(s, m)
<1>1. /\ Len(s) \in Nat /\ Len(a) = Len(s) + 1
      /\ \A j \in 1..Len(s) : a[j] = s[j]
  BY SeqAppend, SeqBasics
<1> HIDE DEF a
<1>2. i + n < Len(a) => i + n < Len(s) /\ a[i + n + 1].type = t
  BY <1>1 DEF Follows
<1> QED BY <1>1, <1>2 DEF Follows, a

LEMMA FollowsTail ==
    ASSUME NEW s, IsSeq(s), s # <<>>, NEW i \in Nat, NEW n \in Nat, NEW t, NEW live, NEW next,
           Follows(s, i + 1, n, t, live, next)
    PROVE  Follows(Tail(s), i, n, t, live, next)
<1> DEFINE a == Tail(s)
<1>1. /\ Len(s) \in Nat \ {0} /\ Len(a) = Len(s) - 1
      /\ \A j \in 1..Len(a) : a[j] = s[j + 1]
  BY SeqTail
<1> HIDE DEF a
<1>2. i + n < Len(a) => a[i + n + 1].type = t
  <2> SUFFICES ASSUME i + n < Len(a) PROVE a[i + n + 1].type = t
    OBVIOUS
  <2>1. i + 1 + n < Len(s) /\ i + n + 1 \in 1..Len(a) /\ (i + n + 1) + 1 = i + 1 + n + 1
    BY <1>1
  <2> QED BY <1>1, <2>1 DEF Follows
<1> QED BY <1>1, <1>2 DEF Follows, a

LEMMA ApartHead ==
    ASSUME NEW s, IsSeq(s), NEW m, NEW i \in Nat, NEW n \in Nat, NEW live, NEW rest,
           NEW live2, NEW rest2, i + n <= Len(s), Apart(s, i, n, live, rest)
    PROVE  Apart(Append(s, m), i, n, live2, rest2)
<1> DEFINE a == Append(s, m)
<1>1. /\ Len(s) \in Nat /\ Len(a) = Len(s) + 1
      /\ \A j \in 1..Len(s) : a[j] = s[j]
  BY SeqAppend, SeqBasics
<1> HIDE DEF a
<1>2. ~(i + n > Len(a)) /\ \A j \in (i + 1)..(i + n) : a[j] = s[j] /\ j <= Len(s)
  BY <1>1
<1> QED BY <1>2 DEF Apart, a

LEMMA ApartBody ==
    ASSUME NEW s, IsSeq(s), NEW m, NEW i \in Nat, NEW n \in Nat, NEW live2, NEW rest,
           i <= Len(s), IsSeq(rest), rest # <<>>, m.key = Head(rest).key,
           i + n > Len(s) => Distinct(rest),
           Apart(s, i, n, TRUE, rest)
    PROVE  Apart(Append(s, m), i, n, live2, Tail(rest))
<1> DEFINE a == Append(s, m)
           r == Tail(rest)
<1>1. /\ Len(s) \in Nat /\ Len(a) = Len(s) + 1
      /\ \A j \in 1..Len(s) : a[j] = s[j]
      /\ a[Len(s) + 1] = m
  BY SeqAppend, SeqBasics
<1>2. /\ Len(rest) \in Nat \ {0} /\ Len(r) = Len(rest) - 1
      /\ \A k \in 1..Len(r) : r[k] = rest[k + 1]
      /\ Head(rest) = rest[1]
  BY SeqTail
<1> HIDE DEF a, r
<1>3. CASE i + n <= Len(s)
  <2>1. ~(i + n > Len(a)) /\ \A j \in (i + 1)..(i + n) : a[j] = s[j] /\ j <= Len(s)
    BY <1>1, <1>3
  <2> QED BY <2>1 DEF Apart, a, r
<1>4. CASE i + n > Len(s)
  <2>1. \A j \in (i + 1)..Len(s), k \in 1..Len(rest) : s[j].key # rest[k].key
    BY <1>4 DEF Apart
  <2>2. \A j \in (i + 1)..(i + n) : j <= Len(a) => j \in (i + 1)..Len(s) \/ j = Len(s) + 1
    BY <1>1
  <2>3. \A j \in (i + 1)..Len(s) : a[j] = s[j] /\ j \in (i + 1)..(i + n) /\ j <= Len(s)
    BY <1>1, <1>4
  <2>4. \A j \in (i + 1)..Len(s) : a[j].key # m.key
    BY <1>2, <2>1, <2>3
  <2>5. \A j, k \in (i + 1)..(i + n) :
            j <= Len(a) /\ k <= Len(a) /\ a[j].key = a[k].key => j = k
    BY <1>1, <2>2, <2>3, <2>4 DEF Apart
  <2>6. \A j \in (i + 1)..Len(a), k \in 1..Len(r) : a[j].key # r[k].key
    <3> SUFFICES ASSUME NEW j \in (i + 1)..Len(a), NEW k \in 1..Len(r)
                 PROVE  a[j].key # r[k].key
      OBVIOUS
    <3>1. k + 1 \in 1..Len(rest) /\ 1 \in 1..Len(rest) /\ k + 1 # 1 /\ r[k] = rest[k + 1]
      BY <1>2
    <3>2. j \in (i + 1)..Len(s) \/ j = Len(s) + 1
      BY <1>1
    <3>3. CASE j \in (i + 1)..Len(s)
      BY <2>1, <2>3, <3>1, <3>3
    <3>4. CASE j = Len(s) + 1
      BY <1>1, <1>2, <1>4, <3>1, <3>4 DEF Distinct
    <3> QED BY <3>2, <3>3, <3>4
  <2> QED BY <2>5, <2>6 DEF Apart, a, r
<1> QED BY <1>1, <1>3, <1>4

LEMMA ApartTail ==
    ASSUME NEW s, IsSeq(s), s # <<>>, NEW i \in Nat, NEW n \in Nat, NEW live, NEW rest,
           Apart(s, i + 1, n, live, rest)
    PROVE  Apart(Tail(s), i, n, live, rest)
<1> DEFINE a == Tail(s)
<1>1. /\ Len(s) \in Nat \ {0} /\ Len(a) = Len(s) - 1
      /\ \A j \in 1..Len(a) : a[j] = s[j + 1]
  BY SeqTail
<1> HIDE DEF a
<1>2. \A j \in (i + 1)..(i + n) : j <= Len(a) =>
          a[j] = s[j + 1] /\ j + 1 \in (i + 1 + 1)..(i + 1 + n) /\ j + 1 <= Len(s)
  BY <1>1
<1>3. \A j, k \in (i + 1)..(i + n) : j <= Len(a) /\ k <= Len(a) /\ a[j].key = a[k].key => j = k
  <2> SUFFICES ASSUME NEW j \in (i + 1)..(i + n), NEW k \in (i + 1)..(i + n),
                      j <= Len(a), k <= Len(a), a[j].key = a[k].key
               PROVE  j = k
    OBVIOUS
  <2>1. j + 1 = k + 1
    BY <1>2 DEF Apart
  <2> QED BY <2>1
<1>4. live /\ i + n > Len(a) =>
          \A j \in (i + 1)..Len(a), k \in 1..Len(rest) : a[j].key # rest[k].key
  <2> SUFFICES ASSUME live, i + n > Len(a), NEW j \in (i + 1)..Len(a), NEW k \in 1..Len(rest)
               PROVE  a[j].key # rest[k].key
    OBVIOUS
  <2>1. i + 1 + n > Len(s) /\ j + 1 \in (i + 1 + 1)..Len(s) /\ a[j] = s[j + 1]
    BY <1>1
  <2> QED BY <2>1 DEF Apart
<1> QED BY <1>3, <1>4 DEF Apart, a

LEMMA AbsentBody ==
    ASSUME NEW s, IsSeq(s), NEW m, NEW n \in Nat, NEW live2, NEW rest, NEW k,
           IsSeq(rest), rest # <<>>, m.key = Head(rest).key, Absent(s, n, TRUE, rest, k)
    PROVE  Absent(Append(s, m), n, live2, Tail(rest), k)
<1> DEFINE a == Append(s, m)
           r == Tail(rest)
<1>1. /\ Len(s) \in Nat /\ Len(a) = Len(s) + 1
      /\ \A j \in 1..Len(s) : a[j] = s[j]
      /\ a[Len(s) + 1] = m
  BY SeqAppend, SeqBasics
<1>2. /\ Len(rest) \in Nat \ {0} /\ Len(r) = Len(rest) - 1
      /\ \A j \in 1..Len(r) : r[j] = rest[j + 1]
      /\ Head(rest) = rest[1]
  BY SeqTail
<1> HIDE DEF a, r
<1>3. n > Len(s) => \A j \in 1..Len(rest) : rest[j].key # k
  BY DEF Absent
<1>4. \A j \in 1..n : j <= Len(a) => a[j].key # k
  <2> SUFFICES ASSUME NEW j \in 1..n, j <= Len(a) PROVE a[j].key # k
    OBVIOUS
  <2>1. CASE j <= Len(s)
    BY <1>1, <2>1 DEF Absent
  <2>2. CASE j = Len(s) + 1
    <3>1. n > Len(s) /\ 1 \in 1..Len(rest)
      BY <1>1, <1>2, <2>2
    <3> QED BY <1>1, <1>2, <1>3, <2>2, <3>1
  <2> QED BY <1>1, <2>1, <2>2
<1>5. n > Len(a) => \A j \in 1..Len(r) : r[j].key # k
  <2> SUFFICES ASSUME n > Len(a), NEW j \in 1..Len(r) PROVE r[j].key # k
    OBVIOUS
  <2>1. n > Len(s) /\ j + 1 \in 1..Len(rest) /\ r[j] = rest[j + 1]
    BY <1>1, <1>2
  <2> QED BY <1>3, <2>1
<1> QED BY <1>4, <1>5 DEF Absent, a, r

\* Reading the first of n bodies leaves n - 1.
LEMMA BodyRead ==
    ASSUME NEW s, NEW n \in Nat \ {0}, NEW t, NEW live, NEW rest, NEW bt, NEW next
    PROVE  /\ Framed(s, 0, n, t, live, rest, bt) => Framed(s, 0 + 1, n - 1, t, live, rest, bt)
           /\ Follows(s, 0, n, t, live, next) => Follows(s, 0 + 1, n - 1, t, live, next)
           /\ Apart(s, 0, n, live, rest) => Apart(s, 0 + 1, n - 1, live, rest)
<1>1. /\ 0 + 1 + (n - 1) = n /\ 0 + n = n
      /\ (0 + 1 + 1)..(0 + 1 + (n - 1)) \subseteq (0 + 1)..(0 + n)
      /\ (0 + 1 + 1)..Len(s) \subseteq (0 + 1)..Len(s)
  OBVIOUS
<1> QED BY <1>1 DEF Framed, Follows, Apart

\* On a stream that is empty and not served nothing can be wrong.
LEMMA NothingSent ==
    ASSUME NEW n \in Nat, NEW t, NEW rest, NEW bt, NEW next, NEW k
    PROVE  /\ Framed(<<>>, 0, n, t, FALSE, rest, bt) /\ Follows(<<>>, 0, n, t, FALSE, next)
           /\ Apart(<<>>, 0, n, FALSE, rest) /\ Absent(<<>>, n, FALSE, rest, k)
BY SeqEmpty DEF Framed, Follows, Apart, Absent

\* When less is live, less is claimed.
LEMMA FramedLess ==
    ASSUME NEW s, NEW i, NEW n, NEW t, NEW live \in BOOLEAN, NEW rest, NEW bt,
           NEW live2 \in BOOLEAN, NEW rest2, NEW bt2,
           live2 => live /\ rest2 = rest /\ (rest # <<>> => bt2 = bt),
           Framed(s, i, n, t, live, rest, bt)
    PROVE  Framed(s, i, n, t, live2, rest2, bt2)
BY DEF Framed

LEMMA FollowsLess ==
    ASSUME NEW s, NEW i, NEW n, NEW t, NEW live \in BOOLEAN, NEW next,
           NEW live2 \in BOOLEAN, NEW next2, live2 => live /\ next2 = next,
           Follows(s, i, n, t, live, next)
    PROVE  Follows(s, i, n, t, live2, next2)
BY DEF Follows

LEMMA ApartLess ==
    ASSUME NEW s, NEW i, NEW n, NEW live \in BOOLEAN, NEW rest,
           NEW live2 \in BOOLEAN, NEW rest2, live2 => live /\ rest2 = rest,
           Apart(s, i, n, live, rest)
    PROVE  Apart(s, i, n, live2, rest2)
BY DEF Apart

LEMMA AbsentLess ==
    ASSUME NEW s, NEW n, NEW live \in BOOLEAN, NEW rest, NEW k,
           NEW live2 \in BOOLEAN, NEW rest2, live2 => live /\ rest2 = rest,
           Absent(s, n, live, rest, k)
    PROVE  Absent(s, n, live2, rest2, k)
BY DEF Absent

-----------------------------------------------------------------------------
\* What is on its way stays so when nothing is sent or read.
LEMMA StillOnTheWay ==
    ASSUME OnTheWay, UNCHANGED stream,
           Live' => /\ Live /\ Unsent' = Unsent /\ Coming' = Coming
                    /\ Unsent # <<>> => batch'.type = batch.type /\ batch'.moved = batch.moved,
           IsSeq(stream), Unsent = <<>> \/ IsSeq(Unsent)
    PROVE  OnTheWay'
<1> SUFFICES ASSUME NEW i \in 1..Len(stream), stream[i].kind = "head"
             PROVE  LET h == stream[i] IN
                    /\ h.n \in Nat /\ h.type \in {1, 2}
                    /\ Framed(stream, i, h.n, h.type, Live', Unsent', batch'.type)
                    /\ Follows(stream, i, h.n, Other(h.type), Live', Coming')
                    /\ ~h.moved => Apart(stream, i, h.n, Live', Unsent')
                    /\ Live' /\ i + h.n > Len(stream) => h.moved = batch'.moved
  BY DEF OnTheWay
<1> DEFINE h == stream[i]
<1>1. /\ h.n \in Nat /\ h.type \in {1, 2}
      /\ Framed(stream, i, h.n, h.type, Live, Unsent, batch.type)
      /\ Follows(stream, i, h.n, Other(h.type), Live, Coming)
      /\ ~h.moved => Apart(stream, i, h.n, Live, Unsent)
      /\ Live /\ i + h.n > Len(stream) => h.moved = batch.moved
  BY DEF OnTheWay
<1> HIDE DEF h
<1>2. Live \in BOOLEAN /\ Live' \in BOOLEAN
  BY DEF Live
<1>3. /\ Framed(stream, i, h.n, h.type, Live', Unsent', batch'.type)
      /\ Follows(stream, i, h.n, Other(h.type), Live', Coming')
      /\ ~h.moved => Apart(stream, i, h.n, Live', Unsent')
  BY <1>1, <1>2, FramedLess, FollowsLess, ApartLess
<1>4. Live' /\ i + h.n > Len(stream) => h.moved = batch'.moved
  <2> SUFFICES ASSUME Live', i + h.n > Len(stream) PROVE h.moved = batch'.moved
    OBVIOUS
  <2>1. Live /\ Len(stream) \in Nat
    BY SeqBasics
  <2>2. i + h.n = Len(stream) + Len(Unsent)
    BY <1>1, <2>1 DEF Framed
  <2>3. Unsent # <<>>
    BY <2>1, <2>2, SeqEmpty
  <2> QED BY <1>1, <2>1, <2>3
<1> QED BY <1>1, <1>3, <1>4 DEF h

\* A step that neither sends nor reads.
LEMMA SameWire ==
    ASSUME StreamInv, UNCHANGED <<stream, left, type, files, origin>>,
           go' = "broken" \/ go # "broken",
           Live' => /\ Live /\ Unsent' = Unsent /\ Coming' = Coming
                    /\ Unsent # <<>> => batch'.type = batch.type /\ batch'.moved = batch.moved,
           IsBatch(batch'), Connected', Snapshot'
    PROVE  StreamInv'
<1>1. /\ StreamTypes /\ OnTheWay /\ Expected /\ Uncounted /\ FileEventsOnce
      /\ IsSeq(stream) /\ left \in Nat /\ (Unsent = <<>> \/ IsSeq(Unsent))
  BY DEF StreamInv, StreamTypes, IsBatch, Unsent
<1>2. StreamTypes'
  BY <1>1 DEF StreamTypes
<1>3. OnTheWay'
  BY <1>1, StillOnTheWay
<1>4. Live \in BOOLEAN /\ Live' \in BOOLEAN
  BY DEF Live
<1>5. ASSUME go' # "broken"
      PROVE  /\ Framed(stream, 0, left, type, Live', Unsent', batch'.type)
             /\ left > 0 => type \in {1, 2} /\ (type = 1 => files = NoEvents)
             /\ files # NoEvents \/ (left > 0 /\ type = 2) =>
                   Follows(stream, 0, left, 1, Live', Coming')
  BY <1>1, <1>4, <1>5, FramedLess, FollowsLess DEF Expected
<1>6. Expected'
  BY <1>5 DEF Expected, NoEvents
<1>7. ASSUME go' # "broken", left > 0, type = 2, ~origin.moved[2]
      PROVE  /\ Apart(stream, 0, left, Live', Unsent')
             /\ Live' /\ left > Len(stream) => ~batch'.moved
             /\ \A l \in DOMAIN files : files[l] > 0 => Absent(stream, left, Live', Unsent', l[1])
  <2>1. /\ Apart(stream, 0, left, Live, Unsent)
        /\ Live /\ left > Len(stream) => ~batch.moved
        /\ \A l \in DOMAIN files : files[l] > 0 => Absent(stream, left, Live, Unsent, l[1])
        /\ Framed(stream, 0, left, type, Live, Unsent, batch.type)
    BY <1>1, <1>7 DEF Uncounted, Expected
  <2>2. Apart(stream, 0, left, Live', Unsent')
    BY <1>4, <2>1, ApartLess
  <2>3. \A l \in DOMAIN files : files[l] > 0 => Absent(stream, left, Live', Unsent', l[1])
    BY <1>4, <2>1, AbsentLess
  <2>4. ASSUME Live', left > Len(stream) PROVE ~batch'.moved
    <3>1. Live /\ Len(stream) \in Nat
      BY <1>1, <2>4, SeqBasics
    <3>2. left = Len(stream) + Len(Unsent)
      BY <1>1, <2>1, <2>4, <3>1 DEF Framed
    <3>3. Unsent # <<>>
      BY <2>4, <3>1, <3>2, SeqEmpty
    <3> QED BY <2>1, <2>4, <3>1, <3>3
  <2> QED BY <2>2, <2>3, <2>4
<1>8. Uncounted'
  BY <1>7 DEF Uncounted
<1>9. FileEventsOnce'
  BY <1>1 DEF FileEventsOnce
<1> QED BY <1>2, <1>3, <1>6, <1>8, <1>9 DEF StreamInv

-----------------------------------------------------------------------------
(***************************************************************************)
(* The snapshot.                                                           *)
(***************************************************************************)
LEMMA NoBatchIs ==
    /\ IsBatch(NoBatch) /\ NoBatch.bodies = <<>> /\ NoBatch.moved = FALSE
    /\ \A k \in Keys : NoBatch.visits[k] = 0
BY SeqEmpty DEF NoBatch, IsBatch

LEMMA BeginIs ==
    ASSUME NEW t, Begin(t)
    PROVE  IsBatch(batch') /\ batch'.type = t /\ batch'.bodies = <<>> /\ batch'.moved = FALSE
<1> DEFINE m == {k \in KeysOf(t) : counts[k] > 0}
           f == IF t = 1 THEN [d \in Domains |-> Total(d)] ELSE NoSums
<1>1. batch' = [NoBatch EXCEPT !.type = t, !.must = m, !.floor = f]
  BY DEF Begin
<1> HIDE DEF m, f
<1> QED BY <1>1, SeqEmpty DEF NoBatch, IsBatch

\* Begin leaves nothing to contradict.
LEMMA BeginSnapshot ==
    ASSUME NEW t \in {1, 2}, Begin(t), uds' = "iterate"
    PROVE  IsBatch(batch') /\ Snapshot'
<1>1. IsBatch(batch') /\ batch'.type = t /\ batch'.bodies = <<>>
  BY BeginIs
<1> QED BY <1>1, SeqEmpty DEF Snapshot, Distinct

LEMMA SentIs ==
    ASSUME IsBatch(batch), batch.type \in {1, 2}, NEW rest, IsSeq(rest), Sent(rest),
           ~batch.moved => Distinct(rest)
    PROVE  /\ IsBatch(batch') /\ Snapshot'
           /\ uds' \in {"round", "iterate", "body"}
           /\ Unsent' = rest /\ Coming' = Other(batch.type)
           /\ rest # <<>> => batch'.type = batch.type /\ batch'.moved = batch.moved
<1>1. CASE rest # <<>>
  <2>1. uds' = "body" /\ batch' = [batch EXCEPT !.bodies = rest]
    BY <1>1 DEF Sent
  <2>2. /\ IsBatch(batch') /\ batch'.bodies = rest
        /\ batch'.type = batch.type /\ batch'.moved = batch.moved
    BY <2>1 DEF IsBatch
  <2> QED BY <1>1, <2>1, <2>2 DEF Snapshot, Unsent, Coming
<1>2. CASE rest = <<>> /\ batch.type = 1
  <2>1. uds' = "iterate" /\ Begin(2)
    BY <1>2 DEF Sent
  <2>2. batch'.type = 2
    BY <2>1, BeginIs
  <2>3. IsBatch(batch') /\ Snapshot'
    BY <2>1, BeginSnapshot
  <2> QED BY <1>2, <2>1, <2>2, <2>3 DEF Unsent, Coming, Other
<1>3. CASE rest = <<>> /\ batch.type # 1
  <2>1. uds' = "round" /\ batch' = NoBatch
    BY <1>3 DEF Sent
  <2>2. IsBatch(batch') /\ Snapshot'
    BY <2>1, NoBatchIs DEF Snapshot
  <2> QED BY <1>3, <2>1, <2>2 DEF Unsent, Coming, Other
<1> QED BY <1>1, <1>2, <1>3

LEMMA AbsentHead ==
    ASSUME NEW s, IsSeq(s), NEW m, NEW n \in Nat, NEW live, NEW rest, NEW k, NEW live2, NEW rest2,
           n <= Len(s), Absent(s, n, live, rest, k)
    PROVE  Absent(Append(s, m), n, live2, rest2, k)
<1> DEFINE a == Append(s, m)
<1>1. /\ Len(s) \in Nat /\ Len(a) = Len(s) + 1
      /\ \A j \in 1..Len(s) : a[j] = s[j]
  BY SeqAppend, SeqBasics
<1> HIDE DEF a
<1>2. ~(n > Len(a)) /\ \A j \in 1..n : a[j] = s[j] /\ j <= Len(s)
  BY <1>1
<1> QED BY <1>2 DEF Absent, a

-----------------------------------------------------------------------------
(***************************************************************************)
(* xdp_fw sends a header: every batch before it is complete.               *)
(***************************************************************************)
LEMMA HeadStep == ASSUME StreamInv, SendHead, UNCHANGED govars PROVE StreamInv'
<1> DEFINE m == HeadMsg(batch.type, Len(batch.bodies), batch.floor, batch.moved)
           a == Append(stream, m)
<1>1. /\ stream' = a /\ Sent(batch.bodies) /\ uds = "head" /\ client = "live"
      /\ UNCHANGED <<client, conn, go, left, type, files, origin>>
  BY DEF SendHead, SendOk, govars, inbox, metrics
<1>2. /\ IsSeq(stream) /\ left \in Nat /\ IsBatch(batch) /\ IsSeq(batch.bodies)
      /\ batch.type \in {1, 2} /\ (~batch.moved => Distinct(batch.bodies))
  BY <1>1 DEF StreamInv, StreamTypes, Snapshot, IsBatch
<1>3. /\ m.kind = "head" /\ m.type = batch.type /\ m.n = Len(batch.bodies)
      /\ m.moved = batch.moved
  BY DEF HeadMsg
<1>4. /\ Len(stream) \in Nat /\ IsSeq(a) /\ Len(a) = Len(stream) + 1
      /\ \A j \in 1..Len(stream) : a[j] = stream[j]
      /\ a[Len(stream) + 1] = m
  BY <1>2, SeqAppend, SeqBasics
<1> HIDE DEF a, m
<1>5. /\ IsBatch(batch') /\ Snapshot'
      /\ uds' \in {"round", "iterate", "body"}
      /\ Unsent' = batch.bodies /\ Coming' = Other(batch.type)
      /\ batch.bodies # <<>> => batch'.type = batch.type /\ batch'.moved = batch.moved
  BY <1>1, <1>2, SentIs
<1>6. Live = TRUE /\ Unsent = <<>> /\ Coming = batch.type
  BY <1>1 DEF Live, Unsent, Coming
<1>7. StreamTypes'
  BY <1>1, <1>4, <1>5 DEF StreamInv, StreamTypes
<1>8. Connected'
  BY <1>1 DEF StreamInv, Connected
<1>9. ASSUME NEW i \in Nat, NEW n \in Nat, NEW t, i <= Len(stream),
             Framed(stream, i, n, t, Live, Unsent, batch.type)
      PROVE  i + n <= Len(stream) /\ Framed(a, i, n, t, Live', Unsent', batch'.type)
  <2>1. Framed(stream, i, n, t, TRUE, <<>>, batch.type)
    BY <1>6, <1>9
  <2>2. i + n <= Len(stream)
    BY <1>4, <2>1, SeqEmpty DEF Framed
  <2>3. Framed(a, i, n, t, Live', Unsent', batch'.type)
    BY <1>2, <1>3, <1>9, <2>1, FramedHead DEF a
  <2> QED BY <2>2, <2>3
<1>10. ASSUME NEW i \in Nat, NEW n \in Nat, NEW t, i + n <= Len(stream),
              Follows(stream, i, n, t, Live, Coming)
       PROVE  Follows(a, i, n, t, Live', Coming')
  <2>1. Follows(stream, i, n, t, TRUE, m.type)
    BY <1>3, <1>6, <1>10
  <2> QED BY <1>2, <1>10, <2>1, FollowsHead DEF a
<1>11. OnTheWay'
  <2> SUFFICES ASSUME NEW i \in 1..Len(a), a[i].kind = "head"
               PROVE  LET h == a[i] IN
                      /\ h.n \in Nat /\ h.type \in {1, 2}
                      /\ Framed(a, i, h.n, h.type, Live', Unsent', batch'.type)
                      /\ Follows(a, i, h.n, Other(h.type), Live', Coming')
                      /\ ~h.moved => Apart(a, i, h.n, Live', Unsent')
                      /\ Live' /\ i + h.n > Len(a) => h.moved = batch'.moved
    BY <1>1 DEF OnTheWay
  <2>1. CASE i \in 1..Len(stream)
    <3> DEFINE h == stream[i]
    <3>1. /\ a[i] = h /\ i \in Nat /\ h.n \in Nat /\ h.type \in {1, 2}
          /\ Framed(stream, i, h.n, h.type, Live, Unsent, batch.type)
          /\ Follows(stream, i, h.n, Other(h.type), Live, Coming)
          /\ ~h.moved => Apart(stream, i, h.n, Live, Unsent)
      BY <1>4, <2>1 DEF StreamInv, OnTheWay
    <3> HIDE DEF h
    <3>2. i <= Len(stream)
      BY <2>1
    <3>3. i + h.n <= Len(stream) /\ Framed(a, i, h.n, h.type, Live', Unsent', batch'.type)
      BY <1>9, <3>1, <3>2
    <3>4. Follows(a, i, h.n, Other(h.type), Live', Coming')
      BY <1>10, <3>1, <3>3
    <3>5. ~h.moved => Apart(a, i, h.n, Live', Unsent')
      BY <1>2, <3>1, <3>3, ApartHead DEF a
    <3>6. ~(i + h.n > Len(a))
      BY <1>4, <3>1, <3>3
    <3> QED BY <3>1, <3>3, <3>4, <3>5, <3>6
  <2>2. CASE i = Len(stream) + 1
    <3> DEFINE n == Len(batch.bodies)
    <3>1. a[i] = m /\ n \in Nat /\ i = Len(a) /\ i \in Nat /\ (batch.bodies = <<>> <=> n = 0)
      BY <1>2, <1>4, <2>2, SeqBasics
    <3> HIDE DEF n
    <3>2. Framed(a, i, n, batch.type, Live', Unsent', batch'.type)
      BY <1>5, <3>1 DEF Framed, n
    <3>3. Follows(a, i, n, Other(batch.type), Live', Coming')
      BY <1>5, <3>1 DEF Follows
    <3>4. Apart(a, i, n, Live', Unsent')
      BY <3>1 DEF Apart
    <3>5. i + n > Len(a) => batch.moved = batch'.moved
      BY <1>5, <3>1
    <3> QED BY <1>2, <1>3, <3>1, <3>2, <3>3, <3>4, <3>5 DEF n
  <2> QED BY <1>4, <2>1, <2>2
<1>12. ASSUME go # "broken"
       PROVE  /\ left <= Len(stream)
              /\ Framed(a, 0, left, type, Live', Unsent', batch'.type)
              /\ left > 0 => type \in {1, 2} /\ (type = 1 => files = NoEvents)
              /\ files # NoEvents \/ (left > 0 /\ type = 2) => Follows(a, 0, left, 1, Live', Coming')
  <2>1. /\ Framed(stream, 0, left, type, Live, Unsent, batch.type)
        /\ left > 0 => type \in {1, 2} /\ (type = 1 => files = NoEvents)
        /\ files # NoEvents \/ (left > 0 /\ type = 2) => Follows(stream, 0, left, 1, Live, Coming)
    BY <1>12 DEF StreamInv, Expected
  <2>2. 0 + left <= Len(stream) /\ Framed(a, 0, left, type, Live', Unsent', batch'.type)
    BY <1>2, <1>4, <1>9, <2>1
  <2>3. left <= Len(stream)
    BY <1>2, <2>2
  <2> QED BY <1>2, <1>10, <2>1, <2>2, <2>3
<1>13. Expected'
  BY <1>1, <1>12 DEF Expected, NoEvents
<1>14. Uncounted'
  <2> SUFFICES ASSUME go # "broken", left > 0, type = 2, ~origin.moved[2]
               PROVE  /\ Apart(a, 0, left, Live', Unsent')
                      /\ Live' /\ left > Len(a) => ~batch'.moved
                      /\ \A l \in DOMAIN files : files[l] > 0 => Absent(a, left, Live', Unsent', l[1])
    BY <1>1 DEF Uncounted
  <2>1. /\ Apart(stream, 0, left, Live, Unsent)
        /\ \A l \in DOMAIN files : files[l] > 0 => Absent(stream, left, Live, Unsent, l[1])
    BY DEF StreamInv, Uncounted
  <2>2. left <= Len(stream) /\ 0 + left <= Len(stream) /\ ~(left > Len(a))
    BY <1>2, <1>4, <1>12
  <2>3. Apart(a, 0, left, Live', Unsent')
    BY <1>2, <2>1, <2>2, ApartHead DEF a
  <2>4. \A l \in DOMAIN files : files[l] > 0 => Absent(a, left, Live', Unsent', l[1])
    BY <1>2, <2>1, <2>2, AbsentHead DEF a
  <2> QED BY <2>2, <2>3, <2>4
<1>15. FileEventsOnce'
  BY <1>1 DEF StreamInv, FileEventsOnce
<1> QED BY <1>7, <1>8, <1>5, <1>11, <1>13, <1>14, <1>15 DEF StreamInv

(***************************************************************************)
(* xdp_fw sends a body: the one the last header still owes.                *)
(***************************************************************************)
LEMMA BodyStep == ASSUME StreamInv, SendBody, UNCHANGED govars PROVE StreamInv'
<1> DEFINE rest == batch.bodies
           m    == BodyMsg(batch.type, Head(rest).key, Head(rest).n)
           a    == Append(stream, m)
<1>1. /\ stream' = a /\ Sent(Tail(rest)) /\ uds = "body" /\ client = "live"
      /\ UNCHANGED <<client, conn, go, left, type, files, origin>>
  BY DEF SendBody, SendOk, govars, inbox, metrics
<1>2. /\ IsSeq(stream) /\ left \in Nat /\ IsBatch(batch) /\ IsSeq(rest) /\ rest # <<>>
      /\ batch.type \in {1, 2} /\ (~batch.moved => Distinct(rest))
  BY <1>1 DEF StreamInv, StreamTypes, Snapshot, IsBatch
<1>3. m.kind = "body" /\ m.type = batch.type /\ m.key = Head(rest).key
  BY DEF BodyMsg
<1>4. /\ Len(stream) \in Nat /\ IsSeq(a) /\ Len(a) = Len(stream) + 1
      /\ \A j \in 1..Len(stream) : a[j] = stream[j]
      /\ a[Len(stream) + 1] = m
  BY <1>2, SeqAppend, SeqBasics
<1>5. /\ IsSeq(Tail(rest)) /\ Len(rest) \in Nat \ {0} /\ Len(Tail(rest)) = Len(rest) - 1
      /\ \A k \in 1..(Len(rest) - 1) : Tail(rest)[k] = rest[k + 1]
  BY <1>2, SeqTail
<1>6. Live = TRUE /\ Unsent = rest /\ Coming = Other(batch.type)
  BY <1>1 DEF Live, Unsent, Coming
<1> HIDE DEF a, m, rest
<1>7. ~batch.moved => Distinct(Tail(rest))
  <2> SUFFICES ASSUME ~batch.moved, NEW j \in 1..Len(Tail(rest)), NEW k \in 1..Len(Tail(rest)),
                      Tail(rest)[j].key = Tail(rest)[k].key
               PROVE  j = k
    BY DEF Distinct
  <2>1. j + 1 \in 1..Len(rest) /\ k + 1 \in 1..Len(rest)
        /\ Tail(rest)[j] = rest[j + 1] /\ Tail(rest)[k] = rest[k + 1]
    BY <1>5
  <2>2. j + 1 = k + 1
    BY <1>2, <2>1 DEF Distinct
  <2> QED BY <2>2
<1>8. /\ IsBatch(batch') /\ Snapshot'
      /\ uds' \in {"round", "iterate", "body"}
      /\ Unsent' = Tail(rest) /\ Coming' = Other(batch.type)
      /\ Tail(rest) # <<>> => batch'.type = batch.type /\ batch'.moved = batch.moved
  BY <1>1, <1>2, <1>5, <1>7, SentIs
<1>9. Live' = TRUE
  BY <1>1, <1>8 DEF Live
<1>10. StreamTypes'
  BY <1>1, <1>4, <1>8 DEF StreamInv, StreamTypes
<1>11. Connected'
  BY <1>1 DEF StreamInv, Connected
<1>12. ASSUME NEW i \in Nat, NEW n \in Nat, NEW t, i <= Len(stream),
              Framed(stream, i, n, t, Live, Unsent, batch.type)
       PROVE  i + n # Len(stream) /\ Framed(a, i, n, t, Live', Unsent', batch'.type)
  <2>1. Framed(stream, i, n, t, TRUE, rest, m.type)
    BY <1>3, <1>6, <1>12
  <2>2. i + n # Len(stream)
    BY <1>4, <1>5, <2>1 DEF Framed
  <2>3. Framed(a, i, n, t, Live', Tail(rest), batch'.type)
    BY <1>2, <1>3, <1>8, <1>12, <2>1, FramedBody DEF a
  <2> QED BY <1>8, <2>2, <2>3
<1>13. ASSUME NEW i \in Nat, NEW n \in Nat, NEW t, i + n # Len(stream),
              Follows(stream, i, n, t, Live, Coming)
       PROVE  Follows(a, i, n, t, Live', Coming')
  <2>1. Follows(stream, i, n, t, TRUE, Coming)
    BY <1>6, <1>13
  <2>2. Follows(a, i, n, t, TRUE, Coming)
    BY <1>2, <1>13, <2>1, FollowsBody DEF a
  <2> QED BY <1>6, <1>8, <1>9, <2>2
<1>14. ASSUME NEW i \in Nat, NEW n \in Nat, i <= Len(stream),
              i + n > Len(stream) => ~batch.moved,
              Apart(stream, i, n, Live, Unsent)
       PROVE  Apart(a, i, n, Live', Unsent')
  <2>1. Apart(stream, i, n, TRUE, rest) /\ (i + n > Len(stream) => Distinct(rest))
    BY <1>2, <1>6, <1>14
  <2>2. Apart(a, i, n, Live', Tail(rest))
    BY <1>2, <1>3, <1>14, <2>1, ApartBody DEF a
  <2> QED BY <1>8, <2>2
<1>15. ASSUME NEW i \in Nat, NEW n \in Nat, i + n > Len(a), NEW t,
              Framed(a, i, n, t, Live', Unsent', batch'.type)
       PROVE  batch'.moved = batch.moved /\ i + n > Len(stream)
  <2>1. Framed(a, i, n, t, TRUE, Tail(rest), batch'.type)
    BY <1>8, <1>9, <1>15
  <2>2. /\ i + n > Len(a) /\ i + n >= Len(a) /\ i + n > Len(stream)
        /\ Len(Tail(rest)) \in Nat /\ Len(a) \in Nat
    BY <1>4, <1>5, <1>15
  <2>3. i + n = Len(a) + Len(Tail(rest))
    BY <2>1, <2>2 DEF Framed
  <2>4. Len(Tail(rest)) # 0
    <3> DEFINE k == Len(Tail(rest))
    <3>1. k \in Nat /\ i + n = Len(a) + k
      BY <2>2, <2>3
    <3> HIDE DEF k
    <3>2. k # 0
      BY <1>15, <2>2, <3>1
    <3> QED BY <3>2 DEF k
  <2>5. Tail(rest) # <<>>
    BY <2>4, SeqEmpty
  <2> QED BY <1>8, <2>2, <2>5
<1>16. OnTheWay'
  <2> SUFFICES ASSUME NEW i \in 1..Len(a), a[i].kind = "head"
               PROVE  LET h == a[i] IN
                      /\ h.n \in Nat /\ h.type \in {1, 2}
                      /\ Framed(a, i, h.n, h.type, Live', Unsent', batch'.type)
                      /\ Follows(a, i, h.n, Other(h.type), Live', Coming')
                      /\ ~h.moved => Apart(a, i, h.n, Live', Unsent')
                      /\ Live' /\ i + h.n > Len(a) => h.moved = batch'.moved
    BY <1>1 DEF OnTheWay
  <2>1. i \in 1..Len(stream)
    BY <1>3, <1>4
  <2> DEFINE h == stream[i]
  <2>2. /\ a[i] = h /\ i \in Nat /\ h.n \in Nat /\ h.type \in {1, 2}
        /\ Framed(stream, i, h.n, h.type, Live, Unsent, batch.type)
        /\ Follows(stream, i, h.n, Other(h.type), Live, Coming)
        /\ ~h.moved => Apart(stream, i, h.n, Live, Unsent)
        /\ Live /\ i + h.n > Len(stream) => h.moved = batch.moved
    BY <1>4, <2>1 DEF StreamInv, OnTheWay
  <2> HIDE DEF h
  <2>3. i <= Len(stream)
    BY <2>1
  <2>4. i + h.n # Len(stream) /\ Framed(a, i, h.n, h.type, Live', Unsent', batch'.type)
    BY <1>12, <2>2, <2>3
  <2>5. Follows(a, i, h.n, Other(h.type), Live', Coming')
    BY <1>13, <2>2, <2>4
  <2>6. ~h.moved => Apart(a, i, h.n, Live', Unsent')
    BY <1>6, <1>14, <2>2, <2>3
  <2>7. i + h.n > Len(a) => h.moved = batch'.moved
    BY <1>6, <1>15, <2>2, <2>4
  <2> QED BY <2>2, <2>4, <2>5, <2>6, <2>7
<1>17. 0 \in Nat /\ 0 <= Len(stream) /\ 0 + left = left
  BY <1>2, <1>4
<1>18. ASSUME go # "broken"
       PROVE  /\ Framed(a, 0, left, type, Live', Unsent', batch'.type)
              /\ left > 0 => type \in {1, 2} /\ (type = 1 => files = NoEvents)
              /\ files # NoEvents \/ (left > 0 /\ type = 2) => Follows(a, 0, left, 1, Live', Coming')
  <2>1. /\ Framed(stream, 0, left, type, Live, Unsent, batch.type)
        /\ left > 0 => type \in {1, 2} /\ (type = 1 => files = NoEvents)
        /\ files # NoEvents \/ (left > 0 /\ type = 2) => Follows(stream, 0, left, 1, Live, Coming)
    BY <1>18 DEF StreamInv, Expected
  <2>2. 0 + left # Len(stream) /\ Framed(a, 0, left, type, Live', Unsent', batch'.type)
    BY <1>2, <1>12, <1>17, <2>1
  <2> QED BY <1>2, <1>13, <1>17, <2>1, <2>2
<1>19. Expected'
  BY <1>1, <1>18 DEF Expected, NoEvents
<1>20. Uncounted'
  <2> SUFFICES ASSUME go # "broken", left > 0, type = 2, ~origin.moved[2]
               PROVE  /\ Apart(a, 0, left, Live', Unsent')
                      /\ Live' /\ left > Len(a) => ~batch'.moved
                      /\ \A l \in DOMAIN files : files[l] > 0 => Absent(a, left, Live', Unsent', l[1])
    BY <1>1 DEF Uncounted
  <2>1. /\ Apart(stream, 0, left, Live, Unsent)
        /\ left > Len(stream) => ~batch.moved
        /\ \A l \in DOMAIN files : files[l] > 0 => Absent(stream, left, TRUE, rest, l[1])
    BY <1>6 DEF StreamInv, Uncounted
  <2>2. Apart(a, 0, left, Live', Unsent')
    BY <1>2, <1>14, <1>17, <2>1
  <2>3. left > Len(a) => ~batch'.moved
    BY <1>2, <1>15, <1>17, <1>18, <2>1
  <2>4. \A l \in DOMAIN files : files[l] > 0 => Absent(a, left, Live', Tail(rest), l[1])
    BY <1>2, <1>3, <2>1, AbsentBody DEF a
  <2> QED BY <1>8, <2>2, <2>3, <2>4
<1>21. FileEventsOnce'
  BY <1>1 DEF StreamInv, FileEventsOnce
<1> QED BY <1>8, <1>10, <1>11, <1>16, <1>19, <1>20, <1>21 DEF StreamInv

-----------------------------------------------------------------------------
(***************************************************************************)
(* Go reads.                                                               *)
(***************************************************************************)
LEMMA FramedNone ==
    ASSUME NEW s, IsSeq(s), NEW t, NEW live, NEW rest, NEW bt, IsSeq(rest), NEW t2,
           Framed(s, 0, 0, t, live, rest, bt)
    PROVE  Framed(s, 0, 0, t2, live, rest, bt)
BY SeqBasics DEF Framed

LEMMA AbsentTail ==
    ASSUME NEW s, IsSeq(s), s # <<>>, NEW n \in Nat \ {0}, NEW live, NEW rest, NEW k,
           Absent(s, n, live, rest, k)
    PROVE  Absent(Tail(s), n - 1, live, rest, k)
<1> DEFINE a == Tail(s)
<1>1. /\ Len(s) \in Nat \ {0} /\ Len(a) = Len(s) - 1
      /\ \A j \in 1..Len(a) : a[j] = s[j + 1]
  BY SeqTail
<1> HIDE DEF a
<1>2. \A j \in 1..(n - 1) : j <= Len(a) => a[j].key # k
  <2> SUFFICES ASSUME NEW j \in 1..(n - 1), j <= Len(a) PROVE a[j].key # k
    OBVIOUS
  <2>1. j + 1 \in 1..n /\ j + 1 <= Len(s) /\ a[j] = s[j + 1]
    BY <1>1
  <2> QED BY <2>1 DEF Absent
<1>3. n - 1 > Len(a) => n > Len(s)
  BY <1>1
<1> QED BY <1>2, <1>3 DEF Absent, a

\* the key that is read does not come again
LEMMA ReadKeyAbsent ==
    ASSUME NEW s, IsSeq(s), s # <<>>, NEW n \in Nat \ {0}, NEW live, NEW rest,
           Apart(s, 0, n, live, rest)
    PROVE  Absent(Tail(s), n - 1, live, rest, s[1].key)
<1> DEFINE a == Tail(s)
<1>1. /\ Len(s) \in Nat \ {0} /\ Len(a) = Len(s) - 1
      /\ \A j \in 1..Len(a) : a[j] = s[j + 1]
  BY SeqTail
<1> HIDE DEF a
<1>2. 1 \in (0 + 1)..(0 + n) /\ 1 <= Len(s) /\ 1 \in (0 + 1)..Len(s) /\ 0 + n = n
  BY <1>1
<1>3. \A j \in 1..(n - 1) : j <= Len(a) => a[j].key # s[1].key
  <2> SUFFICES ASSUME NEW j \in 1..(n - 1), j <= Len(a) PROVE a[j].key # s[1].key
    OBVIOUS
  <2>1. j + 1 \in (0 + 1)..(0 + n) /\ j + 1 <= Len(s) /\ a[j] = s[j + 1] /\ j + 1 # 1
    BY <1>1
  <2> QED BY <1>2, <2>1 DEF Apart
<1>4. live /\ n - 1 > Len(a) => \A j \in 1..Len(rest) : rest[j].key # s[1].key
  <2>1. n - 1 > Len(a) => n > Len(s)
    BY <1>1
  <2> QED BY <1>2, <2>1 DEF Apart
<1> QED BY <1>3, <1>4 DEF Absent, a

LEMMA OnTheWayTail ==
    ASSUME OnTheWay, IsSeq(stream), stream # <<>>, IsSeq(Unsent), stream' = Tail(stream),
           UNCHANGED <<client, uds, batch>>
    PROVE  OnTheWay'
<1> DEFINE a == Tail(stream)
<1>1. /\ Len(stream) \in Nat \ {0} /\ Len(a) = Len(stream) - 1
      /\ \A j \in 1..Len(a) : a[j] = stream[j + 1]
  BY SeqTail
<1>2. Live' = Live /\ Unsent' = Unsent /\ Coming' = Coming
  BY DEF Live, Unsent, Coming
<1> SUFFICES ASSUME NEW i \in 1..Len(a), a[i].kind = "head"
             PROVE  LET h == a[i] IN
                    /\ h.n \in Nat /\ h.type \in {1, 2}
                    /\ Framed(a, i, h.n, h.type, Live, Unsent, batch.type)
                    /\ Follows(a, i, h.n, Other(h.type), Live, Coming)
                    /\ ~h.moved => Apart(a, i, h.n, Live, Unsent)
                    /\ Live /\ i + h.n > Len(a) => h.moved = batch.moved
  BY <1>2 DEF OnTheWay
<1> DEFINE h == stream[i + 1]
<1>3. a[i] = h /\ i \in Nat /\ i + 1 \in 1..Len(stream)
  BY <1>1
<1>4. /\ h.n \in Nat /\ h.type \in {1, 2}
      /\ Framed(stream, i + 1, h.n, h.type, Live, Unsent, batch.type)
      /\ Follows(stream, i + 1, h.n, Other(h.type), Live, Coming)
      /\ ~h.moved => Apart(stream, i + 1, h.n, Live, Unsent)
      /\ Live /\ i + 1 + h.n > Len(stream) => h.moved = batch.moved
  BY <1>3 DEF OnTheWay
<1> HIDE DEF h
<1>5. Framed(a, i, h.n, h.type, Live, Unsent, batch.type)
  BY <1>3, <1>4, FramedTail
<1>6. Follows(a, i, h.n, Other(h.type), Live, Coming)
  BY <1>3, <1>4, FollowsTail
<1>7. ~h.moved => Apart(a, i, h.n, Live, Unsent)
  BY <1>3, <1>4, ApartTail
<1>8. Live /\ i + h.n > Len(a) => h.moved = batch.moved
  BY <1>1, <1>3, <1>4
<1> QED BY <1>3, <1>4, <1>5, <1>6, <1>7, <1>8

\* What every read leaves alone.
LEMMA Consumed ==
    ASSUME StreamInv, Consume, UNCHANGED cpp, stream # <<>>
    PROVE  /\ IsSeq(stream) /\ IsSeq(stream') /\ stream' = Tail(stream) /\ IsSeq(Unsent)
           /\ Len(stream) \in Nat \ {0} /\ Len(stream') = Len(stream) - 1
           /\ Head(stream) = stream[1] /\ left \in Nat /\ IsBatch(batch')
           /\ UNCHANGED <<client, conn, uds, batch>>
           /\ Live' = Live /\ Unsent' = Unsent /\ Coming' = Coming
           /\ OnTheWay' /\ Snapshot'
<1>1. stream' = Tail(stream) /\ UNCHANGED <<client, conn, uds, batch>>
  BY DEF Consume, cpp
<1>2. IsSeq(stream) /\ IsSeq(Unsent) /\ left \in Nat /\ IsBatch(batch)
  BY SeqEmpty DEF StreamInv, StreamTypes, IsBatch, Unsent
<1>3. Live' = Live /\ Unsent' = Unsent /\ Coming' = Coming
  BY <1>1 DEF Live, Unsent, Coming
<1>4. OnTheWay'
  BY <1>1, <1>2, OnTheWayTail DEF StreamInv
<1>5. Snapshot'
  BY <1>1 DEF StreamInv, Snapshot
<1> QED BY <1>1, <1>2, <1>3, <1>4, <1>5, SeqTail

\* A header: there is one, and one of file events finds the counters reset.
LEMMA ReadHeaderStep == ASSUME StreamInv, ReadHeader, UNCHANGED cpp PROVE StreamInv'
<1> DEFINE h == stream[1]
           a == Tail(stream)
<1>1. go = "read" /\ stream # <<>> /\ Consume
  BY DEF ReadHeader, Reading
<1>2. /\ IsSeq(stream) /\ IsSeq(stream') /\ stream' = a /\ IsSeq(Unsent)
      /\ Len(stream) \in Nat \ {0} /\ Len(a) = Len(stream) - 1
      /\ Head(stream) = h /\ left \in Nat /\ IsBatch(batch')
      /\ UNCHANGED <<client, conn, uds, batch>>
      /\ Live' = Live /\ Unsent' = Unsent /\ Coming' = Coming
      /\ OnTheWay' /\ Snapshot'
  BY <1>1, Consumed
<1>3. left = 0
  BY <1>1, <1>2 DEF StreamInv, Connected
<1>4. /\ Framed(stream, 0, 0, type, Live, Unsent, batch.type)
      /\ files # NoEvents => Follows(stream, 0, 0, 1, Live, Coming)
  BY <1>1, <1>3 DEF StreamInv, Expected
<1>5. h.kind = "head" /\ (files # NoEvents => h.type = 1)
  BY <1>2, <1>4 DEF Framed, Follows
<1>6. /\ h.n \in Nat /\ h.type \in {1, 2}
      /\ Framed(stream, 0 + 1, h.n, h.type, Live, Unsent, batch.type)
      /\ Follows(stream, 0 + 1, h.n, Other(h.type), Live, Coming)
      /\ ~h.moved => Apart(stream, 0 + 1, h.n, Live, Unsent)
      /\ Live /\ 1 + h.n > Len(stream) => h.moved = batch.moved
  BY <1>2, <1>5 DEF StreamInv, OnTheWay
<1>7. /\ type' = (IF h.n > 0 THEN h.type ELSE 0) /\ left' = h.n
      /\ IF h.type = 1 THEN ResetMetrics ELSE UNCHANGED <<gauge, files>>
      /\ origin' = IF h.type = 1 THEN [floor |-> h.floor, moved |-> <<h.moved, FALSE>>]
                                 ELSE [origin EXCEPT !.moved[2] = h.moved]
      /\ go' = IF h.n > 0 THEN "body" ELSE "test"
  BY <1>2, <1>5 DEF ReadHeader
<1> HIDE DEF h, a
<1>8. files' = NoEvents
  BY <1>5, <1>6, <1>7 DEF ResetMetrics, NoEvents
<1>9. DOMAIN origin' = {"floor", "moved"} /\ 2 \in DOMAIN origin'.moved
  <2>1. CASE h.type = 1
    BY <1>7, <2>1
  <2>2. CASE h.type = 2
    <3>1. DOMAIN origin = {"floor", "moved"} /\ 2 \in DOMAIN origin.moved
      BY DEF StreamInv, StreamTypes
    <3>2. origin' = [origin EXCEPT !.moved[2] = h.moved]
      BY <1>7, <2>2
    <3> QED BY <3>1, <3>2
  <2> QED BY <1>6, <2>1, <2>2
<1>10. h.type = 2 => origin'.moved[2] = h.moved
  <2>1. DOMAIN origin = {"floor", "moved"} /\ 2 \in DOMAIN origin.moved
    BY DEF StreamInv, StreamTypes
  <2> QED BY <1>7, <2>1
<1>11. StreamTypes'
  <2>1. files' \in [FileKeys \X (1..MaxCount) -> Nat]
    BY <1>8 DEF NoEvents
  <2> QED BY <1>2, <1>6, <1>7, <1>9, <2>1 DEF StreamTypes
<1>12. Connected'
  <2>1. go' \in {"body", "test"} /\ (go' = "body" <=> left' > 0)
    BY <1>6, <1>7
  <2>2. conn = "served"
    BY <1>1 DEF StreamInv, Connected
  <2> QED BY <1>2, <2>1, <2>2 DEF Connected
<1>13. Framed(a, 0, h.n, h.type, Live, Unsent, batch.type)
  BY <1>1, <1>2, <1>6, FramedTail DEF a
<1>14. Framed(a, 0, h.n, type', Live, Unsent, batch.type)
  <2>1. CASE h.n = 0
    BY <1>2, <1>13, <2>1, FramedNone
  <2>2. CASE h.n > 0
    BY <1>7, <1>13, <2>2
  <2> QED BY <1>6, <2>1, <2>2
<1>15. h.type = 2 => Follows(a, 0, h.n, 1, Live, Coming)
  BY <1>1, <1>2, <1>6, FollowsTail DEF Other, a
<1>16. Expected'
  <2>1. left' > 0 => type' \in {1, 2} /\ (type' = 1 => files' = NoEvents)
    BY <1>6, <1>7, <1>8
  <2>2. files' # NoEvents \/ (left' > 0 /\ type' = 2) => Follows(a, 0, h.n, 1, Live, Coming)
    BY <1>6, <1>7, <1>8, <1>15
  <2> QED BY <1>2, <1>7, <1>14, <2>1, <2>2 DEF Expected, NoEvents
<1>17. Uncounted'
  <2> SUFFICES ASSUME left' > 0, type' = 2, ~origin'.moved[2]
               PROVE  /\ Apart(a, 0, h.n, Live, Unsent)
                      /\ Live /\ h.n > Len(a) => ~batch.moved
                      /\ \A l \in DOMAIN files' : ~(files'[l] > 0)
    BY <1>2, <1>7 DEF Uncounted
  <2>1. h.type = 2 /\ ~h.moved
    BY <1>6, <1>7, <1>10
  <2>2. Apart(a, 0, h.n, Live, Unsent)
    BY <1>1, <1>2, <1>6, <2>1, ApartTail DEF a
  <2>3. Live /\ h.n > Len(a) => ~batch.moved
    BY <1>2, <1>6, <2>1
  <2> QED BY <1>8, <2>2, <2>3 DEF NoEvents
<1>18. FileEventsOnce'
  BY <1>8 DEF FileEventsOnce, NoEvents
<1> QED BY <1>2, <1>11, <1>12, <1>16, <1>17, <1>18 DEF StreamInv

\* A risk count: no file event is counted meanwhile.
LEMMA ReadRiskStep == ASSUME StreamInv, ReadRisk, UNCHANGED cpp PROVE StreamInv'
<1> DEFINE a == Tail(stream)
<1>1. /\ go = "body" /\ stream # <<>> /\ Consume /\ type = 1
      /\ left' = left - 1 /\ UNCHANGED <<files, origin>>
      /\ type' = IF left = 1 THEN 0 ELSE 1
      /\ go' = IF left = 1 THEN "set" ELSE "body"
  BY DEF ReadRisk, Reading, metrics
<1>2. /\ IsSeq(stream) /\ IsSeq(stream') /\ stream' = a /\ IsSeq(Unsent)
      /\ Len(stream) \in Nat \ {0} /\ left \in Nat /\ IsBatch(batch')
      /\ UNCHANGED <<client, conn, uds, batch>>
      /\ Live' = Live /\ Unsent' = Unsent /\ Coming' = Coming
      /\ OnTheWay' /\ Snapshot'
  BY <1>1, Consumed
<1> HIDE DEF a
<1>3. left \in Nat \ {0} /\ left - 1 \in Nat /\ (left - 1 = 0 <=> left = 1)
  BY <1>1, <1>2 DEF StreamInv, Connected
<1>4. files = NoEvents /\ Framed(stream, 0, left, 1, Live, Unsent, batch.type)
  BY <1>1, <1>3 DEF StreamInv, Expected
<1>5. Framed(a, 0, left - 1, 1, Live, Unsent, batch.type)
  BY <1>1, <1>2, <1>3, <1>4, BodyRead, FramedTail DEF a
<1>6. Framed(a, 0, left - 1, type', Live, Unsent, batch.type)
  BY <1>1, <1>2, <1>3, <1>5, FramedNone
<1>7. StreamTypes'
  BY <1>1, <1>2, <1>3 DEF StreamInv, StreamTypes
<1>8. Connected'
  <2>1. conn = "served"
    BY <1>1 DEF StreamInv, Connected
  <2> QED BY <1>1, <1>2, <1>3, <2>1 DEF Connected
<1>9. Expected' /\ Uncounted'
  BY <1>1, <1>2, <1>3, <1>4, <1>6 DEF Expected, Uncounted, NoEvents
<1>10. FileEventsOnce'
  BY <1>1 DEF StreamInv, FileEventsOnce
<1> QED BY <1>2, <1>7, <1>8, <1>9, <1>10 DEF StreamInv

\* A file event: its series is not counted yet and does not come again.
LEMMA ReadFileStep == ASSUME StreamInv, ReadFile, UNCHANGED cpp PROVE StreamInv'
<1> DEFINE a == Tail(stream)
           b == stream[1]
<1>1. /\ go = "body" /\ stream # <<>> /\ Consume /\ type = 2
      /\ left' = left - 1 /\ UNCHANGED origin
      /\ files' = [files EXCEPT ![<<Head(stream).key, Head(stream).n>>] = @ + 1]
      /\ type' = IF left = 1 THEN 0 ELSE 2
      /\ go' = IF left = 1 THEN "test" ELSE "body"
  BY DEF ReadFile, Reading
<1>2. /\ IsSeq(stream) /\ IsSeq(stream') /\ stream' = a /\ IsSeq(Unsent)
      /\ Len(stream) \in Nat \ {0} /\ Len(a) = Len(stream) - 1
      /\ Head(stream) = b /\ left \in Nat /\ IsBatch(batch')
      /\ UNCHANGED <<client, conn, uds, batch>>
      /\ Live' = Live /\ Unsent' = Unsent /\ Coming' = Coming
      /\ OnTheWay' /\ Snapshot'
  BY <1>1, Consumed
<1> HIDE DEF a, b
<1>3. /\ left \in Nat \ {0} /\ left - 1 \in Nat /\ (left - 1 = 0 <=> left = 1)
      /\ files \in [FileKeys \X (1..MaxCount) -> Nat]
  BY <1>1, <1>2 DEF StreamInv, Connected, StreamTypes
<1>4. /\ Framed(stream, 0, left, 2, Live, Unsent, batch.type)
      /\ Follows(stream, 0, left, 1, Live, Coming)
  BY <1>1, <1>3 DEF StreamInv, Expected
<1>5. Framed(a, 0, left - 1, 2, Live, Unsent, batch.type)
  BY <1>1, <1>2, <1>3, <1>4, BodyRead, FramedTail DEF a
<1>6. Framed(a, 0, left - 1, type', Live, Unsent, batch.type)
  BY <1>1, <1>2, <1>3, <1>5, FramedNone
<1>7. Follows(a, 0, left - 1, 1, Live, Coming)
  BY <1>1, <1>2, <1>3, <1>4, BodyRead, FollowsTail DEF a
<1>8. /\ files' \in [FileKeys \X (1..MaxCount) -> Nat]
      /\ \A l \in DOMAIN files : files'[l] = IF l = <<b.key, b.n>> THEN files[l] + 1 ELSE files[l]
      /\ DOMAIN files' = DOMAIN files
  <2> DEFINE x == <<b.key, b.n>>
             D == FileKeys \X (1..MaxCount)
  <2>1. files' = [files EXCEPT ![x] = @ + 1] /\ files \in [D -> Nat]
    BY <1>1, <1>2, <1>3
  <2> HIDE DEF x, D
  <2>2. /\ DOMAIN files' = D /\ DOMAIN files = D
        /\ \A l \in D : files'[l] = IF l = x THEN files[l] + 1 ELSE files[l]
    BY <2>1
  <2>3. \A l \in D : files'[l] \in Nat
    BY <2>1, <2>2
  <2>4. files' \in [D -> Nat]
    BY <2>1, <2>2, <2>3
  <2> QED BY <2>2, <2>4 DEF x, D
<1>9. StreamTypes'
  BY <1>1, <1>2, <1>3, <1>8 DEF StreamInv, StreamTypes
<1>10. Connected'
  <2>1. conn = "served"
    BY <1>1 DEF StreamInv, Connected
  <2> QED BY <1>1, <1>2, <1>3, <2>1 DEF Connected
<1>11. Expected'
  BY <1>1, <1>2, <1>3, <1>6, <1>7 DEF Expected
<1>12. ASSUME ~origin.moved[2]
       PROVE  /\ Apart(stream, 0, left, Live, Unsent)
              /\ Live /\ left > Len(stream) => ~batch.moved
              /\ \A l \in DOMAIN files : files[l] > 0 => Absent(stream, left, Live, Unsent, l[1])
  BY <1>1, <1>3, <1>12 DEF StreamInv, Uncounted
<1>13. Uncounted'
  <2> SUFFICES ASSUME ~origin.moved[2]
               PROVE  /\ Apart(a, 0, left - 1, Live, Unsent)
                      /\ Live /\ left - 1 > Len(a) => ~batch.moved
                      /\ \A l \in DOMAIN files' :
                            files'[l] > 0 => Absent(a, left - 1, Live, Unsent, l[1])
    BY <1>1, <1>2 DEF Uncounted
  <2>1. Apart(a, 0, left - 1, Live, Unsent)
    BY <1>1, <1>2, <1>3, <1>12, BodyRead, ApartTail DEF a
  <2>2. Live /\ left - 1 > Len(a) => ~batch.moved
    <3>1. left - 1 > Len(a) => left > Len(stream)
      BY <1>2, <1>3
    <3>2. Live /\ left > Len(stream) => ~batch.moved
      BY <1>12
    <3> QED BY <3>1, <3>2
  <2>3. Absent(a, left - 1, Live, Unsent, b.key)
    BY <1>1, <1>2, <1>3, <1>12, ReadKeyAbsent DEF a, b
  <2>4. ASSUME NEW l \in DOMAIN files', files'[l] > 0
        PROVE  Absent(a, left - 1, Live, Unsent, l[1])
    <3>1. CASE l = <<b.key, b.n>>
      BY <2>3, <3>1
    <3>2. CASE l # <<b.key, b.n>>
      <4>1. files[l] > 0 /\ l \in DOMAIN files
        BY <1>8, <2>4, <3>2
      <4>2. Absent(stream, left, Live, Unsent, l[1])
        BY <1>12, <4>1
      <4> QED BY <1>1, <1>2, <1>3, <4>2, AbsentTail DEF a
    <3> QED BY <3>1, <3>2
  <2> QED BY <2>1, <2>2, <2>4
<1>14. FileEventsOnce'
  <2> SUFFICES ASSUME ~origin.moved[2], NEW l \in DOMAIN files PROVE files'[l] <= 1
    BY <1>1, <1>8 DEF FileEventsOnce
  <2>1. files[l] \in Nat /\ files[l] <= 1
    BY <1>3 DEF StreamInv, FileEventsOnce
  <2>2. l = <<b.key, b.n>> => files[l] = 0
    <3> SUFFICES ASSUME l = <<b.key, b.n>>, files[l] > 0 PROVE FALSE
      BY <2>1
    <3>1. Absent(stream, left, Live, Unsent, l[1])
      BY <1>12
    <3>2. l[1] = stream[1].key /\ 1 \in 1..left /\ 1 <= Len(stream)
      BY <1>2, <1>3 DEF b
    <3> QED BY <3>1, <3>2 DEF Absent
  <2> QED BY <1>8, <2>1, <2>2
<1> QED BY <1>2, <1>9, <1>10, <1>11, <1>13, <1>14 DEF StreamInv

-----------------------------------------------------------------------------
(***************************************************************************)
(* Connections come and go.                                                *)
(***************************************************************************)
\* Go closes its connection: what was on it is lost.
LEMMA DisconnectStep ==
    ASSUME StreamInv, Disconnect, UNCHANGED <<left, type, files, origin, uds, batch>>,
           go' = go \/ go' \in {"redial", "exited"}, go' = "redial" \/ go # "broken" \/ go' = go,
           go' # go => go # "body"
    PROVE  StreamInv'
<1>1. /\ stream' = <<>> /\ conn' = "closed" /\ client' # "live" /\ left \in Nat
      /\ IsSeq(<<>>) /\ Len(<<>>) = 0
  BY SeqEmpty DEF Disconnect, CutOff, StreamInv, StreamTypes
<1>2. Live' = FALSE
  BY <1>1 DEF Live
<1>3. StreamTypes' /\ Snapshot'
  BY <1>1 DEF StreamInv, StreamTypes, Snapshot
<1>4. Connected'
  BY <1>1 DEF StreamInv, Connected
<1>5. OnTheWay'
  BY <1>1 DEF OnTheWay
<1>6. go # "broken" \/ left = 0
  BY <1>1 DEF StreamInv, Connected
<1>7. Expected'
  <2> SUFFICES ASSUME go' # "broken"
               PROVE  /\ Framed(<<>>, 0, left, type, FALSE, Unsent', batch'.type)
                      /\ left > 0 => type \in {1, 2} /\ (type = 1 => files = NoEvents)
                      /\ Follows(<<>>, 0, left, 1, FALSE, Coming')
    BY <1>1, <1>2 DEF Expected, NoEvents
  <2>1. left > 0 => type \in {1, 2} /\ (type = 1 => files = NoEvents)
    BY <1>1, <1>6 DEF StreamInv, Expected
  <2> QED BY <1>1, <2>1, NothingSent
<1>8. Uncounted'
  <2> SUFFICES /\ Apart(<<>>, 0, left, FALSE, Unsent')
               /\ \A l \in DOMAIN files : Absent(<<>>, left, FALSE, Unsent', l[1])
    BY <1>1, <1>2 DEF Uncounted
  <2> QED BY <1>1, NothingSent
<1>9. FileEventsOnce'
  BY DEF StreamInv, FileEventsOnce
<1> QED BY <1>3, <1>4, <1>5, <1>7, <1>8, <1>9 DEF StreamInv

\* xdp_fw accepts a connection: a live one is new on both sides.
LEMMA AcceptStep == ASSUME StreamInv, AcceptClient, UNCHANGED govars PROVE StreamInv'
<1>1. /\ uds' = "round" /\ UNCHANGED <<stream, batch, go, left, type, files, origin>>
      /\ \/ conn = "queued" /\ conn' = "served" /\ client' = "live"
         \/ client' = "dead" /\ UNCHANGED conn
  BY DEF AcceptClient, Accept, Uds, govars, inbox, metrics
<1>2. IsBatch(batch') /\ Snapshot' /\ Connected'
  BY <1>1 DEF StreamInv, StreamTypes, Snapshot, Connected
<1>3. CASE client' = "dead"
  <2>1. ~Live'
    BY <1>3 DEF Live
  <2> QED BY <1>1, <1>2, <2>1, SameWire
<1>4. CASE conn = "queued" /\ client' = "live"
  <2>1. stream = <<>> /\ left = 0 /\ Len(<<>>) = 0
    BY <1>4, SeqEmpty DEF StreamInv, Connected
  <2>2. Unsent' = <<>> /\ Coming' = 1
    BY <1>1 DEF Unsent, Coming
  <2>3. StreamTypes' /\ FileEventsOnce' /\ OnTheWay' /\ Uncounted'
    BY <1>1, <2>1 DEF StreamInv, StreamTypes, FileEventsOnce, OnTheWay, Uncounted
  <2>4. Expected'
    <3>1. Framed(<<>>, 0, 0, type, Live', <<>>, batch.type) /\ Follows(<<>>, 0, 0, 1, Live', 1)
      BY <2>1 DEF Framed, Follows
    <3> QED BY <1>1, <2>1, <2>2, <3>1 DEF Expected
  <2> QED BY <1>2, <2>3, <2>4 DEF StreamInv
<1> QED BY <1>1, <1>3, <1>4

\* Go gives a connection up: nothing more is read from it.
LEMMA ReadFailsStep == ASSUME StreamInv, ReadFails, UNCHANGED cpp PROVE StreamInv'
<1>1. /\ go' = "broken" /\ left' = 0
      /\ UNCHANGED <<stream, conn, client, uds, batch, files, origin>>
  BY DEF ReadFails, Go, metrics, cpp
<1>2. StreamTypes' /\ Connected' /\ Snapshot' /\ FileEventsOnce'
  BY <1>1 DEF StreamInv, StreamTypes, Connected, Snapshot, FileEventsOnce
<1>3. Live' = Live /\ Unsent' = Unsent /\ Coming' = Coming
  BY <1>1 DEF Live, Unsent, Coming
<1>4. OnTheWay'
  BY <1>1, <1>3 DEF StreamInv, OnTheWay
<1>5. Expected' /\ Uncounted'
  BY <1>1 DEF Expected, Uncounted
<1> QED BY <1>2, <1>4, <1>5 DEF StreamInv

\* Go ends with its metrics server: nothing is read any more.
LEMMA ServeFatalStep == ASSUME StreamInv, ServeFatal, UNCHANGED cpp PROVE StreamInv'
<1>1. /\ go' = "fatal" /\ left' = 0 /\ stream' = <<>> /\ conn' = "closed" /\ client' # "live"
      /\ UNCHANGED <<uds, batch, files, origin>>
      /\ IsSeq(<<>>) /\ Len(<<>>) = 0
  BY SeqEmpty DEF ServeFatal, CutOff, metrics, cpp
<1>2. StreamTypes' /\ Connected' /\ Snapshot' /\ FileEventsOnce'
  BY <1>1 DEF StreamInv, StreamTypes, Connected, Snapshot, FileEventsOnce
<1>3. OnTheWay' /\ Uncounted'
  BY <1>1 DEF OnTheWay, Uncounted
<1>4. Live' = FALSE
  BY <1>1 DEF Live
<1>5. Expected'
  <2>1. Framed(stream', 0, left', type', Live', Unsent', batch'.type)
    BY <1>1, <1>4 DEF Framed
  <2>2. Follows(stream', 0, left', 1, Live', Coming')
    BY <1>1, <1>4 DEF Follows
  <2>3. ~(left' > 0)
    BY <1>1
  <2> QED BY <2>1, <2>2, <2>3 DEF Expected, NoEvents
<1> QED BY <1>2, <1>3, <1>5 DEF StreamInv

(***************************************************************************)
(* The UDS thread.                                                         *)
(***************************************************************************)
LEMMA UdsFrames == ASSUME StreamInv, UdsThread, UNCHANGED govars PROVE StreamInv'
<1>1. /\ UNCHANGED <<left, type, files, origin, go>> /\ (go' = "broken" \/ go # "broken")
      /\ IsBatch(batch) /\ Connected /\ Snapshot
  BY DEF govars, inbox, metrics, StreamInv, StreamTypes
<1>2. ASSUME UNCHANGED <<stream, client, conn, batch>>,
             uds' \notin {"round", "iterate", "head", "body"}
      PROVE  StreamInv'
  <2>1. ~Live' /\ Snapshot' /\ Connected' /\ IsBatch(batch')
    BY <1>1, <1>2 DEF Live, Snapshot, Connected
  <2> QED BY <1>1, <1>2, <2>1, SameWire
<1>3. CASE StartUds BY <1>2, <1>3 DEF StartUds, Uds, kernel
<1>4. CASE CreateSocket BY <1>2, <1>4 DEF CreateSocket, Uds
<1>5. CASE PublishFd BY <1>2, <1>5 DEF PublishFd, Uds, kernel
<1>6. CASE TestRunning BY <1>2, <1>6 DEF TestRunning, Uds, kernel
<1>7. CASE AcceptClient BY <1>7, AcceptStep
<1>8. CASE AcceptFails BY <1>2, <1>8 DEF AcceptFails, Uds
<1>9. CASE CloseServer
  <2>1. /\ UNCHANGED <<stream, client, batch>> /\ uds' = "forget"
        /\ conn' = IF conn = "queued" THEN "served" ELSE conn
    BY <1>9 DEF CloseServer, CloseListener, Uds
  <2>2. ~Live' /\ Snapshot' /\ Connected' /\ IsBatch(batch')
    BY <1>1, <2>1 DEF Live, Snapshot, Connected
  <2> QED BY <1>1, <2>1, <2>2, SameWire
<1>10. CASE ForgetFd BY <1>2, <1>10 DEF ForgetFd, Uds, kernel
<1>11. CASE Round
  <2>1. UNCHANGED <<stream, client, conn>> /\ uds = "round"
    BY <1>11 DEF Round, Uds, kernel
  <2>2. Connected'
    BY <1>1, <2>1 DEF Connected
  <2>3. CASE uds' = "iterate" /\ Begin(1)
    <3>1. IsBatch(batch') /\ Snapshot' /\ batch'.type = 1
      BY <2>3, BeginIs, BeginSnapshot
    <3>2. (Live' => Live) /\ Unsent' = <<>> /\ Unsent = <<>> /\ Coming' = Coming
      BY <2>1, <2>3, <3>1 DEF Live, Unsent, Coming
    <3> QED BY <1>1, <2>1, <2>2, <3>1, <3>2, SameWire
  <2>4. CASE uds' = "hangup" /\ UNCHANGED batch
    BY <1>2, <2>1, <2>4
  <2> QED BY <1>11, <2>3, <2>4 DEF Round, Uds
<1>12. ASSUME NEW k \in Keys, Visit(k) PROVE StreamInv'
  <2> DEFINE e == [key |-> k, n |-> counts[k]]
  <2>1. /\ UNCHANGED <<stream, client, conn>> /\ uds = "iterate" /\ uds' = "iterate"
        /\ batch.visits[k] < (IF batch.moved THEN MaxVisits ELSE 1)
        /\ batch' = [batch EXCEPT !.visits[k] = @ + 1, !.bodies = Append(@, e)]
    BY <1>12 DEF Visit, Uds, kernel
  <2>2. e.key = k
    OBVIOUS
  <2> HIDE DEF e
  <2>3. /\ batch'.visits = [batch.visits EXCEPT ![k] = @ + 1]
        /\ batch'.bodies = Append(batch.bodies, e)
        /\ batch'.type = batch.type /\ batch'.moved = batch.moved
        /\ batch' = [type |-> batch'.type, visits |-> batch'.visits, must |-> batch'.must,
                     bodies |-> batch'.bodies, moved |-> batch'.moved, floor |-> batch'.floor]
    BY <1>1, <2>1 DEF IsBatch
  <2>4. /\ IsSeq(batch.bodies) /\ Len(batch.bodies) \in Nat
        /\ IsSeq(batch'.bodies) /\ Len(batch'.bodies) = Len(batch.bodies) + 1
        /\ \A j \in 1..Len(batch.bodies) : batch'.bodies[j] = batch.bodies[j]
        /\ batch'.bodies[Len(batch.bodies) + 1] = e
    BY <1>1, <2>3, SeqAppend, SeqBasics DEF IsBatch
  <2>5. /\ batch.visits \in [Keys -> Nat] /\ batch'.visits \in [Keys -> Nat]
        /\ batch'.visits[k] > 0
        /\ \A j \in Keys : batch.visits[j] > 0 => batch'.visits[j] > 0
    BY <1>1, <2>3 DEF IsBatch
  <2>6. IsBatch(batch')
    BY <1>1, <2>3, <2>4, <2>5 DEF IsBatch
  <2>7. \A j \in 1..Len(batch'.bodies) : j \in 1..Len(batch.bodies) \/ j = Len(batch.bodies) + 1
    BY <2>4
  <2>8. \A j \in 1..Len(batch.bodies) : batch.visits[batch.bodies[j].key] > 0
    BY <1>1, <2>1 DEF Snapshot
  <2>9. ASSUME ~batch.moved PROVE Distinct(batch'.bodies)
    <3>1. batch.visits[k] = 0
      BY <2>1, <2>5, <2>9
    <3>2. \A j \in 1..Len(batch.bodies) : batch.bodies[j].key # k
      BY <2>8, <3>1
    <3>3. Distinct(batch.bodies)
      BY <1>1, <2>1, <2>9 DEF Snapshot
    <3> QED BY <2>2, <2>4, <2>7, <3>2, <3>3 DEF Distinct
  <2>10. \A j \in 1..Len(batch'.bodies) : batch'.visits[batch'.bodies[j].key] > 0
    <3> SUFFICES ASSUME NEW j \in 1..Len(batch'.bodies)
                 PROVE  batch'.visits[batch'.bodies[j].key] > 0
      OBVIOUS
    <3>1. CASE j = Len(batch.bodies) + 1
      BY <2>2, <2>4, <2>5, <3>1
    <3>2. CASE j \in 1..Len(batch.bodies)
      <4> DEFINE x == batch.bodies[j].key
      <4>1. batch'.bodies[j].key = x /\ batch.visits[x] > 0
        BY <2>4, <2>8, <3>2
      <4> HIDE DEF x
      <4>2. batch'.visits[x] > 0
        BY <2>3, <2>5, <4>1
      <4> QED BY <4>1, <4>2
    <3> QED BY <2>7, <3>1, <3>2
  <2>11. Snapshot' /\ Connected'
    BY <1>1, <2>1, <2>3, <2>9, <2>10 DEF Snapshot, Connected
  <2>12. (Live' => Live) /\ Unsent' = <<>> /\ Unsent = <<>> /\ Coming' = Coming
    BY <2>1, <2>3 DEF Live, Unsent, Coming
  <2> QED BY <1>1, <2>1, <2>6, <2>11, <2>12, SameWire
<1>13. CASE IterationOver
  <2>1. UNCHANGED <<stream, client, conn, batch>> /\ uds = "iterate" /\ uds' = "head"
    BY <1>13 DEF IterationOver, Uds, kernel
  <2>2. Snapshot' /\ Connected' /\ IsBatch(batch')
    BY <1>1, <2>1 DEF Snapshot, Connected
  <2>3. (Live' => Live) /\ Unsent' = Unsent /\ Unsent = <<>> /\ Coming' = Coming
    BY <2>1 DEF Live, Unsent, Coming
  <2> QED BY <1>1, <2>1, <2>2, <2>3, SameWire
<1>14. CASE SendHead BY <1>14, HeadStep
<1>15. CASE SendBody BY <1>15, BodyStep
<1>16. CASE SendFailed BY <1>2, <1>16 DEF SendFailed, Uds
<1>17. CASE CloseClient
  <2>1. UNCHANGED <<stream, conn>> /\ client' = "none" /\ batch' = NoBatch /\ uds' = "test"
    BY <1>17 DEF CloseClient, HangUp, Uds
  <2>2. ~Live' /\ Snapshot' /\ Connected' /\ IsBatch(batch')
    BY <1>1, <2>1, NoBatchIs DEF Live, Snapshot, Connected
  <2> QED BY <1>1, <2>1, <2>2, SameWire
<1> QED
  BY <1>3, <1>4, <1>5, <1>6, <1>7, <1>8, <1>9, <1>10, <1>11, <1>12, <1>13, <1>14, <1>15,
     <1>16, <1>17 DEF UdsThread

(***************************************************************************)
(* The writers of the maps, stop() and the end of the process.             *)
(***************************************************************************)
LEMMA WritersFrame ==
    ASSUME StreamInv, UNCHANGED govars,
           (\E k \in RiskKeys : RiskUpdate(k)) \/ (\E k \in FileKeys : KsmEvent(k)) \/ KsmReadFails
    PROVE  StreamInv'
<1>1. /\ UNCHANGED <<left, type, files, origin, go, stream, client, conn, uds>>
      /\ go' = "broken" \/ go # "broken"
      /\ IsBatch(batch) /\ Connected /\ Snapshot
  BY DEF govars, inbox, metrics, StreamInv, StreamTypes, RiskUpdate, KsmEvent, KsmReadFails, kernel
<1>2. \/ batch' = batch
      \/ \E k : batch' = [batch EXCEPT !.moved = @ \/ (uds = "iterate" /\ k \in KeysOf(batch.type))]
  BY DEF RiskUpdate, KsmEvent, KsmReadFails, Count
<1>3. /\ IsBatch(batch') /\ batch'.bodies = batch.bodies /\ batch'.type = batch.type
      /\ batch'.visits = batch.visits
      /\ batch.moved => batch'.moved
      /\ uds # "iterate" => batch'.moved = batch.moved
  <2>1. CASE batch' = batch
    BY <1>1, <2>1
  <2>2. CASE \E k : batch' = [batch EXCEPT !.moved =
                  @ \/ (uds = "iterate" /\ k \in KeysOf(batch.type))]
    <3>1. PICK k : batch' = [batch EXCEPT !.moved =
                  @ \/ (uds = "iterate" /\ k \in KeysOf(batch.type))]
      BY <2>2
    <3> DEFINE g == batch.moved \/ (uds = "iterate" /\ k \in KeysOf(batch.type))
    <3>2. batch' = [batch EXCEPT !.moved = g]
      BY <3>1
    <3>3. /\ g \in BOOLEAN /\ batch.moved \in BOOLEAN
          /\ batch.moved => g
          /\ uds # "iterate" => g = batch.moved
      BY <1>1 DEF IsBatch
    <3> HIDE DEF g
    <3>4. /\ IsBatch(batch') /\ batch'.moved = g
          /\ batch'.bodies = batch.bodies /\ batch'.type = batch.type
          /\ batch'.visits = batch.visits
      BY <1>1, <3>2, <3>3 DEF IsBatch
    <3> QED BY <3>3, <3>4
  <2> QED BY <1>2, <2>1, <2>2
<1>4. Connected' /\ Snapshot'
  BY <1>1, <1>3 DEF Connected, Snapshot
<1>5. Live' = Live /\ Unsent' = Unsent /\ Coming' = Coming
  BY <1>1, <1>3 DEF Live, Unsent, Coming
<1>6. Unsent # <<>> => uds # "iterate"
  BY DEF Unsent
<1> QED BY <1>1, <1>3, <1>4, <1>5, <1>6, SameWire

\* Nothing of the stream changes, but a queued connection may be refused and a
\* served one may end.
LEMMA QuietStep ==
    ASSUME StreamInv, UNCHANGED <<left, type, files, origin, go, stream, uds, batch>>,
           \/ UNCHANGED <<client, conn>>
           \/ client' = "none" /\ conn' = IF conn = "queued" THEN "served" ELSE conn
    PROVE  StreamInv'
<1>1. IsBatch(batch') /\ Snapshot' /\ Connected'
  BY DEF StreamInv, StreamTypes, Snapshot, Connected
<1>2. (Live' => Live) /\ Unsent' = Unsent /\ Coming' = Coming
  BY DEF Live, Unsent, Coming
<1>3. go' = "broken" \/ go # "broken"
  OBVIOUS
<1> QED BY <1>1, <1>2, <1>3, SameWire

LEMMA StopperFrames == ASSUME StreamInv, Stopper \/ Crash, UNCHANGED govars PROVE StreamInv'
<1>1. UNCHANGED <<left, type, files, origin, go>>
  BY DEF govars, inbox, metrics
<1>2. CASE StopClear BY <1>1, <1>2, QuietStep DEF StopClear, kernel
<1>3. CASE StopLoadFd BY <1>1, <1>3, QuietStep DEF StopLoadFd, kernel
<1>4. CASE StopShutdown BY <1>1, <1>4, QuietStep DEF StopShutdown
<1>5. CASE StopJoin BY <1>1, <1>5, QuietStep DEF StopJoin, Die, CloseListener, cpp
<1>6. CASE Crash BY <1>1, <1>6, QuietStep DEF Crash, Die, CloseListener, cpp
<1> QED BY <1>2, <1>3, <1>4, <1>5, <1>6 DEF Stopper

(***************************************************************************)
(* Go, outside its reads.                                                  *)
(***************************************************************************)
LEMMA GoFrames == ASSUME StreamInv, GoProcess, UNCHANGED cpp PROVE StreamInv'
<1>1. UNCHANGED <<uds, batch>> /\ IsBatch(batch) /\ Connected /\ Snapshot
  BY DEF cpp, StreamInv, StreamTypes
\* main() moves on
<1>2. ASSUME UNCHANGED <<stream, client, left, type, files, origin>>,
             go' # go, go' \notin {"start", "dial", "redial", "body", "broken"},
             go \notin {"body", "broken"},
             UNCHANGED conn \/ (conn = "closed" /\ conn' = "queued")
      PROVE  StreamInv'
  <2>1. IsBatch(batch') /\ Snapshot'
    BY <1>1 DEF Snapshot
  <2>2. left = 0
    BY <1>1, <1>2 DEF Connected, StreamInv, StreamTypes
  <2>3. Connected'
    BY <1>1, <1>2, <2>2 DEF Connected
  <2>4. Live' = Live /\ Unsent' = Unsent /\ Coming' = Coming
    BY <1>1, <1>2 DEF Live, Unsent, Coming
  <2> QED BY <1>1, <1>2, <2>1, <2>3, <2>4, SameWire
<1>3. CASE StartProcess
  <2>1. /\ UNCHANGED <<stream, client, conn, left, type, files, origin>>
        /\ go = "start" /\ go' = "dial"
    BY <1>3 DEF StartProcess, Go, inbox, metrics
  <2>2. IsBatch(batch') /\ Snapshot' /\ Connected'
    BY <1>1, <2>1 DEF Snapshot, Connected
  <2>3. Live' = Live /\ Unsent' = Unsent /\ Coming' = Coming
    BY <1>1, <2>1 DEF Live, Unsent, Coming
  <2> QED BY <1>1, <2>1, <2>2, <2>3, SameWire
<1>4. CASE DialFirst
  BY <1>1, <1>2, <1>4 DEF DialFirst, Go, Connect, Connected, inbox, metrics
<1>5. CASE DialFatal
  BY <1>2, <1>5 DEF DialFatal, Go, kernel, inbox, metrics
<1>6. CASE TestContext
  BY <1>2, <1>6 DEF TestContext, Go, kernel, inbox, metrics
<1>7. CASE ReadHeader BY <1>7, ReadHeaderStep
<1>8. CASE ReadRisk BY <1>8, ReadRiskStep
<1>9. ASSUME NEW d \in Domains, SetGauge(d) PROVE StreamInv'
  <2>1. /\ UNCHANGED <<stream, client, conn, left, type, files, origin>>
        /\ go = "set" /\ go' \in {"set", "test"}
    BY <1>9 DEF SetGauge, kernel
  <2> QED BY <1>1, <1>2, <2>1, QuietStep
<1>10. CASE ReadFile BY <1>10, ReadFileStep
<1>11. CASE ReadFails BY <1>11, ReadFailsStep
<1>12. CASE CloseBroken
  BY <1>1, <1>12, DisconnectStep DEF CloseBroken, Go, inbox, metrics
<1>13. CASE Redial
  BY <1>1, <1>2, <1>13 DEF Redial, Go, Connect, kernel, Connected, inbox, metrics
<1>14. CASE Finish
  BY <1>1, <1>14, DisconnectStep DEF Finish, Go, inbox, metrics
<1>15. CASE SendTerm
  BY <1>1, <1>15, QuietStep DEF SendTerm, inbox, metrics
<1>16. CASE SendKill
  BY <1>1, <1>16, QuietStep DEF SendKill, Die, CloseListener, inbox, metrics
<1>17. CASE CloseConn
  BY <1>1, <1>17, DisconnectStep DEF CloseConn, inbox, metrics
<1>18. CASE Cancel
  BY <1>1, <1>18, QuietStep DEF Cancel, kernel, inbox, metrics
<1>19. CASE RaiseSignal
  BY <1>1, <1>19, QuietStep DEF RaiseSignal, kernel, inbox, metrics
<1>20. CASE ServeFatal BY <1>20, ServeFatalStep
<1> QED
  BY <1>3, <1>4, <1>5, <1>6, <1>7, <1>8, <1>9, <1>10, <1>11, <1>12, <1>13, <1>14, <1>15,
     <1>16, <1>17, <1>18, <1>19, <1>20 DEF GoProcess, GoMain, GoHandler

LEMMA StreamInvInit == Init => StreamInv
<1> SUFFICES ASSUME Init PROVE StreamInv
  OBVIOUS
<1>1. /\ stream = <<>> /\ left = 0 /\ files = NoEvents /\ batch = NoBatch /\ uds = "none"
      /\ conn = "closed" /\ client = "none" /\ go = "start"
      /\ origin = [floor |-> NoSums, moved |-> <<FALSE, FALSE>>]
  BY DEF Init, SocketInit, ServiceInit, GoInit
<1>2. StreamTypes /\ Connected /\ Snapshot
  BY <1>1, SeqEmpty, NoBatchIs DEF StreamTypes, Connected, Snapshot, NoEvents
<1>3. OnTheWay /\ Uncounted /\ FileEventsOnce
  BY <1>1, SeqEmpty DEF OnTheWay, Uncounted, FileEventsOnce, NoEvents
<1>4. Live = FALSE
  BY <1>1 DEF Live
<1>5. Framed(<<>>, 0, 0, type, FALSE, Unsent, batch.type)
  BY NothingSent
<1>6. Expected
  <2>1. Framed(stream, 0, left, type, Live, Unsent, batch.type)
    BY <1>1, <1>4, <1>5
  <2>2. ~(left > 0) /\ files = NoEvents
    BY <1>1
  <2> QED BY <2>1, <2>2 DEF Expected
<1> QED BY <1>2, <1>3, <1>6 DEF StreamInv

LEMMA StreamInvNext == StreamInv /\ [Next]_vars => StreamInv'
<1>1. ASSUME StreamInv, Cpp, UNCHANGED govars PROVE StreamInv'
  BY <1>1, UdsFrames, StopperFrames, WritersFrame DEF Cpp
<1>2. ASSUME StreamInv, GoProcess, UNCHANGED cpp PROVE StreamInv'
  BY <1>2, GoFrames
<1>3. ASSUME StreamInv, UNCHANGED vars PROVE StreamInv'
  BY <1>3, QuietStep DEF vars, kernel, cpp, govars, inbox, metrics
<1> QED BY <1>1, <1>2, <1>3 DEF Next, GoEnded

\* FramesAligned for every size of the buffer, number of keys and pattern of
\* faults: counts match what is sent although the maps change meanwhile, and a
\* stream that broke is never continued (ExporterService.hpp:236-347,
\* main.go:111-195).
THEOREM ReaderInStep == Spec => []FramesAligned
<1>1. StreamInv => FramesAligned
  <2> SUFFICES ASSUME StreamInv, stream # <<>>
               PROVE  /\ go = "read" => Head(stream).kind = "head"
                      /\ go = "body" => Head(stream).kind = "body" /\ Head(stream).type = type
    BY DEF FramesAligned
  <2>1. /\ Len(stream) \in Nat \ {0} /\ Head(stream) = stream[1] /\ left \in Nat
        /\ go = "body" <=> left > 0
        /\ go # "broken" => Framed(stream, 0, left, type, Live, Unsent, batch.type)
    BY SeqTail DEF StreamInv, StreamTypes, Connected, Expected
  <2>2. ASSUME go = "read" PROVE stream[1].kind = "head"
    <3>1. left = 0
      BY <2>1, <2>2
    <3> QED BY <2>1, <2>2, <3>1 DEF Framed
  <2>3. ASSUME go = "body" PROVE stream[1].kind = "body" /\ stream[1].type = type
    <3>1. 1 \in (0 + 1)..(0 + left) /\ 1 <= Len(stream)
      BY <2>1, <2>3
    <3> QED BY <2>1, <2>3, <3>1 DEF Framed
  <2> QED BY <2>1, <2>2, <2>3
<1> QED BY <1>1, StreamInvInit, StreamInvNext, PTL DEF Spec

\* FileEventsOnce for every number of files and every pattern of faults: on
\* every connection the counters are reset before file events are counted, and
\* a snapshot during which the map was not updated has each key once
\* (main.go:148, metric.go:98-130, ExporterService.hpp:290-347).
THEOREM FileEventsCountedOnce == Spec => []FileEventsOnce
<1>1. StreamInv => FileEventsOnce
  BY DEF StreamInv
<1> QED BY <1>1, StreamInvInit, StreamInvNext, PTL DEF Spec

-----------------------------------------------------------------------------
(***************************************************************************)
(* The gauges.  Behind every snapshot during which the risk map was not    *)
(* updated there is one value v for each key, no more than the map c holds *)
(* now, that for each domain adds up to what the map held when the         *)
(* snapshot began.  O is what is still to be read of the snapshot: places  *)
(* from its end, keys and counts.  W are the keys read so far; M the keys  *)
(* that may still be missing.                                              *)
(***************************************************************************)
OfDomain(W, d) == {k \in W : DomainOf[k] = d}

Summed(v, W, d) == SumFunctionOnSet(v, OfDomain(W, d))

Witness(c, v, W, O, M, floor) ==
    /\ v \in [RiskKeys -> Nat]
    /\ \A k \in RiskKeys : v[k] <= c[k]
    /\ \A d \in Domains : floor[d] \in Nat /\ floor[d] = Summed(v, RiskKeys, d)
    /\ \A o \in O : o[2] \in RiskKeys \ W /\ o[3] = v[o[2]]
    /\ \A o, p \in O : o[2] = p[2] => o = p
    /\ \A k \in RiskKeys \ W : v[k] > 0 => k \in M \/ \E o \in O : o[2] = k

Unread(c, O, M, floor) == \E v : Witness(c, v, {}, O, M, floor)

\* bodies that are not sent yet
Tagged(bodies) == {<<Len(bodies) - j, bodies[j].key, bodies[j].n>> : j \in 1..Len(bodies)}

\* the bodies still to be read of the batch at place i
Owed(s, i, n, live, rest) ==
    {<<i + n - j, s[j].key, s[j].n>> : j \in {x \in (i + 1)..(i + n) : x <= Len(s)}}
      \cup (IF live /\ i + n > Len(s) THEN Tagged(rest) ELSE {})

\* of a batch that was broken off any key may be missing
Lost(s, e, live) == IF live \/ e <= Len(s) THEN {} ELSE RiskKeys

\* the snapshot being taken, or taken and not yet announced
Missing == IF uds = "iterate" THEN {k \in batch.must : batch.visits[k] = 0} ELSE {}

SnapshotSums ==
    uds \in {"iterate", "head"} /\ batch.type = 1 /\ ~batch.moved =>
        /\ Unread(counts, Tagged(batch.bodies), Missing, batch.floor)
        /\ uds = "iterate" => \A d \in Domains : batch.floor[d] = Total(d)

\* snapshots on their way
WaySums ==
    \A i \in 1..Len(stream) :
        LET h == stream[i] IN
        h.kind = "head" /\ h.type = 1 /\ ~h.moved =>
            Unread(counts, Owed(stream, i, h.n, Live, Unsent), Lost(stream, i + h.n, Live), h.floor)

\* the one Go is reading
ReadSums ==
    go = "body" /\ type = 1 /\ ~origin.moved[1] =>
        \E v, W :
            /\ W \subseteq RiskKeys
            /\ Witness(counts, v, W, Owed(stream, 0, left, Live, Unsent), Lost(stream, left, Live),
                       origin.floor)
            /\ \A d \in Domains : summary[d] = Summed(v, W, d)

\* sums that are complete and not yet shown
SetSums ==
    go = "set" /\ ~origin.moved[1] =>
        \A d \in Domains : summary[d] > 0 => summary[d] = origin.floor[d] /\ summary[d] <= Total(d)

SumTypes ==
    /\ counts \in [Keys -> Nat]
    /\ ~origin.moved[1] => summary \in [Domains -> Nat] /\ gauge \in [Domains -> Nat]
    /\ 1 \in DOMAIN origin.moved
    /\ go # "set" /\ ~(go = "body" /\ type = 1) => summary = NoSums

GaugeInv == SumTypes /\ SnapshotSums /\ WaySums /\ ReadSums /\ SetSums /\ GaugeFaithful

\* Sums by domain.
LEMMA DomainFinite ==
    ASSUME NEW W, W \subseteq RiskKeys, NEW d
    PROVE  IsFiniteSet(OfDomain(W, d)) /\ OfDomain(W, d) \subseteq RiskKeys
<1>1. OfDomain(W, d) \subseteq RiskKeys
  BY DEF OfDomain
<1> QED BY <1>1, KeyAssumption, FS_Subset

LEMMA SummedNat ==
    ASSUME NEW v, \A k \in RiskKeys : v[k] \in Nat, NEW W, W \subseteq RiskKeys, NEW d
    PROVE  Summed(v, W, d) \in Nat
BY DomainFinite, SumNat DEF Summed

LEMMA SummedGrows ==
    ASSUME NEW v, NEW w, \A k \in RiskKeys : v[k] \in Nat /\ w[k] \in Nat /\ v[k] <= w[k],
           NEW W, W \subseteq RiskKeys, NEW d
    PROVE  Summed(v, W, d) <= Summed(w, W, d)
BY DomainFinite, SumMonotone DEF Summed

LEMMA SummedInsert ==
    ASSUME NEW v, \A k \in RiskKeys : v[k] \in Nat, NEW W, W \subseteq RiskKeys,
           NEW k \in RiskKeys \ W, NEW d
    PROVE  Summed(v, W \cup {k}, d) = Summed(v, W, d) + (IF DomainOf[k] = d THEN v[k] ELSE 0)
<1>1. /\ IsFiniteSet(OfDomain(W, d)) /\ OfDomain(W, d) \subseteq RiskKeys
      /\ Summed(v, W, d) \in Nat /\ v[k] \in Nat
  BY DomainFinite, SummedNat
<1>2. CASE DomainOf[k] = d
  <2>1. OfDomain(W \cup {k}, d) = OfDomain(W, d) \cup {k} /\ k \notin OfDomain(W, d)
    BY <1>2 DEF OfDomain
  <2>2. \A j \in OfDomain(W, d) \cup {k} : v[j] \in Nat
    BY <1>1
  <2>3. SumFunctionOnSet(v, OfDomain(W, d) \cup {k}) = v[k] + SumFunctionOnSet(v, OfDomain(W, d))
    BY <1>1, <2>1, <2>2, SumInsert
  <2>4. Summed(v, W \cup {k}, d) = v[k] + Summed(v, W, d)
    BY <2>1, <2>3 DEF Summed
  <2> QED BY <1>1, <1>2, <2>4
<1>3. CASE DomainOf[k] # d
  <2>1. OfDomain(W \cup {k}, d) = OfDomain(W, d)
    BY <1>3 DEF OfDomain
  <2>2. Summed(v, W \cup {k}, d) = Summed(v, W, d)
    BY <2>1 DEF Summed
  <2> QED BY <1>1, <1>3, <2>2
<1> QED BY <1>2, <1>3

LEMMA SummedSupport ==
    ASSUME NEW v, \A k \in RiskKeys : v[k] \in Nat, NEW W, W \subseteq RiskKeys,
           \A k \in RiskKeys \ W : v[k] = 0, NEW d
    PROVE  Summed(v, W, d) = Summed(v, RiskKeys, d)
<1>1. /\ IsFiniteSet(OfDomain(RiskKeys, d)) /\ OfDomain(RiskKeys, d) \subseteq RiskKeys
      /\ OfDomain(W, d) \subseteq OfDomain(RiskKeys, d)
  <2>1. OfDomain(W, d) \subseteq OfDomain(RiskKeys, d)
    BY DEF OfDomain
  <2> QED BY <2>1, DomainFinite
<1>2. \A k \in OfDomain(RiskKeys, d) \ OfDomain(W, d) : v[k] = 0
  BY DEF OfDomain
<1>3. \A k \in OfDomain(RiskKeys, d) : v[k] \in Nat
  BY <1>1
<1> QED BY <1>1, <1>2, <1>3, SumSupport DEF Summed

\* The total of a domain is that sum of the map.
LEMMA TotalIs ==
    ASSUME NEW d
    PROVE  Total(d) = Summed(counts, RiskKeys, d) /\ Total(d)' = Summed(counts', RiskKeys, d)
BY DEF Total, Summed, OfDomain

\* What the map gains, what is left out, and a batch that breaks off leave
\* the witness.
LEMMA WitnessKept ==
    ASSUME NEW c, NEW c2, \A k \in RiskKeys : c[k] \in Nat /\ c2[k] \in Nat /\ c[k] <= c2[k],
           NEW v, NEW W, NEW O, NEW M, NEW O2, NEW M2, NEW floor,
           O2 \subseteq O, (O2 = O /\ M \subseteq M2) \/ M2 = RiskKeys,
           Witness(c, v, W, O, M, floor)
    PROVE  Witness(c2, v, W, O2, M2, floor)
<1>1. \A k \in RiskKeys : v[k] <= c2[k]
  <2> SUFFICES ASSUME NEW k \in RiskKeys PROVE v[k] <= c2[k]
    OBVIOUS
  <2>1. v[k] \in Nat /\ v[k] <= c[k] /\ c[k] \in Nat /\ c2[k] \in Nat /\ c[k] <= c2[k]
    BY DEF Witness
  <2> QED BY <2>1
<1>2. \A k \in RiskKeys \ W : v[k] > 0 => k \in M2 \/ \E o \in O2 : o[2] = k
  BY DEF Witness
<1> QED BY <1>1, <1>2 DEF Witness

\* Reading one body moves its key to the keys that were read.
LEMMA WitnessRead ==
    ASSUME NEW c, NEW v, NEW W, NEW O, NEW M, NEW floor, NEW o \in O,
           Witness(c, v, W, O, M, floor)
    PROVE  /\ o[2] \in RiskKeys \ W /\ o[3] = v[o[2]]
           /\ Witness(c, v, W \cup {o[2]}, O \ {o}, M, floor)
<1>1. o[2] \in RiskKeys \ W /\ o[3] = v[o[2]]
  BY DEF Witness
<1>2. \A p \in O \ {o} : p[2] \in RiskKeys \ (W \cup {o[2]}) /\ p[3] = v[p[2]]
  BY DEF Witness
<1>3. \A k \in RiskKeys \ (W \cup {o[2]}) : v[k] > 0 => k \in M \/ \E p \in O \ {o} : p[2] = k
  BY DEF Witness
<1> QED BY <1>1, <1>2, <1>3 DEF Witness

\* When all is read the sums are the old totals, no more than the present ones.
LEMMA WitnessDone ==
    ASSUME NEW c, \A k \in RiskKeys : c[k] \in Nat, NEW v, NEW W, W \subseteq RiskKeys, NEW floor,
           Witness(c, v, W, {}, {}, floor), NEW d \in Domains
    PROVE  Summed(v, W, d) = floor[d] /\ Summed(v, W, d) <= Summed(c, RiskKeys, d)
<1>1. /\ \A k \in RiskKeys : v[k] \in Nat /\ v[k] <= c[k]
      /\ \A k \in RiskKeys \ W : ~(v[k] > 0)
      /\ floor[d] = Summed(v, RiskKeys, d)
  BY DEF Witness
<1>2. \A k \in RiskKeys \ W : v[k] = 0
  BY <1>1
<1>3. Summed(v, W, d) = Summed(v, RiskKeys, d)
  BY <1>1, <1>2, SummedSupport
<1>4. Summed(v, RiskKeys, d) <= Summed(c, RiskKeys, d)
  BY <1>1, SummedGrows
<1> QED BY <1>1, <1>3, <1>4
(***************************************************************************)
(* What is owed moves from xdp_fw to the stream and from there to Go.      *)
(***************************************************************************)
LEMMA OwedIs ==
    ASSUME NEW s, NEW i, NEW n, NEW live, NEW rest, NEW o \in Owed(s, i, n, live, rest)
    PROVE  \/ \E j \in (i + 1)..(i + n) : j <= Len(s) /\ o = <<i + n - j, s[j].key, s[j].n>>
           \/ live /\ i + n > Len(s) /\ o \in Tagged(rest)
BY DEF Owed

LEMMA OwedPlace ==
    ASSUME NEW s, NEW i, NEW n, NEW live, NEW rest, NEW j \in (i + 1)..(i + n), j <= Len(s)
    PROVE  <<i + n - j, s[j].key, s[j].n>> \in Owed(s, i, n, live, rest)
BY DEF Owed

LEMMA OwedRest ==
    ASSUME NEW s, NEW i, NEW n, NEW live, NEW rest, live, i + n > Len(s), NEW o \in Tagged(rest)
    PROVE  o \in Owed(s, i, n, live, rest)
BY DEF Owed

LEMMA TaggedNone == Tagged(<<>>) = {}
BY SeqEmpty DEF Tagged

\* a batch that is complete is not touched by what is sent after it
LEMMA OwedComplete ==
    ASSUME NEW s, IsSeq(s), NEW m, NEW i \in Nat, NEW n \in Nat, i + n <= Len(s),
           NEW live, NEW rest, NEW live2, NEW rest2
    PROVE  /\ Owed(Append(s, m), i, n, live2, rest2) = Owed(s, i, n, live, rest)
           /\ Lost(Append(s, m), i + n, live2) = {} /\ Lost(s, i + n, live) = {}
<1> DEFINE a == Append(s, m)
<1>1. /\ Len(s) \in Nat /\ Len(a) = Len(s) + 1
      /\ \A j \in 1..Len(s) : a[j] = s[j]
  BY SeqAppend, SeqBasics
<1> HIDE DEF a
<1>2. ~(i + n > Len(s)) /\ ~(i + n > Len(a)) /\ i + n <= Len(a)
  BY <1>1
<1>3. \A j \in (i + 1)..(i + n) : j <= Len(s) /\ j <= Len(a) /\ a[j] = s[j]
  BY <1>1
<1>4. Owed(a, i, n, live2, rest2) = Owed(s, i, n, live, rest)
  <2>1. ASSUME NEW o \in Owed(a, i, n, live2, rest2) PROVE o \in Owed(s, i, n, live, rest)
    <3>1. PICK j \in (i + 1)..(i + n) : j <= Len(a) /\ o = <<i + n - j, a[j].key, a[j].n>>
      BY <1>2, <2>1, OwedIs
    <3> QED BY <1>3, <3>1, OwedPlace
  <2>2. ASSUME NEW o \in Owed(s, i, n, live, rest) PROVE o \in Owed(a, i, n, live2, rest2)
    <3>1. PICK j \in (i + 1)..(i + n) : j <= Len(s) /\ o = <<i + n - j, s[j].key, s[j].n>>
      BY <1>2, <2>2, OwedIs
    <3> QED BY <1>3, <3>1, OwedPlace
  <2> QED BY <2>1, <2>2
<1> QED BY <1>2, <1>4 DEF Lost, a

\* a batch just announced is owed as it was taken
LEMMA OwedNew ==
    ASSUME NEW s, IsSeq(s), NEW rest, IsSeq(rest), NEW live, live
    PROVE  Owed(s, Len(s), Len(rest), live, rest) = Tagged(rest)
<1>1. Len(s) \in Nat /\ Len(rest) \in Nat
  BY SeqBasics
<1>2. \A j \in (Len(s) + 1)..(Len(s) + Len(rest)) : ~(j <= Len(s))
  BY <1>1
<1>3. CASE Len(rest) = 0
  <2>1. Tagged(rest) = {} /\ ~(Len(s) + Len(rest) > Len(s))
    BY <1>1, <1>3, SeqBasics, TaggedNone
  <2>2. ASSUME NEW o PROVE o \notin Owed(s, Len(s), Len(rest), live, rest)
    BY <1>2, <2>1, OwedIs
  <2> QED BY <2>1, <2>2
<1>4. CASE Len(rest) > 0
  <2>1. Len(s) + Len(rest) > Len(s)
    BY <1>1, <1>4
  <2>2. ASSUME NEW o \in Owed(s, Len(s), Len(rest), live, rest) PROVE o \in Tagged(rest)
    BY <1>2, <2>2, OwedIs
  <2>3. ASSUME NEW o \in Tagged(rest) PROVE o \in Owed(s, Len(s), Len(rest), live, rest)
    BY <2>1, OwedRest
  <2> QED BY <2>2, <2>3
<1>5. Len(rest) = 0 \/ Len(rest) > 0
  BY <1>1
<1> QED BY <1>3, <1>4, <1>5

\* a body that is sent stays owed
LEMMA OwedSent ==
    ASSUME NEW s, IsSeq(s), NEW m, NEW i \in Nat, NEW n \in Nat, NEW rest, IsSeq(rest), rest # <<>>,
           NEW live \in BOOLEAN,
           m.key = Head(rest).key, m.n = Head(rest).n, i <= Len(s),
           i + n >= Len(s) => live /\ i + n = Len(s) + Len(rest)
    PROVE  Owed(Append(s, m), i, n, live, Tail(rest)) = Owed(s, i, n, live, rest)
<1> DEFINE a == Append(s, m)
           r == Tail(rest)
<1>1. /\ Len(s) \in Nat /\ Len(a) = Len(s) + 1
      /\ \A j \in 1..Len(s) : a[j] = s[j]
      /\ a[Len(s) + 1] = m
  BY SeqAppend, SeqBasics
<1>2. /\ Len(rest) \in Nat \ {0} /\ Len(r) = Len(rest) - 1
      /\ \A j \in 1..Len(r) : r[j] = rest[j + 1]
      /\ Head(rest) = rest[1]
  BY SeqTail
<1> HIDE DEF a, r
<1>3. CASE i + n < Len(s)
  <2>1. i + n <= Len(s)
    BY <1>1, <1>3
  <2>2. Owed(Append(s, m), i, n, live, r) = Owed(s, i, n, live, rest)
    BY ONLY <2>1, IsSeq(s), i \in Nat, n \in Nat, OwedComplete
  <2> QED BY <2>2 DEF r
<1>4. CASE i + n >= Len(s)
  <2>0. live /\ i + n = Len(s) + Len(rest)
    BY <1>4
  <2>1. i + n > Len(s)
    BY <1>1, <1>2, <2>0
  <2>2. ASSUME NEW j \in (i + 1)..(i + n), j <= Len(s)
        PROVE  j <= Len(a) /\ a[j] = s[j]
    BY <1>1, <2>2
  <2>3. /\ Len(s) + 1 \in (i + 1)..(i + n) /\ Len(s) + 1 <= Len(a)
        /\ i + n - (Len(s) + 1) = Len(rest) - 1 /\ 1 \in 1..Len(rest)
    BY <1>1, <1>2, <2>0
  <2>4. ASSUME NEW o \in Owed(s, i, n, live, rest) PROVE o \in Owed(a, i, n, live, r)
    <3>1. CASE \E j \in (i + 1)..(i + n) : j <= Len(s) /\ o = <<i + n - j, s[j].key, s[j].n>>
      BY <2>2, <3>1, OwedPlace
    <3>2. CASE o \in Tagged(rest)
      <4>1. PICK j \in 1..Len(rest) : o = <<Len(rest) - j, rest[j].key, rest[j].n>>
        BY <3>2 DEF Tagged
      <4>2. CASE j = 1
        <5>1. o = <<i + n - (Len(s) + 1), a[Len(s) + 1].key, a[Len(s) + 1].n>>
          BY <1>1, <1>2, <2>3, <4>1, <4>2
        <5> QED BY <2>3, <5>1, OwedPlace
      <4>3. CASE j # 1
        <5>1. /\ j - 1 \in 1..Len(r) /\ Len(r) - (j - 1) = Len(rest) - j /\ (j - 1) + 1 = j
              /\ i + n > Len(a)
          BY <1>1, <1>2, <2>0, <4>1, <4>3
        <5>2. r[j - 1] = rest[j]
          BY <1>2, <5>1
        <5>3. o \in Tagged(r)
          BY <4>1, <5>1, <5>2 DEF Tagged
        <5> QED BY <2>0, <5>1, <5>3, OwedRest
      <4> QED BY <4>2, <4>3
    <3> QED BY <2>4, <3>1, <3>2, OwedIs
  <2>5. ASSUME NEW o \in Owed(a, i, n, live, r) PROVE o \in Owed(s, i, n, live, rest)
    <3>1. CASE \E j \in (i + 1)..(i + n) : j <= Len(a) /\ o = <<i + n - j, a[j].key, a[j].n>>
      <4>1. PICK j \in (i + 1)..(i + n) : j <= Len(a) /\ o = <<i + n - j, a[j].key, a[j].n>>
        BY <3>1
      <4>2. CASE j <= Len(s)
        BY <2>2, <4>1, <4>2, OwedPlace
      <4>3. CASE j = Len(s) + 1
        <5>1. o = <<Len(rest) - 1, rest[1].key, rest[1].n>>
          BY <1>1, <1>2, <2>3, <4>1, <4>3
        <5>2. o \in Tagged(rest)
          BY <2>3, <5>1 DEF Tagged
        <5> QED BY <2>0, <2>1, <5>2, OwedRest
      <4>4. j <= Len(s) \/ j = Len(s) + 1
        <5>1. j \in Nat /\ j <= Len(s) + 1
          BY <1>1, <4>1
        <5> QED BY <1>1, <5>1
      <4> QED BY <4>2, <4>3, <4>4
    <3>2. CASE o \in Tagged(r)
      <4>1. PICK j \in 1..Len(r) : o = <<Len(r) - j, r[j].key, r[j].n>>
        BY <3>2 DEF Tagged
      <4>2. j + 1 \in 1..Len(rest) /\ Len(rest) - (j + 1) = Len(r) - j /\ r[j] = rest[j + 1]
        BY <1>2, <4>1
      <4>3. o \in Tagged(rest)
        BY <4>1, <4>2 DEF Tagged
      <4> QED BY <2>0, <2>1, <4>3, OwedRest
    <3> QED BY <2>5, <3>1, <3>2, OwedIs
  <2> QED BY <2>4, <2>5 DEF a, r
<1>5. i + n < Len(s) \/ i + n >= Len(s)
  BY <1>1
<1> QED BY <1>3, <1>4, <1>5

\* nor does reading what comes before it change what a batch owes
LEMMA OwedTail ==
    ASSUME NEW s, IsSeq(s), s # <<>>, NEW i \in Nat, NEW n \in Nat, NEW live, NEW rest
    PROVE  /\ Owed(Tail(s), i, n, live, rest) = Owed(s, i + 1, n, live, rest)
           /\ Lost(Tail(s), i + n, live) = Lost(s, i + 1 + n, live)
<1> DEFINE a == Tail(s)
<1>1. /\ Len(s) \in Nat \ {0} /\ Len(a) = Len(s) - 1
      /\ \A j \in 1..Len(a) : a[j] = s[j + 1]
  BY SeqTail
<1> HIDE DEF a
<1>2. (i + n > Len(a) <=> i + 1 + n > Len(s)) /\ (i + n <= Len(a) <=> i + 1 + n <= Len(s))
  BY <1>1
<1>3. ASSUME NEW o \in Owed(a, i, n, live, rest) PROVE o \in Owed(s, i + 1, n, live, rest)
  <2>1. CASE \E j \in (i + 1)..(i + n) : j <= Len(a) /\ o = <<i + n - j, a[j].key, a[j].n>>
    <3>1. PICK j \in (i + 1)..(i + n) : j <= Len(a) /\ o = <<i + n - j, a[j].key, a[j].n>>
      BY <2>1
    <3>2. /\ j + 1 \in (i + 1 + 1)..(i + 1 + n) /\ j + 1 <= Len(s) /\ a[j] = s[j + 1]
          /\ i + n - j = i + 1 + n - (j + 1)
      BY <1>1, <3>1
    <3>3. <<i + 1 + n - (j + 1), s[j + 1].key, s[j + 1].n>> \in Owed(s, i + 1, n, live, rest)
      BY <3>2, OwedPlace
    <3> QED BY <3>1, <3>2, <3>3
  <2>2. CASE live /\ i + n > Len(a) /\ o \in Tagged(rest)
    BY <1>2, <2>2, OwedRest
  <2> QED BY <1>3, <2>1, <2>2, OwedIs
<1>4. ASSUME NEW o \in Owed(s, i + 1, n, live, rest) PROVE o \in Owed(a, i, n, live, rest)
  <2>1. CASE \E j \in (i + 1 + 1)..(i + 1 + n) :
                j <= Len(s) /\ o = <<i + 1 + n - j, s[j].key, s[j].n>>
    <3>1. PICK j \in (i + 1 + 1)..(i + 1 + n) :
                j <= Len(s) /\ o = <<i + 1 + n - j, s[j].key, s[j].n>>
      BY <2>1
    <3>2. /\ j - 1 \in (i + 1)..(i + n) /\ j - 1 <= Len(a) /\ j - 1 \in 1..Len(a)
          /\ (j - 1) + 1 = j /\ i + n - (j - 1) = i + 1 + n - j
      BY <1>1, <3>1
    <3>3. a[j - 1] = s[j]
      BY <1>1, <3>2
    <3>4. <<i + n - (j - 1), a[j - 1].key, a[j - 1].n>> \in Owed(a, i, n, live, rest)
      BY <3>2, OwedPlace
    <3> QED BY <3>1, <3>2, <3>3, <3>4
  <2>2. CASE live /\ i + 1 + n > Len(s) /\ o \in Tagged(rest)
    <3>1. i + n > Len(a)
      BY <1>2, <2>2
    <3> QED BY <2>2, <3>1, OwedRest
  <2> QED BY <1>4, <2>1, <2>2, OwedIs
<1> QED BY <1>2, <1>3, <1>4 DEF Lost, a

\* the first body is the one that is read next
LEMMA OwedRead ==
    ASSUME NEW s, IsSeq(s), s # <<>>, NEW n \in Nat \ {0}, NEW live, NEW rest, IsSeq(rest),
           live /\ n >= Len(s) => n = Len(s) + Len(rest)
    PROVE  LET o == <<n - 1, s[1].key, s[1].n>> IN
           /\ o \in Owed(s, 0, n, live, rest)
           /\ Owed(Tail(s), 0, n - 1, live, rest) = Owed(s, 0, n, live, rest) \ {o}
           /\ Lost(Tail(s), n - 1, live) = Lost(s, n, live)
<1> DEFINE o == <<n - 1, s[1].key, s[1].n>>
           X == Owed(s, 0, n, live, rest)
           Y == Owed(s, 0 + 1, n - 1, live, rest)
<1>1. Len(s) \in Nat \ {0} /\ Len(rest) \in Nat
  BY SeqTail, SeqBasics
<1>2. /\ 0 + n = n /\ 0 + 1 + (n - 1) = n /\ 0 + (n - 1) = n - 1 /\ n - 1 \in Nat
      /\ 1 \in (0 + 1)..(0 + n) /\ 1 <= Len(s) /\ 0 + n - 1 = n - 1
  BY <1>1
<1>3. o \in X
  BY <1>2, OwedPlace
<1>4. ASSUME NEW p \in Y PROVE p \in X /\ p # o
  <2>1. CASE \E j \in (0 + 1 + 1)..(0 + 1 + (n - 1)) :
                j <= Len(s) /\ p = <<0 + 1 + (n - 1) - j, s[j].key, s[j].n>>
    <3>1. PICK j \in (0 + 1 + 1)..(0 + 1 + (n - 1)) :
                j <= Len(s) /\ p = <<0 + 1 + (n - 1) - j, s[j].key, s[j].n>>
      BY <2>1
    <3>2. j \in (0 + 1)..(0 + n) /\ 0 + 1 + (n - 1) - j = 0 + n - j /\ 0 + n - j # n - 1
      BY <1>2, <3>1
    <3>3. p[1] # n - 1 /\ p = <<0 + n - j, s[j].key, s[j].n>>
      BY <3>1, <3>2
    <3>4. p # o
      BY <3>3
    <3> QED BY <3>1, <3>2, <3>3, <3>4, OwedPlace
  <2>2. CASE live /\ 0 + 1 + (n - 1) > Len(s) /\ p \in Tagged(rest)
    <3>1. PICK j \in 1..Len(rest) : p = <<Len(rest) - j, rest[j].key, rest[j].n>>
      BY <2>2 DEF Tagged
    <3>2. Len(rest) - j # n - 1
      BY <1>1, <1>2, <2>2, <3>1
    <3>3. p[1] # n - 1
      BY <3>1, <3>2
    <3>4. p # o
      BY <3>3
    <3> QED BY <1>2, <2>2, <3>4, OwedRest
  <2> QED BY <1>4, <2>1, <2>2, OwedIs
<1>5. ASSUME NEW p \in X, p # o PROVE p \in Y
  <2>1. CASE \E j \in (0 + 1)..(0 + n) : j <= Len(s) /\ p = <<0 + n - j, s[j].key, s[j].n>>
    <3>1. PICK j \in (0 + 1)..(0 + n) : j <= Len(s) /\ p = <<0 + n - j, s[j].key, s[j].n>>
      BY <2>1
    <3>2. j # 1
      BY <1>2, <1>5, <3>1
    <3>3. j \in (0 + 1 + 1)..(0 + 1 + (n - 1)) /\ 0 + 1 + (n - 1) - j = 0 + n - j
      BY <1>2, <3>1, <3>2
    <3> QED BY <3>1, <3>3, OwedPlace
  <2>2. CASE live /\ 0 + n > Len(s) /\ p \in Tagged(rest)
    BY <1>2, <2>2, OwedRest
  <2> QED BY <1>5, <2>1, <2>2, OwedIs
<1>6. Y = X \ {o}
  BY <1>4, <1>5
<1>7. /\ Owed(Tail(s), 0, n - 1, live, rest) = Y
      /\ Lost(Tail(s), 0 + (n - 1), live) = Lost(s, 0 + 1 + (n - 1), live)
  BY <1>2, OwedTail
<1> QED BY <1>2, <1>3, <1>6, <1>7

\* when less is live, less is owed, and the batch may never be completed
LEMMA OwedLess ==
    ASSUME NEW s, IsSeq(s), NEW i \in Nat, NEW n \in Nat, NEW live \in BOOLEAN, NEW rest,
           NEW live2 \in BOOLEAN, NEW rest2, live2 => live /\ rest2 = rest
    PROVE  /\ Owed(s, i, n, live2, rest2) \subseteq Owed(s, i, n, live, rest)
           /\ \/ /\ Owed(s, i, n, live2, rest2) = Owed(s, i, n, live, rest)
                 /\ Lost(s, i + n, live) \subseteq Lost(s, i + n, live2)
              \/ Lost(s, i + n, live2) = RiskKeys
<1>1. Owed(s, i, n, live2, rest2) \subseteq Owed(s, i, n, live, rest)
  BY DEF Owed
<1>2. CASE live2 \/ ~live
  <2>1. Owed(s, i, n, live2, rest2) = Owed(s, i, n, live, rest)
    BY <1>2 DEF Owed
  <2>2. Lost(s, i + n, live2) = Lost(s, i + n, live)
    BY <1>2 DEF Lost
  <2> QED BY <2>1, <2>2
<1>3. CASE i + n <= Len(s)
  <2>1. ~(i + n > Len(s))
    BY <1>3, SeqBasics
  <2>2. Owed(s, i, n, live2, rest2) = Owed(s, i, n, live, rest)
    BY <2>1 DEF Owed
  <2>3. Lost(s, i + n, live2) = {} /\ Lost(s, i + n, live) = {}
    BY <1>3 DEF Lost
  <2> QED BY <2>2, <2>3
<1>4. CASE ~live2 /\ ~(i + n <= Len(s))
  <2>1. Lost(s, i + n, live2) = RiskKeys
    BY <1>4 DEF Lost
  <2> QED BY <1>1, <2>1
<1> QED BY <1>2, <1>3, <1>4

-----------------------------------------------------------------------------
(***************************************************************************)
(* What a step leaves alone.  The maps only grow.                          *)
(***************************************************************************)
MapsGrow == counts' \in [Keys -> Nat] /\ \A k \in Keys : counts[k] <= counts'[k]

LEMMA RiskGrows ==
    ASSUME GaugeInv, MapsGrow
    PROVE  \A k \in RiskKeys : counts[k] \in Nat /\ counts'[k] \in Nat /\ counts[k] <= counts'[k]
<1>1. counts \in [Keys -> Nat] /\ RiskKeys \subseteq Keys
  BY DEF GaugeInv, SumTypes, Keys
<1> QED BY <1>1 DEF MapsGrow

LEMMA MapsStay == ASSUME GaugeInv, UNCHANGED counts PROVE MapsGrow
<1>1. counts \in [Keys -> Nat]
  BY DEF GaugeInv, SumTypes
<1> QED BY <1>1 DEF MapsGrow

LEMMA UnreadKept ==
    ASSUME GaugeInv, MapsGrow, NEW O, NEW M, NEW O2, NEW M2, NEW floor,
           O2 \subseteq O, (O2 = O /\ M \subseteq M2) \/ M2 = RiskKeys,
           Unread(counts, O, M, floor)
    PROVE  Unread(counts', O2, M2, floor)
<1>1. PICK v : Witness(counts, v, {}, O, M, floor)
  BY DEF Unread
<1>2. \A k \in RiskKeys : counts[k] \in Nat /\ counts'[k] \in Nat /\ counts[k] <= counts'[k]
  BY RiskGrows
<1>3. Witness(counts', v, {}, O2, M2, floor)
  BY <1>1, <1>2, WitnessKept
<1> QED BY <1>3 DEF Unread

LEMMA TotalGrows ==
    ASSUME GaugeInv, MapsGrow, NEW d, NEW x \in Nat, x <= Total(d)
    PROVE  x <= Total(d)'
<1>1. \A k \in RiskKeys : counts[k] \in Nat /\ counts'[k] \in Nat /\ counts[k] <= counts'[k]
  BY RiskGrows
<1>2. RiskKeys \subseteq RiskKeys
  OBVIOUS
<1>3. /\ Summed(counts, RiskKeys, d) \in Nat /\ Summed(counts', RiskKeys, d) \in Nat
      /\ Summed(counts, RiskKeys, d) <= Summed(counts', RiskKeys, d)
  BY <1>1, <1>2, SummedNat, SummedGrows
<1>4. Total(d) = Summed(counts, RiskKeys, d) /\ Total(d)' = Summed(counts', RiskKeys, d)
  BY TotalIs
<1> QED BY <1>3, <1>4

LEMMA TotalSame ==
    ASSUME GaugeInv, MapsGrow, NEW d, \A k \in RiskKeys : counts'[k] = counts[k]
    PROVE  Total(d)' = Total(d)
<1>1. \A k \in RiskKeys : counts[k] \in Nat /\ counts'[k] \in Nat
                           /\ counts[k] <= counts'[k] /\ counts'[k] <= counts[k]
  BY RiskGrows
<1>2. RiskKeys \subseteq RiskKeys
  OBVIOUS
<1>3. /\ Summed(counts, RiskKeys, d) \in Nat /\ Summed(counts', RiskKeys, d) \in Nat
      /\ Summed(counts, RiskKeys, d) <= Summed(counts', RiskKeys, d)
      /\ Summed(counts', RiskKeys, d) <= Summed(counts, RiskKeys, d)
  BY <1>1, <1>2, SummedNat, SummedGrows
<1>4. Total(d) = Summed(counts, RiskKeys, d) /\ Total(d)' = Summed(counts', RiskKeys, d)
  BY TotalIs
<1> QED BY <1>3, <1>4

LEMMA WayKept ==
    ASSUME StreamInv, GaugeInv, MapsGrow, UNCHANGED stream,
           stream = <<>> \/ (Live' => Live /\ Unsent' = Unsent)
    PROVE  WaySums'
<1>1. IsSeq(stream) /\ Len(stream) \in Nat /\ (stream = <<>> => Len(stream) = 0)
  BY SeqBasics DEF StreamInv, StreamTypes
<1> SUFFICES ASSUME NEW i \in 1..Len(stream), stream[i].kind = "head", stream[i].type = 1,
                    ~stream[i].moved
             PROVE  Unread(counts', Owed(stream, i, stream[i].n, Live', Unsent'),
                           Lost(stream, i + stream[i].n, Live'), stream[i].floor)
  BY DEF WaySums
<1> DEFINE h == stream[i]
<1>2. /\ i \in Nat /\ h.n \in Nat
      /\ Unread(counts, Owed(stream, i, h.n, Live, Unsent), Lost(stream, i + h.n, Live), h.floor)
  BY <1>1 DEF StreamInv, OnTheWay, GaugeInv, WaySums
<1> HIDE DEF h
<1>3. Live \in BOOLEAN /\ Live' \in BOOLEAN /\ (Live' => Live /\ Unsent' = Unsent)
  BY <1>1 DEF Live
<1>4. /\ Owed(stream, i, h.n, Live', Unsent') \subseteq Owed(stream, i, h.n, Live, Unsent)
      /\ \/ /\ Owed(stream, i, h.n, Live', Unsent') = Owed(stream, i, h.n, Live, Unsent)
            /\ Lost(stream, i + h.n, Live) \subseteq Lost(stream, i + h.n, Live')
         \/ Lost(stream, i + h.n, Live') = RiskKeys
  BY <1>1, <1>2, <1>3, OwedLess
<1>5. Unread(counts', Owed(stream, i, h.n, Live', Unsent'), Lost(stream, i + h.n, Live'), h.floor)
  BY <1>2, <1>4, UnreadKept
<1> QED BY <1>5 DEF h

LEMMA ReadKept ==
    ASSUME StreamInv, GaugeInv, MapsGrow, UNCHANGED <<left, type, summary, origin>>,
           go' = "body" => go = "body",
           \/ stream' = stream /\ (left = 0 \/ (Live' => Live /\ Unsent' = Unsent))
           \/ stream' = <<>> /\ ~Live'
    PROVE  ReadSums'
<1> SUFFICES ASSUME go = "body", type = 1, ~origin.moved[1]
             PROVE  \E v, W :
                      /\ W \subseteq RiskKeys
                      /\ Witness(counts', v, W, Owed(stream', 0, left, Live', Unsent'),
                                 Lost(stream', left, Live'), origin.floor)
                      /\ \A d \in Domains : summary[d] = Summed(v, W, d)
  BY DEF ReadSums
<1>1. IsSeq(stream) /\ left \in Nat /\ left > 0 /\ left # 0 /\ 0 + left = left /\ 0 \in Nat
  BY DEF StreamInv, StreamTypes, Connected
<1>2. PICK v, W : /\ W \subseteq RiskKeys
                  /\ Witness(counts, v, W, Owed(stream, 0, left, Live, Unsent),
                             Lost(stream, left, Live), origin.floor)
                  /\ \A d \in Domains : summary[d] = Summed(v, W, d)
  BY DEF GaugeInv, ReadSums
<1>3. \A k \in RiskKeys : counts[k] \in Nat /\ counts'[k] \in Nat /\ counts[k] <= counts'[k]
  BY RiskGrows
<1>4. Live \in BOOLEAN /\ Live' \in BOOLEAN
  BY DEF Live
<1>5. /\ Owed(stream', 0, left, Live', Unsent') \subseteq Owed(stream, 0, left, Live, Unsent)
      /\ \/ /\ Owed(stream', 0, left, Live', Unsent') = Owed(stream, 0, left, Live, Unsent)
            /\ Lost(stream, left, Live) \subseteq Lost(stream', left, Live')
         \/ Lost(stream', left, Live') = RiskKeys
  <2>1. CASE stream' = stream /\ (Live' => Live /\ Unsent' = Unsent)
    <3>1. /\ Owed(stream, 0, left, Live', Unsent') \subseteq Owed(stream, 0, left, Live, Unsent)
          /\ \/ /\ Owed(stream, 0, left, Live', Unsent') = Owed(stream, 0, left, Live, Unsent)
                /\ Lost(stream, 0 + left, Live) \subseteq Lost(stream, 0 + left, Live')
             \/ Lost(stream, 0 + left, Live') = RiskKeys
      BY <1>1, <1>4, <2>1, OwedLess
    <3> QED BY <1>1, <2>1, <3>1
  <2>2. CASE stream' = <<>> /\ ~Live'
    <3>1. Len(<<>>) = 0 /\ ~(left <= 0)
      BY <1>1, SeqEmpty
    <3>2. ASSUME NEW o \in Owed(<<>>, 0, left, Live', Unsent') PROVE FALSE
      <4>1. \A j \in (0 + 1)..(0 + left) : ~(j <= Len(<<>>))
        BY <1>1, <3>1
      <4> QED BY <2>2, <3>2, <4>1, OwedIs
    <3>3. Lost(<<>>, left, Live') = RiskKeys
      BY <2>2, <3>1 DEF Lost
    <3> QED BY <2>2, <3>2, <3>3
  <2> QED BY <1>1, <2>1, <2>2
<1>6. Witness(counts', v, W, Owed(stream', 0, left, Live', Unsent'), Lost(stream', left, Live'),
              origin.floor)
  BY <1>2, <1>3, <1>5, WitnessKept
<1> QED BY <1>2, <1>6

LEMMA ShownKept ==
    ASSUME GaugeInv, MapsGrow, UNCHANGED <<type, summary, gauge, origin>>,
           go' = go \/ (go \notin {"body", "set"} /\ go' \notin {"body", "set"})
    PROVE  SumTypes' /\ SetSums' /\ GaugeFaithful'
<1>1. SumTypes /\ SetSums /\ GaugeFaithful
  BY DEF GaugeInv
<1>2. SumTypes'
  BY <1>1 DEF SumTypes, MapsGrow, NoSums
<1>3. ASSUME NEW d \in Domains, go = "set", ~origin.moved[1], summary[d] > 0
      PROVE  summary[d] = origin.floor[d] /\ summary[d] <= Total(d)'
  <2>1. summary[d] \in Nat /\ summary[d] = origin.floor[d] /\ summary[d] <= Total(d)
    BY <1>1, <1>3 DEF SumTypes, SetSums
  <2> QED BY <2>1, TotalGrows
<1>4. ASSUME NEW d \in Domains, gauge[d] > 0, ~origin.moved[1]
      PROVE  gauge[d] = origin.floor[d] /\ gauge[d] <= Total(d)'
  <2>1. gauge[d] \in Nat /\ gauge[d] = origin.floor[d] /\ gauge[d] <= Total(d)
    BY <1>1, <1>4 DEF SumTypes, GaugeFaithful
  <2> QED BY <2>1, TotalGrows
<1>5. SetSums'
  BY <1>3 DEF SetSums
<1>6. GaugeFaithful'
  BY <1>4 DEF GaugeFaithful
<1> QED BY <1>2, <1>5, <1>6

LEMMA SnapshotKept ==
    ASSUME GaugeInv, MapsGrow, uds' = uds,
           batch'.type = batch.type, batch'.bodies = batch.bodies, batch'.must = batch.must,
           batch'.visits = batch.visits, batch'.floor = batch.floor, batch.moved => batch'.moved,
           uds = "iterate" /\ batch.type = 1 /\ ~batch'.moved =>
               \A k \in RiskKeys : counts'[k] = counts[k]
    PROVE  SnapshotSums'
<1> SUFFICES ASSUME uds \in {"iterate", "head"}, batch.type = 1, ~batch'.moved
             PROVE  /\ Unread(counts', Tagged(batch'.bodies), Missing', batch'.floor)
                    /\ uds = "iterate" => \A d \in Domains : batch'.floor[d] = Total(d)'
  BY DEF SnapshotSums
<1>0. ~batch.moved
  OBVIOUS
<1>1. /\ Unread(counts, Tagged(batch.bodies), Missing, batch.floor)
      /\ uds = "iterate" => \A d \in Domains : batch.floor[d] = Total(d)
  BY <1>0 DEF GaugeInv, SnapshotSums
<1>2. Missing' = Missing
  BY DEF Missing
<1>3. Tagged(batch'.bodies) = Tagged(batch.bodies)
  OBVIOUS
<1>4. Unread(counts', Tagged(batch.bodies), Missing, batch.floor)
  BY <1>1, UnreadKept
<1>5. ASSUME uds = "iterate", NEW d \in Domains PROVE batch'.floor[d] = Total(d)'
  <2>1. Total(d)' = Total(d)
    BY <1>5, TotalSame
  <2> QED BY <1>1, <1>5, <2>1
<1> QED BY <1>2, <1>3, <1>4, <1>5

\* A step that neither sends nor reads nor changes the snapshot.
LEMMA QuietSums ==
    ASSUME StreamInv, GaugeInv, UNCHANGED <<left, type, summary, gauge, origin, uds, batch, counts>>,
           go' = go \/ (go \notin {"body", "set"} /\ go' \notin {"body", "set"}),
           (stream' = stream /\ (Live' => Live)) \/ (stream' = <<>> /\ ~Live')
    PROVE  GaugeInv'
<1>1. MapsGrow
  BY MapsStay
<1>2. SnapshotSums'
  BY <1>1, SnapshotKept
<1>3. Unsent' = Unsent
  BY DEF Unsent
<1>4. WaySums'
  <2>1. CASE stream' = <<>>
    BY <2>1, SeqEmpty DEF WaySums
  <2>2. CASE stream' = stream /\ (Live' => Live)
    BY <1>1, <1>3, <2>2, WayKept
  <2> QED BY <2>1, <2>2
<1>5. ReadSums'
  BY <1>1, <1>3, ReadKept
<1>6. SumTypes' /\ SetSums' /\ GaugeFaithful'
  BY <1>1, ShownKept
<1> QED BY <1>2, <1>4, <1>5, <1>6 DEF GaugeInv

-----------------------------------------------------------------------------
(***************************************************************************)
(* The snapshot is taken.                                                  *)
(***************************************************************************)
\* It begins: the witness is the map itself.
LEMMA BeginSums ==
    ASSUME GaugeInv, Begin(1), UNCHANGED counts, uds' = "iterate"
    PROVE  SnapshotSums'
<1> DEFINE v == [k \in RiskKeys |-> counts[k]]
           m == {k \in KeysOf(1) : counts[k] > 0}
           f == [d \in Domains |-> Total(d)]
<1>1. batch' = [NoBatch EXCEPT !.type = 1, !.must = m, !.floor = f]
  BY DEF Begin
<1>2. m \subseteq RiskKeys /\ \A k \in RiskKeys : counts[k] > 0 => k \in m
  BY DEF KeysOf
<1>3. \A k \in RiskKeys : counts[k] \in Nat /\ v[k] = counts[k]
  BY MapsStay, RiskGrows
<1>4. v \in [RiskKeys -> Nat]
  BY <1>3
<1>5. \A d \in Domains : f[d] = Total(d)
  OBVIOUS
<1> HIDE DEF m, f, v
<1>6. /\ batch'.must = m /\ batch'.bodies = <<>> /\ batch'.floor = f
      /\ batch'.visits = [k \in Keys |-> 0]
  BY <1>1 DEF NoBatch
<1>7. Missing' = m
  <2>1. \A k \in m : batch'.visits[k] = 0
    BY <1>2, <1>6 DEF Keys
  <2> QED BY <1>6, <2>1 DEF Missing
<1>8. \A d \in Domains : f[d] \in Nat /\ f[d] = Summed(v, RiskKeys, d)
  <2> SUFFICES ASSUME NEW d \in Domains PROVE f[d] \in Nat /\ f[d] = Summed(v, RiskKeys, d)
    OBVIOUS
  <2>1. /\ \A k \in RiskKeys : /\ counts[k] \in Nat /\ v[k] \in Nat
                               /\ counts[k] <= v[k] /\ v[k] <= counts[k]
        /\ RiskKeys \subseteq RiskKeys
    BY <1>3
  <2>2. /\ Summed(counts, RiskKeys, d) \in Nat /\ Summed(v, RiskKeys, d) \in Nat
        /\ Summed(counts, RiskKeys, d) <= Summed(v, RiskKeys, d)
        /\ Summed(v, RiskKeys, d) <= Summed(counts, RiskKeys, d)
    BY <2>1, SummedNat, SummedGrows
  <2> QED BY <1>5, <2>2, TotalIs
<1>9. Witness(counts, v, {}, {}, m, f)
  <2>1. \A k \in RiskKeys : v[k] <= counts[k]
    BY <1>3
  <2>2. \A k \in RiskKeys \ {} : v[k] > 0 => k \in m \/ \E o \in {} : o[2] = k
    BY <1>2, <1>3
  <2> QED BY <1>4, <1>8, <2>1, <2>2 DEF Witness
<1>10. Unread(counts, Tagged(<<>>), m, f)
  BY <1>9, TaggedNone DEF Unread
<1>11. \A d \in Domains : batch'.floor[d] = Total(d)'
  BY <1>5, <1>6 DEF Total
<1> QED BY <1>6, <1>7, <1>10, <1>11 DEF SnapshotSums

\* An entry is met: the witness has its present value.  It had it before, as
\* the map still adds up to what it held when the snapshot began.
LEMMA VisitSums ==
    ASSUME StreamInv, StreamInv', GaugeInv, NEW k \in Keys, Visit(k)
    PROVE  SnapshotSums'
<1> DEFINE e == [key |-> k, n |-> counts[k]]
           b == batch.bodies
           a == Append(b, e)
<1> SUFFICES ASSUME batch'.type = 1, ~batch'.moved
             PROVE  /\ Unread(counts', Tagged(batch'.bodies), Missing', batch'.floor)
                    /\ \A d \in Domains : batch'.floor[d] = Total(d)'
  BY DEF SnapshotSums
<1>1. /\ uds = "iterate" /\ uds' = "iterate" /\ UNCHANGED counts
      /\ k \in KeysOf(batch.type) /\ counts[k] > 0
      /\ batch.visits[k] < (IF batch.moved THEN MaxVisits ELSE 1)
      /\ batch' = [batch EXCEPT !.visits[k] = @ + 1, !.bodies = Append(@, e)]
  BY DEF Visit, Uds, maps
<1>2. e.key = k /\ e.n = counts[k]
  OBVIOUS
<1>3. IsBatch(batch) /\ Snapshot /\ Snapshot'
  BY DEF StreamInv, StreamTypes
<1> HIDE DEF e
<1>4. /\ batch'.visits = [batch.visits EXCEPT ![k] = @ + 1]
      /\ batch'.bodies = a /\ batch.type = 1 /\ ~batch.moved
      /\ batch'.must = batch.must /\ batch'.floor = batch.floor
  BY <1>1, <1>3 DEF IsBatch
<1>5. batch.visits[k] = 0 /\ k \in RiskKeys /\ batch.visits \in [Keys -> Nat]
  BY <1>1, <1>3, <1>4 DEF IsBatch, KeysOf
<1>6. /\ IsSeq(b) /\ Len(b) \in Nat /\ Len(a) = Len(b) + 1
      /\ \A j \in 1..Len(b) : a[j] = b[j]
      /\ a[Len(b) + 1] = e
  BY <1>3, SeqAppend, SeqBasics DEF IsBatch
<1>7. /\ Distinct(a)
      /\ \A j \in 1..Len(b) : batch.visits[b[j].key] > 0
  BY <1>1, <1>3, <1>4 DEF Snapshot
<1>8. PICK v : Witness(counts, v, {}, Tagged(b), Missing, batch.floor)
  BY <1>1, <1>4 DEF GaugeInv, SnapshotSums, Unread
<1>a. \A d \in Domains : batch.floor[d] = Total(d)
  BY <1>1, <1>4 DEF GaugeInv, SnapshotSums
<1> DEFINE w == [v EXCEPT ![k] = counts[k]]
<1>9. /\ \A j \in RiskKeys : counts[j] \in Nat
      /\ v \in [RiskKeys -> Nat] /\ \A j \in RiskKeys : v[j] <= counts[j]
  BY <1>8, MapsStay, RiskGrows, <1>1 DEF Witness
<1>10. /\ w \in [RiskKeys -> Nat] /\ w[k] = counts[k]
       /\ \A j \in RiskKeys : w[j] <= counts[j] /\ v[j] <= w[j]
       /\ \A j \in RiskKeys \ {k} : w[j] = v[j]
  BY <1>5, <1>9
<1> HIDE DEF w, a, b
<1>11. \A j \in 1..Len(b) : b[j].key \in RiskKeys \ {k} /\ b[j].n = v[b[j].key]
  <2> SUFFICES ASSUME NEW j \in 1..Len(b) PROVE b[j].key \in RiskKeys \ {k} /\ b[j].n = v[b[j].key]
    OBVIOUS
  <2> DEFINE o == <<Len(b) - j, b[j].key, b[j].n>>
  <2>1. o \in Tagged(b)
    BY DEF Tagged
  <2>2. o[2] \in RiskKeys /\ o[3] = v[o[2]]
    BY <1>8, <2>1 DEF Witness
  <2>3. b[j].key # k
    BY <1>5, <1>7
  <2> QED BY <2>2, <2>3
<1>12. \A j \in 1..Len(a) : j \in 1..Len(b) \/ j = Len(b) + 1
  BY <1>6
<1>13. \A j \in 1..Len(a) : a[j].key \in RiskKeys /\ a[j].n = w[a[j].key]
  <2> SUFFICES ASSUME NEW j \in 1..Len(a) PROVE a[j].key \in RiskKeys /\ a[j].n = w[a[j].key]
    OBVIOUS
  <2>1. CASE j \in 1..Len(b)
    BY <1>6, <1>10, <1>11, <2>1
  <2>2. CASE j = Len(b) + 1
    BY <1>2, <1>5, <1>6, <1>10, <2>2
  <2> QED BY <1>12, <2>1, <2>2
<1>14. \A o \in Tagged(a) : o[2] \in RiskKeys \ {} /\ o[3] = w[o[2]]
  BY <1>13 DEF Tagged
<1>15. \A o, p \in Tagged(a) : o[2] = p[2] => o = p
  BY <1>7 DEF Tagged, Distinct
<1>16. \A d \in Domains : batch.floor[d] \in Nat /\ batch.floor[d] = Summed(w, RiskKeys, d)
  <2> SUFFICES ASSUME NEW d \in Domains
               PROVE  batch.floor[d] \in Nat /\ batch.floor[d] = Summed(w, RiskKeys, d)
    OBVIOUS
  <2>1. /\ \A j \in RiskKeys : /\ v[j] \in Nat /\ w[j] \in Nat /\ counts[j] \in Nat
                               /\ v[j] <= w[j] /\ w[j] <= counts[j]
        /\ RiskKeys \subseteq RiskKeys
    BY <1>9, <1>10
  <2>2. /\ Summed(v, RiskKeys, d) \in Nat /\ Summed(w, RiskKeys, d) \in Nat
        /\ Summed(v, RiskKeys, d) <= Summed(w, RiskKeys, d)
        /\ Summed(w, RiskKeys, d) <= Summed(counts, RiskKeys, d)
    BY <2>1, SummedNat, SummedGrows
  <2>3. /\ batch.floor[d] \in Nat /\ batch.floor[d] = Summed(v, RiskKeys, d)
        /\ batch.floor[d] = Summed(counts, RiskKeys, d)
    BY <1>8, <1>a, TotalIs DEF Witness
  <2> QED BY <2>2, <2>3
<1>17. ASSUME NEW x \in RiskKeys \ {}, w[x] > 0
       PROVE  x \in Missing' \/ \E o \in Tagged(a) : o[2] = x
  <2>1. ASSUME NEW j \in 1..Len(a), a[j].key = x PROVE \E o \in Tagged(a) : o[2] = x
    <3> DEFINE o == <<Len(a) - j, a[j].key, a[j].n>>
    <3>1. o \in Tagged(a) /\ o[2] = x
      BY <2>1 DEF Tagged
    <3> QED BY <3>1
  <2>2. CASE x = k
    <3>1. Len(b) + 1 \in 1..Len(a) /\ a[Len(b) + 1].key = x
      BY <1>2, <1>6, <2>2
    <3> QED BY <2>1, <3>1
  <2>3. CASE x # k /\ x \in Missing
    <3>1. x \in batch.must /\ batch.visits[x] = 0 /\ x \in Keys
      BY <1>1, <2>3 DEF Missing, Keys
    <3>2. batch'.visits[x] = 0
      BY <1>4, <1>5, <2>3, <3>1
    <3> QED BY <1>1, <1>4, <3>1, <3>2 DEF Missing
  <2>4. CASE x # k /\ x \notin Missing
    <3>1. PICK o \in Tagged(b) : o[2] = x
      BY <1>8, <1>10, <1>17, <2>4 DEF Witness
    <3>2. PICK j \in 1..Len(b) : o = <<Len(b) - j, b[j].key, b[j].n>>
      BY <3>1 DEF Tagged
    <3>3. j \in 1..Len(a) /\ a[j].key = x
      BY <1>6, <3>1, <3>2
    <3> QED BY <2>1, <3>3
  <2> QED BY <2>2, <2>3, <2>4
<1>18. Witness(counts, w, {}, Tagged(a), Missing', batch.floor)
  BY <1>10, <1>14, <1>15, <1>16, <1>17 DEF Witness
<1>19. Unread(counts, Tagged(a), Missing', batch.floor)
  BY <1>18 DEF Unread
<1>20. \A d \in Domains : Total(d)' = Total(d)
  BY <1>1 DEF Total
<1> QED BY <1>1, <1>4, <1>a, <1>19, <1>20

\* It is complete.
LEMMA OverSums ==
    ASSUME GaugeInv, IterationOver
    PROVE  SnapshotSums'
<1>1. /\ uds = "iterate" /\ uds' = "head" /\ UNCHANGED <<batch, counts>>
      /\ batch.moved \/ \A k \in batch.must : batch.visits[k] > 0
  BY DEF IterationOver, Uds, maps
<1> SUFFICES ASSUME batch.type = 1, ~batch.moved
             PROVE  Unread(counts', Tagged(batch.bodies), Missing', batch.floor)
  BY <1>1 DEF SnapshotSums
<1>2. Missing = {} /\ Missing' = {}
  <2>1. \A k \in batch.must : batch.visits[k] # 0
    BY <1>1
  <2> QED BY <1>1, <2>1 DEF Missing
<1>3. Unread(counts, Tagged(batch.bodies), {}, batch.floor)
  BY <1>1, <1>2 DEF GaugeInv, SnapshotSums
<1> QED BY <1>1, <1>2, <1>3

-----------------------------------------------------------------------------
(***************************************************************************)
(* The snapshot is sent.                                                   *)
(***************************************************************************)
LEMMA SentSums == ASSUME NEW rest, Sent(rest) PROVE SnapshotSums'
<1>1. CASE rest # <<>>
  <2>1. uds' = "body"
    BY <1>1 DEF Sent
  <2> QED BY <2>1 DEF SnapshotSums
<1>2. CASE rest = <<>> /\ batch.type = 1
  <2>1. Begin(2)
    BY <1>2 DEF Sent
  <2>2. batch'.type = 2
    BY <2>1, BeginIs
  <2> QED BY <2>2 DEF SnapshotSums
<1>3. CASE rest = <<>> /\ batch.type # 1
  <2>1. uds' = "round"
    BY <1>3 DEF Sent
  <2> QED BY <2>1 DEF SnapshotSums
<1> QED BY <1>1, <1>2, <1>3

\* A header: the batches before it are complete, and it owes the snapshot.
LEMMA HeadSums == ASSUME StreamInv, GaugeInv, SendHead, UNCHANGED govars PROVE GaugeInv'
<1> DEFINE m == HeadMsg(batch.type, Len(batch.bodies), batch.floor, batch.moved)
           a == Append(stream, m)
<1>1. /\ stream' = a /\ Sent(batch.bodies) /\ uds = "head" /\ client = "live"
      /\ UNCHANGED <<client, counts, go, left, type, summary, gauge, origin>>
  BY DEF SendHead, SendOk, govars, inbox, metrics, maps
<1>2. /\ IsSeq(stream) /\ left \in Nat /\ IsBatch(batch) /\ IsSeq(batch.bodies)
      /\ batch.type \in {1, 2} /\ (~batch.moved => Distinct(batch.bodies))
  BY <1>1 DEF StreamInv, StreamTypes, Snapshot, IsBatch
<1>3. /\ m.kind = "head" /\ m.type = batch.type /\ m.n = Len(batch.bodies)
      /\ m.moved = batch.moved /\ m.floor = batch.floor
  BY DEF HeadMsg
<1>4. /\ Len(stream) \in Nat /\ IsSeq(a) /\ Len(a) = Len(stream) + 1
      /\ \A j \in 1..Len(stream) : a[j] = stream[j]
      /\ a[Len(stream) + 1] = m
  BY <1>2, SeqAppend, SeqBasics
<1> HIDE DEF a, m
<1>5. uds' \in {"round", "iterate", "body"} /\ Unsent' = batch.bodies
  BY <1>1, <1>2, SentIs
<1>6. Live /\ Unsent = <<>> /\ Live'
  BY <1>1, <1>5 DEF Live, Unsent
<1>7. ASSUME NEW i \in Nat, NEW n \in Nat, NEW t, i <= Len(stream),
             Framed(stream, i, n, t, Live, Unsent, batch.type)
      PROVE  /\ Owed(a, i, n, Live', Unsent') = Owed(stream, i, n, Live, Unsent)
             /\ Lost(a, i + n, Live') = Lost(stream, i + n, Live)
  <2>1. i + n <= Len(stream)
    BY <1>4, <1>6, <1>7, SeqEmpty DEF Framed
  <2>2. /\ Owed(a, i, n, Live', Unsent') = Owed(stream, i, n, Live, Unsent)
        /\ Lost(a, i + n, Live') = {} /\ Lost(stream, i + n, Live) = {}
    BY ONLY <2>1, <1>2, i \in Nat, n \in Nat, OwedComplete DEF a
  <2> QED BY <2>2
<1>8. WaySums'
  <2> SUFFICES ASSUME NEW i \in 1..Len(a), a[i].kind = "head", a[i].type = 1, ~a[i].moved
               PROVE  Unread(counts, Owed(a, i, a[i].n, Live', Unsent'),
                             Lost(a, i + a[i].n, Live'), a[i].floor)
    BY <1>1 DEF WaySums
  <2>1. CASE i \in 1..Len(stream)
    <3> DEFINE h == stream[i]
    <3>1. /\ a[i] = h /\ i \in Nat /\ i <= Len(stream) /\ h.n \in Nat
          /\ Framed(stream, i, h.n, h.type, Live, Unsent, batch.type)
          /\ Unread(counts, Owed(stream, i, h.n, Live, Unsent), Lost(stream, i + h.n, Live), h.floor)
      BY <1>4, <2>1 DEF StreamInv, OnTheWay, GaugeInv, WaySums
    <3> HIDE DEF h
    <3>2. /\ Owed(a, i, h.n, Live', Unsent') = Owed(stream, i, h.n, Live, Unsent)
          /\ Lost(a, i + h.n, Live') = Lost(stream, i + h.n, Live)
      BY <1>7, <3>1
    <3> QED BY <3>1, <3>2
  <2>2. CASE i = Len(stream) + 1
    <3>1. a[i] = m /\ i = Len(a)
      BY <1>4, <2>2
    <3>2. Owed(a, Len(a), Len(batch.bodies), Live', batch.bodies) = Tagged(batch.bodies)
      BY <1>2, <1>4, <1>6, OwedNew
    <3>3. Lost(a, i + m.n, Live') = {}
      BY <1>6 DEF Lost
    <3>4. Unread(counts, Tagged(batch.bodies), Missing, batch.floor) /\ Missing = {}
      BY <1>1, <1>3, <3>1 DEF GaugeInv, SnapshotSums, Missing
    <3> QED BY <1>3, <1>5, <3>1, <3>2, <3>3, <3>4
  <2> QED BY <1>4, <2>1, <2>2
<1>9. ReadSums'
  <2> SUFFICES ASSUME go = "body", type = 1, ~origin.moved[1]
               PROVE  \E v, W :
                        /\ W \subseteq RiskKeys
                        /\ Witness(counts, v, W, Owed(a, 0, left, Live', Unsent'),
                                   Lost(a, left, Live'), origin.floor)
                        /\ \A d \in Domains : summary[d] = Summed(v, W, d)
    BY <1>1 DEF ReadSums
  <2>1. /\ Framed(stream, 0, left, type, Live, Unsent, batch.type)
        /\ 0 \in Nat /\ 0 <= Len(stream) /\ 0 + left = left
    BY <1>2, <1>4 DEF StreamInv, Expected
  <2>2. /\ Owed(a, 0, left, Live', Unsent') = Owed(stream, 0, left, Live, Unsent)
        /\ Lost(a, 0 + left, Live') = Lost(stream, 0 + left, Live)
    BY <1>2, <1>7, <2>1
  <2> QED BY <2>1, <2>2 DEF GaugeInv, ReadSums
<1>10. SumTypes' /\ SetSums' /\ GaugeFaithful'
  BY <1>1, MapsStay, ShownKept
<1> QED BY <1>1, <1>8, <1>9, <1>10, SentSums DEF GaugeInv

\* A body: it was owed before.
LEMMA BodySums == ASSUME StreamInv, GaugeInv, SendBody, UNCHANGED govars PROVE GaugeInv'
<1> DEFINE rest == batch.bodies
           m    == BodyMsg(batch.type, Head(rest).key, Head(rest).n)
           a    == Append(stream, m)
<1>1. /\ stream' = a /\ Sent(Tail(rest)) /\ uds = "body" /\ client = "live"
      /\ UNCHANGED <<client, counts, go, left, type, summary, gauge, origin>>
  BY DEF SendBody, SendOk, govars, inbox, metrics, maps
<1>2. IsSeq(stream) /\ left \in Nat /\ IsSeq(rest) /\ rest # <<>>
  BY <1>1 DEF StreamInv, StreamTypes, Snapshot, IsBatch
<1>3. m.kind = "body" /\ m.key = Head(rest).key /\ m.n = Head(rest).n
  BY DEF BodyMsg
<1>4. /\ Len(stream) \in Nat /\ IsSeq(a) /\ Len(a) = Len(stream) + 1
      /\ \A j \in 1..Len(stream) : a[j] = stream[j]
      /\ a[Len(stream) + 1] = m
  BY <1>2, SeqAppend, SeqBasics
<1>5. Live /\ Unsent = rest
  BY <1>1 DEF Live, Unsent
<1> HIDE DEF a, m
<1>6. uds' \in {"round", "iterate", "body"} /\ Unsent' = Tail(rest)
  <2>1. CASE Tail(rest) # <<>>
    <3>1. uds' = "body" /\ batch' = [batch EXCEPT !.bodies = Tail(rest)] /\ IsBatch(batch)
      BY <1>1, <2>1 DEF Sent, StreamInv, StreamTypes
    <3>2. batch'.bodies = Tail(rest)
      BY <3>1 DEF IsBatch
    <3> QED BY <3>1, <3>2 DEF Unsent
  <2>2. CASE Tail(rest) = <<>>
    <3>1. uds' \in {"round", "iterate"}
      BY <1>1, <2>2 DEF Sent
    <3> QED BY <2>2, <3>1 DEF Unsent
  <2> QED BY <2>1, <2>2
<1> HIDE DEF rest
<1>7. Live'
  BY <1>1, <1>6 DEF Live
<1>8. ASSUME NEW i \in Nat, NEW n \in Nat, NEW t, i <= Len(stream),
             Framed(stream, i, n, t, Live, Unsent, batch.type)
      PROVE  /\ Owed(a, i, n, Live', Unsent') = Owed(stream, i, n, Live, Unsent)
             /\ Lost(a, i + n, Live') = Lost(stream, i + n, Live)
  <2>1. i + n >= Len(stream) => Live /\ i + n = Len(stream) + Len(rest)
    BY <1>5, <1>8 DEF Framed
  <2>2. Live' = Live /\ Live \in BOOLEAN
    BY <1>5, <1>7 DEF Live
  <2>3. Owed(a, i, n, Live, Tail(rest)) = Owed(stream, i, n, Live, rest)
    BY ONLY <1>2, <1>3, <2>1, <2>2, i \in Nat, n \in Nat, i <= Len(stream), OwedSent DEF a
  <2>4. Lost(a, i + n, Live') = {} /\ Lost(stream, i + n, Live) = {}
    BY <1>5, <1>7 DEF Lost
  <2> QED BY <1>5, <1>6, <2>2, <2>3, <2>4
<1>9. WaySums'
  <2> SUFFICES ASSUME NEW i \in 1..Len(a), a[i].kind = "head", a[i].type = 1, ~a[i].moved
               PROVE  Unread(counts, Owed(a, i, a[i].n, Live', Unsent'),
                             Lost(a, i + a[i].n, Live'), a[i].floor)
    BY <1>1 DEF WaySums
  <2>1. i \in 1..Len(stream)
    BY <1>3, <1>4
  <2> DEFINE h == stream[i]
  <2>2. /\ a[i] = h /\ i \in Nat /\ i <= Len(stream) /\ h.n \in Nat
        /\ Framed(stream, i, h.n, h.type, Live, Unsent, batch.type)
        /\ Unread(counts, Owed(stream, i, h.n, Live, Unsent), Lost(stream, i + h.n, Live), h.floor)
    BY <1>4, <2>1 DEF StreamInv, OnTheWay, GaugeInv, WaySums
  <2> HIDE DEF h
  <2>3. /\ Owed(a, i, h.n, Live', Unsent') = Owed(stream, i, h.n, Live, Unsent)
        /\ Lost(a, i + h.n, Live') = Lost(stream, i + h.n, Live)
    BY <1>8, <2>2
  <2> QED BY <2>2, <2>3
<1>10. ReadSums'
  <2> SUFFICES ASSUME go = "body", type = 1, ~origin.moved[1]
               PROVE  \E v, W :
                        /\ W \subseteq RiskKeys
                        /\ Witness(counts, v, W, Owed(a, 0, left, Live', Unsent'),
                                   Lost(a, left, Live'), origin.floor)
                        /\ \A d \in Domains : summary[d] = Summed(v, W, d)
    BY <1>1 DEF ReadSums
  <2>1. /\ Framed(stream, 0, left, type, Live, Unsent, batch.type)
        /\ 0 \in Nat /\ 0 <= Len(stream) /\ 0 + left = left
    BY <1>2, <1>4 DEF StreamInv, Expected
  <2>2. /\ Owed(a, 0, left, Live', Unsent') = Owed(stream, 0, left, Live, Unsent)
        /\ Lost(a, 0 + left, Live') = Lost(stream, 0 + left, Live)
    BY <1>2, <1>8, <2>1
  <2> QED BY <2>1, <2>2 DEF GaugeInv, ReadSums
<1>11. SumTypes' /\ SetSums' /\ GaugeFaithful'
  BY <1>1, MapsStay, ShownKept
<1> QED BY <1>1, <1>9, <1>10, <1>11, SentSums DEF GaugeInv

(***************************************************************************)
(* The UDS thread and the writers.                                         *)
(***************************************************************************)
LEMMA UdsSums ==
    ASSUME StreamInv, StreamInv', GaugeInv, UdsThread, UNCHANGED govars
    PROVE  GaugeInv'
<1>1. UNCHANGED <<go, left, type, summary, gauge, origin>>
  BY DEF govars, inbox, metrics
\* the stream stays, and the snapshot sums are as the step leaves them
<1>2. ASSUME UNCHANGED <<stream, counts>>, SnapshotSums',
             (stream = <<>> /\ left = 0) \/ (Live' => Live /\ Unsent' = Unsent)
      PROVE  GaugeInv'
  BY <1>1, <1>2, MapsStay, WayKept, ReadKept, ShownKept DEF GaugeInv
<1>3. ASSUME UNCHANGED <<stream, counts>>, uds' \notin {"round", "iterate", "head", "body"}
      PROVE  GaugeInv'
  <2>1. ~Live' /\ SnapshotSums'
    BY <1>3 DEF Live, SnapshotSums
  <2> QED BY <1>2, <1>3, <2>1
<1>4. CASE StartUds BY <1>3, <1>4 DEF StartUds, Uds, kernel, maps
<1>5. CASE CreateSocket BY <1>3, <1>5 DEF CreateSocket, Uds, maps
<1>6. CASE PublishFd BY <1>3, <1>6 DEF PublishFd, Uds, kernel, maps
<1>7. CASE TestRunning BY <1>3, <1>7 DEF TestRunning, Uds, kernel, maps
<1>8. CASE AcceptClient
  <2>1. /\ uds' = "round" /\ UNCHANGED <<stream, counts>>
        /\ \/ conn = "queued" /\ client' = "live"
           \/ client' = "dead"
    BY <1>8 DEF AcceptClient, Accept, Uds, maps
  <2>2. SnapshotSums'
    BY <2>1 DEF SnapshotSums
  <2>3. CASE conn = "queued"
    <3>1. stream = <<>> /\ left = 0
      BY <2>3 DEF StreamInv, Connected
    <3> QED BY <1>2, <2>1, <2>2, <3>1
  <2>4. CASE client' = "dead"
    <3>1. ~Live'
      BY <2>4 DEF Live
    <3> QED BY <1>2, <2>1, <2>2, <3>1
  <2> QED BY <2>1, <2>3, <2>4
<1>9. CASE AcceptFails BY <1>3, <1>9 DEF AcceptFails, Uds, maps
<1>10. CASE CloseServer BY <1>3, <1>10 DEF CloseServer, Uds, maps
<1>11. CASE ForgetFd BY <1>3, <1>11 DEF ForgetFd, Uds, kernel, maps
<1>12. CASE Round
  <2>1. UNCHANGED <<stream, client, counts>> /\ uds = "round"
    BY <1>12 DEF Round, Uds, kernel, maps
  <2>2. CASE uds' = "iterate" /\ Begin(1)
    <3>1. SnapshotSums'
      BY <2>1, <2>2, BeginSums
    <3>2. (Live' => Live) /\ Unsent' = Unsent
      BY <2>1, <2>2 DEF Live, Unsent
    <3> QED BY <1>2, <2>1, <3>1, <3>2
  <2>3. CASE uds' = "hangup"
    BY <1>3, <2>1, <2>3
  <2> QED BY <1>12, <2>2, <2>3 DEF Round, Uds
<1>13. ASSUME NEW k \in Keys, Visit(k) PROVE GaugeInv'
  <2>1. UNCHANGED <<stream, client, counts>> /\ uds = "iterate" /\ uds' = "iterate"
    BY <1>13 DEF Visit, Uds, kernel, maps
  <2>2. SnapshotSums'
    BY <1>13, VisitSums
  <2>3. (Live' => Live) /\ Unsent' = Unsent
    BY <2>1 DEF Live, Unsent
  <2> QED BY <1>2, <2>1, <2>2, <2>3
<1>14. CASE IterationOver
  <2>1. UNCHANGED <<stream, client, counts>> /\ uds = "iterate" /\ uds' = "head"
    BY <1>14 DEF IterationOver, Uds, kernel, maps
  <2>2. SnapshotSums'
    BY <1>14, OverSums
  <2>3. (Live' => Live) /\ Unsent' = Unsent
    BY <2>1 DEF Live, Unsent
  <2> QED BY <1>2, <2>1, <2>2, <2>3
<1>15. CASE SendHead BY <1>15, HeadSums
<1>16. CASE SendBody BY <1>16, BodySums
<1>17. CASE SendFailed BY <1>3, <1>17 DEF SendFailed, Uds, maps
<1>18. CASE CloseClient BY <1>3, <1>18 DEF CloseClient, HangUp, Uds, maps
<1> QED
  BY <1>4, <1>5, <1>6, <1>7, <1>8, <1>9, <1>10, <1>11, <1>12, <1>13, <1>14, <1>15, <1>16,
     <1>17, <1>18 DEF UdsThread

\* An update makes a count larger, and marks the snapshot of its map.
LEMMA CountSums ==
    ASSUME StreamInv, GaugeInv, NEW k \in Keys, Count(k), UNCHANGED <<stream, client, uds>>,
           UNCHANGED govars
    PROVE  GaugeInv'
<1>1. UNCHANGED <<go, left, type, summary, gauge, origin>>
  BY DEF govars, inbox, metrics
<1>2. counts \in [Keys -> Nat] /\ counts' = [counts EXCEPT ![k] = @ + 1]
  BY DEF GaugeInv, SumTypes, Count
<1>3. MapsGrow
  BY <1>2 DEF MapsGrow
<1> DEFINE g == batch.moved \/ (uds = "iterate" /\ k \in KeysOf(batch.type))
<1>4. batch' = [batch EXCEPT !.moved = g] /\ IsBatch(batch) /\ (batch.moved => g)
  BY DEF Count, StreamInv, StreamTypes
<1> HIDE DEF g
<1>5. /\ batch'.type = batch.type /\ batch'.bodies = batch.bodies /\ batch'.must = batch.must
      /\ batch'.visits = batch.visits /\ batch'.floor = batch.floor /\ batch'.moved = g
  BY <1>4 DEF IsBatch
<1>a. uds = "iterate" /\ batch.type = 1 /\ ~batch'.moved =>
          \A j \in RiskKeys : counts'[j] = counts[j]
  <2> SUFFICES ASSUME uds = "iterate", batch.type = 1, ~batch'.moved, NEW j \in RiskKeys
               PROVE  counts'[j] = counts[j]
    OBVIOUS
  <2>1. k \notin RiskKeys
    BY <1>5 DEF g, KeysOf
  <2> QED BY <1>2, <2>1
<1>6. SnapshotSums'
  BY <1>3, <1>4, <1>5, <1>a, SnapshotKept
<1>7. Live' = Live /\ Unsent' = Unsent
  BY <1>5 DEF Live, Unsent
<1> QED BY <1>1, <1>3, <1>6, <1>7, WayKept, ReadKept, ShownKept DEF GaugeInv

LEMMA WriterSums ==
    ASSUME StreamInv, GaugeInv, UNCHANGED govars,
           (\E k \in RiskKeys : RiskUpdate(k)) \/ (\E k \in FileKeys : KsmEvent(k)) \/ KsmReadFails
    PROVE  GaugeInv'
<1>1. ASSUME NEW k \in RiskKeys, RiskUpdate(k) PROVE GaugeInv'
  <2>1. k \in Keys /\ Count(k) /\ UNCHANGED <<stream, client, uds>>
    BY <1>1 DEF RiskUpdate, kernel, Keys
  <2> QED BY <2>1, CountSums
<1>2. ASSUME NEW k \in FileKeys, KsmEvent(k) PROVE GaugeInv'
  <2>1. k \in Keys /\ Count(k) /\ UNCHANGED <<stream, client, uds>>
    BY <1>2 DEF KsmEvent, kernel, Keys
  <2> QED BY <2>1, CountSums
<1>3. CASE KsmReadFails
  <2>1. UNCHANGED <<stream, client, uds, batch, counts, go, left, type, summary, gauge, origin>>
    BY <1>3 DEF KsmReadFails, kernel, govars, inbox, metrics
  <2>2. Live' => Live
    BY <2>1 DEF Live
  <2> QED BY <2>1, <2>2, QuietSums
<1> QED BY <1>1, <1>2, <1>3

LEMMA StopperSums ==
    ASSUME StreamInv, GaugeInv, Stopper \/ Crash, UNCHANGED govars
    PROVE  GaugeInv'
<1>1. /\ UNCHANGED <<stream, uds, batch, counts, go, left, type, summary, gauge, origin>>
      /\ client' = client \/ client' = "none"
  BY DEF Stopper, StopClear, StopLoadFd, StopShutdown, StopJoin, Crash, Die, kernel, cpp, maps,
         govars, inbox, metrics
<1>2. Live' => Live
  BY <1>1 DEF Live
<1> QED BY <1>1, <1>2, QuietSums

-----------------------------------------------------------------------------
(***************************************************************************)
(* Go reads the snapshot.                                                  *)
(***************************************************************************)
LEMMA WayTail ==
    ASSUME StreamInv, GaugeInv, stream # <<>>, Consume, UNCHANGED cpp
    PROVE  WaySums' /\ SnapshotSums'
<1> DEFINE a == Tail(stream)
<1>1. /\ IsSeq(stream) /\ stream' = a /\ Live' = Live /\ Unsent' = Unsent
      /\ Len(stream) \in Nat \ {0} /\ UNCHANGED <<uds, batch, counts>>
  BY Consumed DEF cpp, maps
<1>2. Len(a) = Len(stream) - 1 /\ \A j \in 1..Len(a) : a[j] = stream[j + 1]
  BY <1>1, SeqTail
<1>3. SnapshotSums'
  BY <1>1, MapsStay, SnapshotKept
<1> HIDE DEF a
<1>4. WaySums'
  <2> SUFFICES ASSUME NEW i \in 1..Len(a), a[i].kind = "head", a[i].type = 1, ~a[i].moved
               PROVE  Unread(counts, Owed(a, i, a[i].n, Live, Unsent),
                             Lost(a, i + a[i].n, Live), a[i].floor)
    BY <1>1 DEF WaySums
  <2> DEFINE h == stream[i + 1]
  <2>1. a[i] = h /\ i \in Nat /\ i + 1 \in 1..Len(stream)
    BY <1>1, <1>2
  <2>2. /\ h.n \in Nat
        /\ Unread(counts, Owed(stream, i + 1, h.n, Live, Unsent), Lost(stream, i + 1 + h.n, Live),
                  h.floor)
    BY <2>1 DEF StreamInv, OnTheWay, GaugeInv, WaySums
  <2> HIDE DEF h
  <2>3. IsSeq(stream) /\ i \in Nat /\ h.n \in Nat
    BY <1>1, <2>1, <2>2
  <2> DEFINE n == h.n
  <2> HIDE DEF n
  <2>4. /\ Owed(a, i, n, Live, Unsent) = Owed(stream, i + 1, n, Live, Unsent)
        /\ Lost(a, i + n, Live) = Lost(stream, i + 1 + n, Live)
    <3>1. IsSeq(stream) /\ stream # <<>> /\ i \in Nat /\ n \in Nat
      BY <2>3 DEF n
    <3> QED BY ONLY <3>1, OwedTail DEF a
  <2> QED BY <2>1, <2>2, <2>4 DEF n
<1> QED BY <1>3, <1>4

\* A header of risk counts: nothing is summed yet, and the gauges are reset.
LEMMA HeaderSums == ASSUME StreamInv, GaugeInv, ReadHeader, UNCHANGED cpp PROVE GaugeInv'
<1> DEFINE h == stream[1]
           a == Tail(stream)
<1>1. go = "read" /\ stream # <<>> /\ Consume /\ summary' = summary
  BY DEF ReadHeader, Reading
<1>2. /\ IsSeq(stream) /\ stream' = a /\ Live' = Live /\ Unsent' = Unsent
      /\ Len(stream) \in Nat \ {0} /\ Head(stream) = h /\ left \in Nat /\ UNCHANGED counts
  BY <1>1, Consumed DEF cpp, maps
<1>3. left = 0
  BY <1>1, <1>2 DEF StreamInv, Connected
<1>4. h.kind = "head"
  BY <1>1, <1>2, <1>3 DEF StreamInv, Expected, Framed
<1>5. /\ h.n \in Nat /\ h.type \in {1, 2}
      /\ h.type = 1 /\ ~h.moved => Unread(counts, Owed(stream, 1, h.n, Live, Unsent),
                                          Lost(stream, 1 + h.n, Live), h.floor)
  BY <1>2, <1>4 DEF StreamInv, OnTheWay, GaugeInv, WaySums
<1>6. /\ type' = (IF h.n > 0 THEN h.type ELSE 0) /\ left' = h.n
      /\ IF h.type = 1 THEN ResetMetrics ELSE UNCHANGED <<gauge, files>>
      /\ origin' = IF h.type = 1 THEN [floor |-> h.floor, moved |-> <<h.moved, FALSE>>]
                                 ELSE [origin EXCEPT !.moved[2] = h.moved]
      /\ go' = IF h.n > 0 THEN "body" ELSE "test"
  BY <1>2, <1>4 DEF ReadHeader
<1> HIDE DEF h, a
<1>7. /\ DOMAIN origin = {"floor", "moved"} /\ 1 \in DOMAIN origin.moved /\ SumTypes
      /\ 2 \in DOMAIN origin.moved
  BY DEF StreamInv, StreamTypes, GaugeInv, SumTypes
<1>8. summary = NoSums /\ NoSums \in [Domains -> Nat] /\ \A d \in Domains : NoSums[d] = 0
  BY <1>1, <1>7 DEF SumTypes, NoSums
<1>9. CASE h.type = 1
  <2>1. /\ origin'.floor = h.floor /\ origin'.moved[1] = h.moved /\ 1 \in DOMAIN origin'.moved
        /\ gauge' = NoSums
    BY <1>6, <1>9 DEF ResetMetrics
  <2>2. SumTypes' /\ SetSums' /\ GaugeFaithful'
    BY <1>1, <1>2, <1>6, <1>7, <1>8, <2>1 DEF SumTypes, SetSums, GaugeFaithful, NoSums
  <2>3. ReadSums'
    <3> SUFFICES ASSUME ~h.moved
                 PROVE  \E v, W :
                          /\ W \subseteq RiskKeys
                          /\ Witness(counts, v, W, Owed(a, 0, h.n, Live, Unsent),
                                     Lost(a, h.n, Live), h.floor)
                          /\ \A d \in Domains : summary[d] = Summed(v, W, d)
      BY <1>1, <1>2, <1>6, <2>1 DEF ReadSums
    <3>1. PICK v : Witness(counts, v, {}, Owed(stream, 1, h.n, Live, Unsent),
                           Lost(stream, 1 + h.n, Live), h.floor)
      BY <1>5, <1>9 DEF Unread
    <3>2. 0 \in Nat /\ 0 + 1 = 1 /\ 0 + h.n = h.n /\ 0 + 1 + h.n = 1 + h.n
      BY <1>5
    <3>3. /\ Owed(a, 0, h.n, Live, Unsent) = Owed(stream, 0 + 1, h.n, Live, Unsent)
          /\ Lost(a, 0 + h.n, Live) = Lost(stream, 0 + 1 + h.n, Live)
      BY <1>1, <1>2, <1>5, <3>2, OwedTail DEF a
    <3>4. Witness(counts, v, {}, Owed(a, 0, h.n, Live, Unsent), Lost(a, h.n, Live), h.floor)
      BY <3>1, <3>2, <3>3
    <3>5. ASSUME NEW d \in Domains PROVE summary[d] = Summed(v, {}, d)
      <4>1. OfDomain({}, d) = {}
        BY DEF OfDomain
      <4> QED BY <1>8, <4>1, SumEmpty DEF Summed
    <3>6. {} \subseteq RiskKeys
      OBVIOUS
    <3> QED BY <3>4, <3>5, <3>6
  <2> QED BY <1>1, <2>2, <2>3, WayTail DEF GaugeInv
<1>10. CASE h.type = 2
  <2>1. UNCHANGED gauge /\ origin' = [origin EXCEPT !.moved[2] = h.moved] /\ type' # 1
    BY <1>6, <1>10
  <2>2. /\ origin'.floor = origin.floor /\ origin'.moved[1] = origin.moved[1]
        /\ 1 \in DOMAIN origin'.moved
    BY <1>7, <2>1
  <2>3. go' # "set"
    BY <1>6
  <2>4. SumTypes' /\ SetSums' /\ ReadSums'
    BY <1>1, <1>2, <1>7, <1>8, <2>1, <2>2, <2>3 DEF SumTypes, SetSums, ReadSums, NoSums
  <2>5. GaugeFaithful'
    <3>1. \A d \in Domains : Total(d)' = Total(d)
      BY <1>2 DEF Total
    <3> QED BY <2>1, <2>2, <3>1 DEF GaugeInv, GaugeFaithful
  <2> QED BY <1>1, <2>4, <2>5, WayTail DEF GaugeInv
<1> QED BY <1>5, <1>9, <1>10

\* A risk count: it is one of those still owed.
LEMMA RiskSums == ASSUME StreamInv, GaugeInv, ReadRisk, UNCHANGED cpp PROVE GaugeInv'
<1> DEFINE b == stream[1]
           a == Tail(stream)
           D == DomainOf[b.key]
<1>1. /\ go = "body" /\ stream # <<>> /\ Consume /\ type = 1
      /\ left' = left - 1 /\ UNCHANGED <<gauge, origin>>
      /\ summary' = [summary EXCEPT ![DomainOf[Head(stream).key]] = @ + Head(stream).n]
      /\ type' = IF left = 1 THEN 0 ELSE 1
      /\ go' = IF left = 1 THEN "set" ELSE "body"
  BY DEF ReadRisk, Reading, metrics
<1>2. /\ IsSeq(stream) /\ stream' = a /\ Live' = Live /\ Unsent' = Unsent /\ IsSeq(Unsent)
      /\ Len(stream) \in Nat \ {0} /\ Head(stream) = b /\ left \in Nat /\ UNCHANGED counts
  BY <1>1, Consumed DEF cpp, maps
<1>3. summary' = [summary EXCEPT ![D] = @ + b.n]
  BY <1>1, <1>2
<1> HIDE DEF a, b, D
<1>4. /\ left \in Nat \ {0} /\ left - 1 \in Nat /\ 0 + left = left /\ 0 + (left - 1) = left - 1
      /\ (left = 1 <=> left - 1 = 0)
  BY <1>1, <1>2 DEF StreamInv, Connected
<1>5. Live /\ left >= Len(stream) => left = Len(stream) + Len(Unsent)
  BY <1>1, <1>4 DEF StreamInv, Expected, Framed
<1>6. SumTypes /\ counts \in [Keys -> Nat] /\ \A k \in RiskKeys : counts[k] \in Nat
  BY <1>2, MapsStay, RiskGrows DEF GaugeInv, SumTypes
<1>7. GaugeFaithful'
  <2>1. \A d \in Domains : Total(d)' = Total(d)
    BY <1>2 DEF Total
  <2> QED BY <1>1, <2>1 DEF GaugeInv, GaugeFaithful
<1>8. CASE origin.moved[1]
  <2>1. SumTypes'
    BY <1>1, <1>2, <1>6, <1>8 DEF SumTypes
  <2>2. SetSums' /\ ReadSums'
    BY <1>1, <1>8 DEF SetSums, ReadSums
  <2> QED BY <1>1, <1>7, <2>1, <2>2, WayTail DEF GaugeInv
<1>9. CASE ~origin.moved[1]
  <2> DEFINE O == Owed(stream, 0, left, Live, Unsent)
             M == Lost(stream, left, Live)
             o == <<left - 1, b.key, b.n>>
  <2>1. /\ o \in O
        /\ Owed(a, 0, left - 1, Live, Unsent) = O \ {o}
        /\ Lost(a, left - 1, Live) = M
    BY ONLY <1>1, <1>2, <1>4, <1>5, OwedRead DEF a, b
  <2>2. PICK v, W : /\ W \subseteq RiskKeys
                    /\ Witness(counts, v, W, O, M, origin.floor)
                    /\ \A d \in Domains : summary[d] = Summed(v, W, d)
    BY <1>1, <1>9 DEF GaugeInv, ReadSums
  <2>3. o[2] = b.key /\ o[3] = b.n
    OBVIOUS
  <2> HIDE DEF O, M, o
  <2>4. /\ o[2] \in RiskKeys \ W /\ o[3] = v[o[2]]
        /\ Witness(counts, v, W \cup {o[2]}, O \ {o}, M, origin.floor)
    <3>1. o \in O /\ Witness(counts, v, W, O, M, origin.floor)
      BY <2>1, <2>2
    <3> QED BY ONLY <3>1, WitnessRead
  <2> DEFINE X == W \cup {b.key}
  <2>5. /\ b.key \in RiskKeys \ W /\ b.n = v[b.key] /\ b.n \in Nat
        /\ \A k \in RiskKeys : v[k] \in Nat
        /\ Witness(counts, v, X, O \ {o}, M, origin.floor)
    <3>1. v \in [RiskKeys -> Nat]
      BY <2>2 DEF Witness
    <3> QED BY <2>3, <2>4, <3>1
  <2>6. X \subseteq RiskKeys
    BY <2>2, <2>5
  <2>7. summary \in [Domains -> Nat] /\ D \in Domains
    BY <1>6, <1>9, <2>5, KeyAssumption DEF SumTypes, D
  <2>8. summary' \in [Domains -> Nat]
    BY <1>3, <2>5, <2>7
  <2>9. ASSUME NEW d \in Domains PROVE summary'[d] = Summed(v, X, d)
    <3>1. /\ Summed(v, X, d) = Summed(v, W, d) + (IF DomainOf[b.key] = d THEN v[b.key] ELSE 0)
          /\ Summed(v, W, d) \in Nat
      <4> DEFINE x == b.key
      <4>1. /\ \A k \in RiskKeys : v[k] \in Nat
            /\ W \subseteq RiskKeys /\ x \in RiskKeys \ W
        BY <2>2, <2>5
      <4> HIDE DEF x
      <4>2. Summed(v, W, d) \in Nat
        BY <4>1, SummedNat
      <4>3. Summed(v, W \cup {x}, d) = Summed(v, W, d) + (IF DomainOf[x] = d THEN v[x] ELSE 0)
        BY ONLY <4>1, SummedInsert
      <4> QED BY <4>2, <4>3 DEF x
    <3>2. summary[d] = Summed(v, W, d) /\ summary[d] \in Nat
      BY <2>2, <2>7
    <3>3. CASE D = d
      BY <1>3, <2>5, <2>7, <3>1, <3>2, <3>3 DEF D
    <3>4. CASE D # d
      BY <1>3, <2>7, <3>1, <3>2, <3>4 DEF D
    <3> QED BY <3>3, <3>4
  <2> HIDE DEF X
  <2>10. SumTypes'
    <3>1. go' = "set" \/ (go' = "body" /\ type' = 1)
      BY <1>1
    <3> QED BY <1>1, <1>2, <1>6, <2>7, <2>8, <3>1 DEF SumTypes
  <2>11. ReadSums'
    <3> SUFFICES \E v2, W2 :
                   /\ W2 \subseteq RiskKeys
                   /\ Witness(counts, v2, W2, Owed(a, 0, left - 1, Live, Unsent),
                              Lost(a, left - 1, Live), origin.floor)
                   /\ \A d \in Domains : summary'[d] = Summed(v2, W2, d)
      BY <1>1, <1>2 DEF ReadSums
    <3>1. Witness(counts, v, X, Owed(a, 0, left - 1, Live, Unsent), Lost(a, left - 1, Live),
                  origin.floor)
      BY <2>1, <2>5
    <3> QED BY <2>6, <2>9, <3>1
  <2>12. SetSums'
    <3> SUFFICES ASSUME left = 1, NEW d \in Domains
                 PROVE  summary'[d] = origin.floor[d] /\ summary'[d] <= Total(d)'
      BY <1>1 DEF SetSums
    <3>1. left - 1 = 0 /\ IsSeq(a) /\ Len(a) \in Nat
      BY <1>1, <1>2, <1>4, SeqTail, SeqBasics DEF a
    <3>2. O \ {o} = {} /\ M = {}
      <4>1. ASSUME NEW p \in Owed(a, 0, 0, Live, Unsent) PROVE FALSE
        <5>1. ~(0 + 0 > Len(a)) /\ \A j \in (0 + 1)..(0 + 0) : FALSE
          BY <3>1
        <5> QED BY <4>1, <5>1, OwedIs
      <4>2. Lost(a, 0, Live) = {}
        BY <3>1 DEF Lost
      <4> QED BY <2>1, <3>1, <4>1, <4>2
    <3>3. Witness(counts, v, X, {}, {}, origin.floor)
      BY <2>5, <3>2 DEF X
    <3>4. Summed(v, X, d) = origin.floor[d] /\ Summed(v, X, d) <= Summed(counts, RiskKeys, d)
      BY <1>6, <2>6, <3>3, WitnessDone
    <3>5. Total(d)' = Summed(counts, RiskKeys, d)
      BY <1>2, TotalIs
    <3> QED BY <2>9, <3>4, <3>5
  <2> QED BY <1>1, <1>7, <2>10, <2>11, <2>12, WayTail DEF GaugeInv
<1> QED BY <1>8, <1>9

\* A file event: no sum is touched.
LEMMA FileSums == ASSUME StreamInv, GaugeInv, ReadFile, UNCHANGED cpp PROVE GaugeInv'
<1>1. /\ go = "body" /\ type = 2 /\ stream # <<>> /\ Consume
      /\ UNCHANGED <<summary, gauge, origin>> /\ type' # 1 /\ go' # "set"
  BY DEF ReadFile, Reading
<1>2. UNCHANGED counts /\ SumTypes /\ GaugeFaithful
  BY DEF cpp, maps, GaugeInv
<1>3. SumTypes' /\ SetSums' /\ ReadSums'
  BY <1>1, <1>2 DEF SumTypes, SetSums, ReadSums, NoSums
<1>4. GaugeFaithful'
  <2>1. \A d \in Domains : Total(d)' = Total(d)
    BY <1>2 DEF Total
  <2> QED BY <1>1, <1>2, <2>1 DEF GaugeFaithful
<1> QED BY <1>1, <1>3, <1>4, WayTail DEF GaugeInv

\* A gauge is set to a complete sum.
LEMMA GaugeSums ==
    ASSUME StreamInv, GaugeInv, NEW d \in Domains, SetGauge(d), UNCHANGED cpp
    PROVE  GaugeInv'
<1>1. /\ go = "set" /\ summary[d] > 0
      /\ gauge' = [gauge EXCEPT ![d] = summary[d]]
      /\ summary' = [summary EXCEPT ![d] = 0]
      /\ go' = IF summary' = NoSums THEN "test" ELSE "set"
      /\ UNCHANGED <<stream, client, uds, batch, counts, type, left, origin>>
  BY DEF SetGauge, kernel, cpp, maps
<1>2. Live' = Live /\ Unsent' = Unsent /\ MapsGrow
  BY <1>1, MapsStay DEF Live, Unsent
<1>3. WaySums' /\ SnapshotSums'
  BY <1>1, <1>2, WayKept, SnapshotKept
<1>4. ReadSums'
  BY <1>1 DEF ReadSums
<1>5. SumTypes /\ SetSums /\ GaugeFaithful
  BY DEF GaugeInv
<1>6. SumTypes'
  <2>1. ~origin.moved[1] => summary' \in [Domains -> Nat] /\ gauge' \in [Domains -> Nat]
    BY <1>1, <1>5 DEF SumTypes
  <2> QED BY <1>1, <1>5, <2>1 DEF SumTypes, NoSums
<1>7. ASSUME NEW e \in Domains, ~origin.moved[1]
      PROVE  /\ summary'[e] > 0 => summary'[e] = origin.floor[e] /\ summary'[e] <= Total(e)'
             /\ gauge'[e] > 0 => gauge'[e] = origin.floor[e] /\ gauge'[e] <= Total(e)'
  <2>1. /\ summary[e] > 0 => summary[e] = origin.floor[e] /\ summary[e] <= Total(e)
        /\ gauge[e] > 0 => gauge[e] = origin.floor[e] /\ gauge[e] <= Total(e)
        /\ summary \in [Domains -> Nat] /\ gauge \in [Domains -> Nat]
    BY <1>1, <1>5, <1>7 DEF SumTypes, SetSums, GaugeFaithful
  <2>2. Total(e)' = Total(e)
    BY <1>1 DEF Total
  <2>3. CASE e = d
    <3>1. summary'[e] = 0 /\ gauge'[e] = summary[e] /\ summary[e] > 0
      BY <1>1, <2>1, <2>3
    <3> QED BY <2>1, <2>2, <3>1
  <2>4. CASE e # d
    <3>1. summary'[e] = summary[e] /\ gauge'[e] = gauge[e]
      BY <1>1, <2>1, <2>4
    <3> QED BY <2>1, <2>2, <3>1
  <2> QED BY <2>3, <2>4
<1>8. SetSums' /\ GaugeFaithful'
  BY <1>1, <1>7 DEF SetSums, GaugeFaithful
<1> QED BY <1>3, <1>4, <1>6, <1>8 DEF GaugeInv

\* A stream that ends leaves no partial sum.
LEMMA FailSums == ASSUME StreamInv, GaugeInv, ReadFails, UNCHANGED cpp PROVE GaugeInv'
<1>1. /\ go' = "broken" /\ summary' = NoSums /\ type' = 0
      /\ UNCHANGED <<stream, client, uds, batch, counts, gauge, origin>>
  BY DEF ReadFails, Go, metrics, cpp, maps
<1>2. Live' = Live /\ Unsent' = Unsent /\ MapsGrow
  BY <1>1, MapsStay DEF Live, Unsent
<1>3. WaySums' /\ SnapshotSums'
  BY <1>1, <1>2, WayKept, SnapshotKept
<1>4. ReadSums' /\ SetSums'
  BY <1>1 DEF ReadSums, SetSums
<1>5. SumTypes /\ GaugeFaithful /\ \A d \in Domains : Total(d)' = Total(d)
  BY <1>1 DEF GaugeInv, Total
<1>6. SumTypes' /\ GaugeFaithful'
  BY <1>1, <1>5 DEF SumTypes, GaugeFaithful, NoSums
<1> QED BY <1>3, <1>4, <1>6 DEF GaugeInv

\* Nor does the end of Go: the gauges it had shown are as they were.
LEMMA FatalSums == ASSUME StreamInv, GaugeInv, ServeFatal, UNCHANGED cpp PROVE GaugeInv'
<1>1. /\ go' = "fatal" /\ summary' = NoSums /\ type' = 0 /\ stream' = <<>>
      /\ UNCHANGED <<uds, batch, counts, gauge, origin>>
  BY DEF ServeFatal, CutOff, metrics, cpp, maps
<1>2. MapsGrow
  BY <1>1, MapsStay
<1>3. WaySums' /\ SnapshotSums'
  BY <1>1, <1>2, SeqEmpty, SnapshotKept DEF WaySums
<1>4. ReadSums' /\ SetSums'
  BY <1>1 DEF ReadSums, SetSums
<1>5. SumTypes /\ GaugeFaithful /\ \A d \in Domains : Total(d)' = Total(d)
  BY <1>1 DEF GaugeInv, Total
<1>6. SumTypes' /\ GaugeFaithful'
  BY <1>1, <1>5 DEF SumTypes, GaugeFaithful, NoSums
<1> QED BY <1>3, <1>4, <1>6 DEF GaugeInv

LEMMA GoSums == ASSUME StreamInv, GaugeInv, GoProcess, UNCHANGED cpp PROVE GaugeInv'
<1>1. UNCHANGED <<uds, batch, counts>>
  BY DEF cpp, maps
<1>2. ASSUME UNCHANGED <<left, type, summary, gauge, origin>>,
             go' = go \/ (go \notin {"body", "set"} /\ go' \notin {"body", "set"}),
             \/ stream' = stream /\ (client' = client \/ client' = "none")
             \/ stream' = <<>> /\ client' # "live"
      PROVE  GaugeInv'
  <2>1. (stream' = stream /\ (Live' => Live)) \/ (stream' = <<>> /\ ~Live')
    BY <1>1, <1>2 DEF Live
  <2> QED BY <1>1, <1>2, <2>1, QuietSums
<1>3. CASE StartProcess BY <1>2, <1>3 DEF StartProcess, Go, inbox, metrics
<1>4. CASE DialFirst BY <1>2, <1>4 DEF DialFirst, Go, Connect, inbox, metrics
<1>5. CASE DialFatal BY <1>2, <1>5 DEF DialFatal, Go, kernel, inbox, metrics
<1>6. CASE TestContext BY <1>2, <1>6 DEF TestContext, Go, kernel, inbox, metrics
<1>7. CASE ReadHeader BY <1>7, HeaderSums
<1>8. CASE ReadRisk BY <1>8, RiskSums
<1>9. ASSUME NEW d \in Domains, SetGauge(d) PROVE GaugeInv'
  BY <1>9, GaugeSums
<1>10. CASE ReadFile BY <1>10, FileSums
<1>11. CASE ReadFails BY <1>11, FailSums
<1>12. CASE CloseBroken BY <1>2, <1>12 DEF CloseBroken, Go, Disconnect, CutOff, inbox, metrics
<1>13. CASE Redial BY <1>2, <1>13 DEF Redial, Go, Connect, kernel, inbox, metrics
<1>14. CASE Finish BY <1>2, <1>14 DEF Finish, Go, Disconnect, CutOff, inbox, metrics
<1>15. CASE SendTerm BY <1>2, <1>15 DEF SendTerm, inbox, metrics
<1>16. CASE SendKill BY <1>2, <1>16 DEF SendKill, Die, inbox, metrics
<1>17. CASE CloseConn BY <1>2, <1>17 DEF CloseConn, Disconnect, CutOff, inbox, metrics
<1>18. CASE Cancel BY <1>2, <1>18 DEF Cancel, kernel, inbox, metrics
<1>19. CASE RaiseSignal BY <1>2, <1>19 DEF RaiseSignal, kernel, inbox, metrics
<1>20. CASE ServeFatal BY <1>20, FatalSums
<1> QED
  BY <1>3, <1>4, <1>5, <1>6, <1>7, <1>8, <1>9, <1>10, <1>11, <1>12, <1>13, <1>14, <1>15,
     <1>16, <1>17, <1>18, <1>19, <1>20 DEF GoProcess, GoMain, GoHandler

LEMMA GaugeInvInit == Init => GaugeInv
<1> SUFFICES ASSUME Init PROVE GaugeInv
  OBVIOUS
<1>1. /\ stream = <<>> /\ uds = "none" /\ go = "start" /\ counts = [k \in Keys |-> 0]
      /\ summary = NoSums /\ gauge = NoSums
      /\ origin = [floor |-> NoSums, moved |-> <<FALSE, FALSE>>]
  BY DEF Init, SocketInit, ServiceInit, GoInit
<1>2. SnapshotSums /\ WaySums /\ ReadSums /\ SetSums
  BY <1>1, SeqEmpty DEF SnapshotSums, WaySums, ReadSums, SetSums
<1>3. SumTypes /\ GaugeFaithful
  BY <1>1 DEF SumTypes, GaugeFaithful, NoSums
<1> QED BY <1>2, <1>3 DEF GaugeInv

LEMMA GaugeInvNext == StreamInv /\ StreamInv' /\ GaugeInv /\ [Next]_vars => GaugeInv'
<1> SUFFICES ASSUME StreamInv, StreamInv', GaugeInv, [Next]_vars PROVE GaugeInv'
  OBVIOUS
<1>1. ASSUME Cpp, UNCHANGED govars PROVE GaugeInv'
  BY <1>1, UdsSums, StopperSums, WriterSums DEF Cpp
<1>2. ASSUME GoProcess, UNCHANGED cpp PROVE GaugeInv'
  BY <1>2, GoSums
<1>3. ASSUME UNCHANGED vars PROVE GaugeInv'
  <2>1. UNCHANGED <<stream, client, uds, batch, counts, go, left, type, summary, gauge, origin>>
    BY <1>3 DEF vars, kernel, cpp, maps, govars, inbox, metrics
  <2>2. Live' => Live
    BY <2>1 DEF Live
  <2> QED BY <2>1, <2>2, QuietSums
<1> QED BY <1>1, <1>2, <1>3 DEF Next, GoEnded

\* GaugeFaithful for every number of domains, keys, updates, faults and broken
\* connections: whatever the writers add while a snapshot is sent and read, a
\* gauge that is shown is what the map held for its domain when the snapshot
\* began, and no more than it holds now, unless the risk map was updated while
\* the snapshot was taken (ExporterService.hpp:236-292, main.go:146-171).
THEOREM GaugesFaithful == Spec => []GaugeFaithful
<1>1. Init => StreamInv /\ GaugeInv
  BY StreamInvInit, GaugeInvInit
<1>2. StreamInv /\ GaugeInv /\ [Next]_vars => StreamInv' /\ GaugeInv'
  BY StreamInvNext, GaugeInvNext
<1>3. GaugeInv => GaugeFaithful
  BY DEF GaugeInv
<1> QED BY <1>1, <1>2, <1>3, PTL DEF Spec

==============================================================================
