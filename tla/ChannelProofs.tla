--------------------------- MODULE ChannelProofs ----------------------------
(***************************************************************************)
(* The three channels that end in the dashboard of xdp_fw.                 *)
(*                                                                         *)
(* Block commands: a command is executed once, for any administrator, any  *)
(* number of commands, threads and failing calls, and any size of the      *)
(* pipe.  Events: the lock-free ring is a bounded first-in first-out       *)
(* queue, for any capacity and any records.  Reports: the dashboard shows  *)
(* no event twice, overlooks none and makes none up, for any number of     *)
(* buckets, size of the buffer and interleaving of the CPUs with the walk. *)
(***************************************************************************)
EXTENDS BlockControl, SpscQueue, Report, Integers, SequenceTheorems, WellFoundedInduction, TLAPS

\* the file, and what was read from it, hold only commands that were
\* written, and the command about to be written never was
Provenance ==
    /\ file \in issued \cup {Empty}
    /\ line \in issued \cup {Empty}
    /\ admin.step # "idle" => admin.cmd \in Commands
    /\ admin.step = "opened" => admin.cmd \notin issued
    /\ admin.step = "written" => admin.cmd \in issued

\* c may still be executed: it is to be written, it has been read, or it is
\* in the file and not there only because it has just been executed
Owed(c) ==
    \/ c \notin issued
    \/ loop = "apply" /\ line = c
    \/ file = c /\ ~(loop \in {"apply", "truncate"} /\ line = c)

\* the inductive form of AppliedOnce: an execution that is still owed has
\* been paid for, by a fault if it is not the first
Account == \A c \in Valid : applied[c] <= 1 + faults /\ (Owed(c) => applied[c] <= faults)

BlockInv == TypeOK /\ Provenance /\ Account

LEMMA BlockInvInit == Init => BlockInv
<1> SUFFICES ASSUME Init PROVE BlockInv
  OBVIOUS
<1> USE CommandsAssumption, SizesAssumption DEF Init
<1>1. TypeOK
  <2>1. admin \in [step : {"idle", "opened", "written"}, cmd : Commands \cup {Empty}]
    OBVIOUS
  <2>2. pending \in BOOLEAN
    BY Zenon
  <2>3. handling \subseteq Threads /\ pipe \in 0..PipeSize
    OBVIOUS
  <2>4. issued \subseteq Commands /\ signalled \subseteq issued /\ perm \subseteq Valid
    OBVIOUS
  <2>5. applied \in [Commands -> Nat] /\ faults \in 0..MaxFaults
    OBVIOUS
  <2> QED BY <2>1, <2>2, <2>3, <2>4, <2>5 DEF TypeOK
<1>2. Provenance
  BY DEF Provenance
<1>3. Account
  BY DEF Account, Owed
<1> QED BY <1>1, <1>2, <1>3 DEF BlockInv

\* The administrator's steps.
LEMMA AdminStep ==
    ASSUME BlockInv, (\E c \in Commands : OpenForWrite(c)) \/ Procedure
    PROVE  BlockInv'
<1> USE CommandsAssumption DEF BlockInv
<1>1. ASSUME NEW c \in Commands, OpenForWrite(c)
      PROVE  BlockInv'
  <2>1. TypeOK'
    BY <1>1 DEF OpenForWrite, TypeOK, daemon
  <2>2. Provenance'
    BY <1>1 DEF OpenForWrite, TypeOK, Provenance, daemon
  <2>3. Account'
    BY <1>1 DEF OpenForWrite, Account, Owed, daemon
  <2> QED BY <2>1, <2>2, <2>3
<1>2. CASE WriteCommand
  <2>1. TypeOK'
    BY <1>2 DEF WriteCommand, TypeOK, Provenance, daemon
  <2>2. Provenance'
    BY <1>2 DEF WriteCommand, TypeOK, Provenance, daemon
  <2>3. Account'
    BY <1>2 DEF WriteCommand, Account, Owed, Provenance, daemon
  <2> QED BY <2>1, <2>2, <2>3
<1>3. CASE SendSignal
  <2>1. TypeOK'
    BY <1>3 DEF SendSignal, TypeOK, Provenance
  <2>2. Provenance'
    BY <1>3 DEF SendSignal, TypeOK, Provenance
  <2>3. Account'
    BY <1>3 DEF SendSignal, Account, Owed
  <2> QED BY <2>1, <2>2, <2>3
<1>4. CASE SignalAgain
  BY <1>4 DEF SignalAgain, TypeOK, Provenance, Account, Owed
<1> QED BY <1>1, <1>2, <1>3, <1>4 DEF Procedure

\* The steps of the signal handler.
LEMMA HandlerStep ==
    ASSUME BlockInv, NEW t \in Threads, Deliver(t) \/ HandlerWrite(t)
    PROVE  BlockInv'
<1> USE DEF BlockInv
<1>1. CASE Deliver(t)
  BY <1>1 DEF Deliver, TypeOK, Provenance, Account, Owed
<1>2. CASE HandlerWrite(t)
  <2>1. TypeOK'
    BY <1>2, SizesAssumption DEF HandlerWrite, TypeOK
  <2>2. Provenance' /\ Account'
    BY <1>2 DEF HandlerWrite, Provenance, Account, Owed
  <2> QED BY <2>1, <2>2
<1> QED BY <1>1, <1>2

\* The steps of the dashboard loop.
LEMMA LoopStep ==
    ASSUME BlockInv, Loop
    PROVE  BlockInv'
<1> USE CommandsAssumption, SizesAssumption DEF BlockInv, LoopAt
<1>1. CASE DrainPipe
  BY <1>1 DEF DrainPipe, TypeOK, Provenance, Account, Owed
<1>2. CASE ReadFile
  BY <1>2 DEF ReadFile, TypeOK, Provenance, Account, Owed
<1>3. CASE OpenFails
  <2>1. TypeOK' /\ Provenance'
    BY <1>3 DEF OpenFails, TypeOK, Provenance
  <2>2. Account'
    BY <1>3 DEF OpenFails, TypeOK, Account, Owed
  <2> QED BY <2>1, <2>2
<1>4. CASE ApplyLine
  <2>1. TypeOK'
    BY <1>4 DEF ApplyLine, TypeOK
  <2>2. Provenance'
    BY <1>4 DEF ApplyLine, Provenance
  <2>3. ASSUME NEW c \in Valid
        PROVE  (applied[c] <= 1 + faults /\ (Owed(c) => applied[c] <= faults))'
    <3>1. CASE line = c
      <4>1. applied'[c] = applied[c] + 1
        BY <1>4, <3>1 DEF ApplyLine, TypeOK
      <4>2. applied[c] <= faults
        BY <1>4, <3>1 DEF ApplyLine, Account, Owed
      <4>3. ~Owed(c)'
        BY <1>4, <3>1 DEF ApplyLine, Owed, Provenance
      <4>4. applied[c] \in Nat /\ faults \in Nat /\ faults' = faults
        BY <1>4 DEF ApplyLine, TypeOK
      <4> QED BY <4>1, <4>2, <4>3, <4>4
    <3>2. CASE line # c
      <4>1. applied'[c] = applied[c] /\ faults' = faults
        BY <1>4, <3>2 DEF ApplyLine, TypeOK
      <4>2. Owed(c)' => Owed(c)
        BY <1>4, <3>2 DEF ApplyLine, Owed
      <4> QED BY <4>1, <4>2 DEF Account
    <3> QED BY <3>1, <3>2
  <2>4. Account'
    BY <2>3 DEF Account
  <2> QED BY <2>1, <2>2, <2>4
<1>5. CASE TruncateFile
  BY <1>5 DEF TruncateFile, TypeOK, Provenance, Account, Owed
<1>6. CASE TruncateFails
  <2>1. TypeOK' /\ Provenance'
    BY <1>6 DEF TruncateFails, TypeOK, Provenance
  <2>2. Account'
    BY <1>6 DEF TruncateFails, TypeOK, Account, Owed
  <2> QED BY <2>1, <2>2
<1> QED BY <1>1, <1>2, <1>3, <1>4, <1>5, <1>6 DEF Loop

LEMMA BlockInvNext == BlockInv /\ [Next]_vars => BlockInv'
<1> SUFFICES ASSUME BlockInv, [Next]_vars PROVE BlockInv'
  OBVIOUS
<1>1. CASE UNCHANGED vars
  BY <1>1 DEF vars, daemon, BlockInv, TypeOK, Provenance, Account, Owed
<1>2. CASE Next
  BY <1>1, <1>2, AdminStep, HandlerStep, LoopStep DEF Next, Quiet
<1> QED BY <1>1, <1>2

----------------------------------------------------------------------------
(***************************************************************************)
(* The queue.  The producer writes only the slot no record is in, and      *)
(* neither thread's view of the other's index, once taken, can turn false: *)
(* room stays room and a record stays until its own thread moves on.       *)
(***************************************************************************)
Values == Records \cup {Blank}

QueueInv ==
    /\ buffer \in [Slots -> Values]
    /\ head \in Slots /\ tail \in Slots
    /\ prod \in [pc : {"poll", "check", "write", "publish"}, val : Values]
    /\ cons \in [pc : {"pop", "read", "release"}, val : Values]
    /\ prod.pc # "poll" => prod.val \in Records
    /\ prod.pc \in {"write", "publish"} => After(head) # tail
    /\ prod.pc = "publish" => buffer[head] = prod.val
    /\ cons.pc \in {"read", "release"} => tail # head
    /\ cons.pc = "release" => cons.val = buffer[tail]

\* Indices stay below twice the capacity, where % is a subtraction.
LEMMA Wraps ==
    ASSUME NEW n \in Nat, n < 2 * Capacity
    PROVE  n % Capacity = IF n < Capacity THEN n ELSE n - Capacity
  <1> DEFINE m == n % Capacity
             q == n \div Capacity
  <1>1. Capacity \in Nat \ {0}
    BY CapacityAssumption
  <1>2. m \in 0..(Capacity - 1) /\ q \in Int
    BY <1>1
  <1>3. n = Capacity * q + m
    BY <1>1
  <1> HIDE DEF m, q
  <1>4. CASE q <= -1
    <2>1. PICK d \in Nat : q = -1 - d
      BY <1>2, <1>4
    <2>2. Capacity * q = -Capacity - Capacity * d /\ Capacity * d \in Nat
      BY <1>1, <2>1
    <2> QED
      BY <1>1, <1>2, <1>3, <2>2
  <1>5. CASE q = 0
    BY <1>1, <1>2, <1>3, <1>5 DEF m
  <1>6. CASE q = 1
    BY <1>1, <1>2, <1>3, <1>6 DEF m
  <1>7. CASE q >= 2
    <2>1. PICK d \in Nat : q = 2 + d
      BY <1>2, <1>7
    <2>2. Capacity * q = 2 * Capacity + Capacity * d /\ Capacity * d \in Nat
      BY <1>1, <2>1
    <2> QED
      BY <1>1, <1>2, <1>3, <2>2
  <1> QED
    BY <1>2, <1>4, <1>5, <1>6, <1>7

LEMMA NextSlot ==
    ASSUME NEW i \in Slots
    PROVE  /\ After(i) \in Slots
           /\ After(i) = IF i = Capacity - 1 THEN 0 ELSE i + 1
  <1>1. i + 1 \in Nat /\ i + 1 < 2 * Capacity /\ Capacity \in Nat
    BY CapacityAssumption DEF Slots
  <1>2. PICK x \in Nat : x = i + 1
    BY <1>1
  <1>3. x % Capacity = IF x < Capacity THEN x ELSE x - Capacity
    BY <1>1, <1>2, Wraps
  <1>4. After(i) = x % Capacity
    BY <1>2 DEF After
  <1> QED
    BY <1>1, <1>2, <1>3, <1>4, CapacityAssumption DEF Slots

\* the slot of the i-th record from index t, and the records from t to h
Slot(t, i) == IF t + i - 1 < Capacity THEN t + i - 1 ELSE t + i - 1 - Capacity
Distance(h, t) == IF t <= h THEN h - t ELSE h + Capacity - t

Ring(b, h, t) == [i \in 1..Distance(h, t) |-> b[Slot(t, i)]]

LEMMA RingIs ==
    ASSUME NEW b \in [Slots -> Values], NEW h \in Slots, NEW t \in Slots
    PROVE  /\ [i \in 1..((h + Capacity - t) % Capacity) |-> b[(t + i - 1) % Capacity]] = Ring(b, h, t)
           /\ Ring(b, h, t) \in Seq(Values)
           /\ Len(Ring(b, h, t)) = Distance(h, t)
  <1>1. h \in Nat /\ t \in Nat /\ h < Capacity /\ t < Capacity /\ Capacity \in Nat \ {0, 1}
    BY CapacityAssumption DEF Slots
  <1> DEFINE n == Distance(h, t)
  <1>2. (h + Capacity - t) % Capacity = n
    <2>1. h + Capacity - t \in Nat /\ h + Capacity - t < 2 * Capacity
      BY <1>1
    <2>2. PICK x \in Nat : x = h + Capacity - t
      BY <2>1
    <2>3. x % Capacity = IF x < Capacity THEN x ELSE x - Capacity
      BY <2>1, <2>2, Wraps
    <2>4. (h + Capacity - t) % Capacity = x % Capacity
      BY <2>2, Zenon
    <2>5. x % Capacity = Distance(h, t)
      BY <1>1, <2>2, <2>3 DEF Distance
    <2> QED
      BY <2>4, <2>5, Zenon
  <1>3. n \in Nat /\ n < Capacity
    BY <1>1 DEF Distance
  <1> HIDE DEF n
  <1>4. ASSUME NEW i \in 1..n
        PROVE  (t + i - 1) % Capacity = Slot(t, i) /\ Slot(t, i) \in Slots
    <2>1. t + i - 1 \in Nat /\ t + i - 1 < 2 * Capacity
      BY <1>1, <1>3
    <2>2. PICK x \in Nat : x = t + i - 1
      BY <2>1
    <2>3. x % Capacity = IF x < Capacity THEN x ELSE x - Capacity
      BY <2>1, <2>2, Wraps
    <2>4. (t + i - 1) % Capacity = x % Capacity
      BY <2>2, Zenon
    <2>5. x % Capacity = Slot(t, i)
      BY <1>1, <2>2, <2>3 DEF Slot
    <2>6. Slot(t, i) \in Slots
      BY <1>1, <2>1 DEF Slot, Slots
    <2> QED
      BY <2>4, <2>5, <2>6, Zenon
  <1>5. [i \in 1..n |-> b[(t + i - 1) % Capacity]] = Ring(b, h, t)
    BY <1>4 DEF Ring, n
  <1>6. Ring(b, h, t) \in [1..n -> Values]
    BY <1>4 DEF Ring, n
  <1>7. Ring(b, h, t) \in Seq(Values) /\ Len(Ring(b, h, t)) = n
    BY <1>3, <1>6
  <1> QED
    BY <1>2, <1>5, <1>7 DEF n

LEMMA ContentsNow ==
    ASSUME QueueInv
    PROVE  /\ Contents = Ring(buffer, head, tail) /\ Contents \in Seq(Values)
           /\ Len(Contents) = Distance(head, tail)
  <1>1. buffer \in [Slots -> Values] /\ head \in Slots /\ tail \in Slots
    BY DEF QueueInv
  <1>2. Contents = [i \in 1..((head + Capacity - tail) % Capacity) |-> buffer[(tail + i - 1) % Capacity]]
    BY Zenon DEF Contents, Queued
  <1>3. Contents = Ring(buffer, head, tail)
    BY <1>1, <1>2, RingIs, Zenon
  <1> QED
    BY <1>1, <1>3, RingIs, Zenon

LEMMA ContentsThen ==
    ASSUME QueueInv'
    PROVE  /\ Contents' = Ring(buffer', head', tail') /\ Contents' \in Seq(Values)
           /\ Len(Contents') = Distance(head', tail')
  <1>1. buffer' \in [Slots -> Values] /\ head' \in Slots /\ tail' \in Slots
    BY DEF QueueInv
  <1>2. Contents' = [i \in 1..((head' + Capacity - tail') % Capacity) |-> buffer'[(tail' + i - 1) % Capacity]]
    BY Zenon DEF Contents, Queued
  <1>3. Contents' = Ring(buffer', head', tail')
    BY <1>1, <1>2, RingIs, Zenon
  <1> QED
    BY <1>1, <1>3, RingIs, Zenon

LEMMA QueueInvInit == QueueInit => QueueInv
  BY CapacityAssumption DEF QueueInit, QueueInv, Slots, Values

LEMMA QueueInvNext == QueueInv /\ [QueueNext]_queueVars => QueueInv'
  <1> SUFFICES ASSUME QueueInv, [QueueNext]_queueVars PROVE QueueInv'
    OBVIOUS
  <1> USE DEF QueueInv, Values
  <1>0. After(head) \in Slots /\ After(tail) \in Slots
    BY NextSlot
  <1>1. ASSUME NEW v \in Records, ReceiveRecord(v) PROVE QueueInv'
    BY <1>1 DEF ReceiveRecord
  <1>2. CASE PushCheck
    BY <1>2 DEF PushCheck
  <1>3. CASE PushWrite
    <2>1. buffer' \in [Slots -> Values] /\ buffer'[head] = prod.val
      BY <1>3 DEF PushWrite
    <2>2. cons.pc = "release" => buffer'[tail] = buffer[tail]
      BY <1>3 DEF PushWrite
    <2> QED
      BY <1>3, <2>1, <2>2 DEF PushWrite
  <1>4. CASE PushPublish
    BY <1>0, <1>4 DEF PushPublish
  <1>5. CASE PopCheck
    BY <1>5 DEF PopCheck
  <1>6. CASE PopRead
    BY <1>6 DEF PopRead
  <1>7. CASE PopRelease
    <2>1. After(head) # After(tail)
      BY <1>7, NextSlot, CapacityAssumption DEF PopRelease, Slots
    <2>2. prod.pc \in {"write", "publish"} => After(head) # After(tail)
      BY <2>1
    <2> QED
      BY <1>0, <1>7, <2>2 DEF PopRelease, After
  <1>8. CASE UNCHANGED queueVars
    BY <1>8 DEF queueVars, After
  <1> QED
    BY <1>1, <1>2, <1>3, <1>4, <1>5, <1>6, <1>7, <1>8 DEF QueueNext, Producer, Consumer

\* a publication appends, a release takes the head away, a write shows nothing
LEMMA WriteHidden ==
    ASSUME QueueInv, QueueInv', PushWrite
    PROVE  Contents' = Contents
  <1>1. buffer' = [buffer EXCEPT ![head] = prod.val] /\ UNCHANGED <<head, tail>>
    BY DEF PushWrite
  <1> DEFINE n == Distance(head, tail)
  <1>2. n \in Nat /\ \A i \in 1..n : Slot(tail, i) \in Slots /\ Slot(tail, i) # head
    BY CapacityAssumption DEF QueueInv, Slots, Distance, Slot
  <1>3. Contents = [i \in 1..n |-> buffer[Slot(tail, i)]]
    BY ContentsNow DEF Ring
  <1>4. Contents' = [i \in 1..n |-> buffer'[Slot(tail, i)]]
    BY <1>1, ContentsThen DEF Ring
  <1> HIDE DEF n
  <1>5. \A i \in 1..n : buffer'[Slot(tail, i)] = buffer[Slot(tail, i)]
    BY <1>1, <1>2 DEF QueueInv
  <1> QED
    BY <1>3, <1>4, <1>5

LEMMA PublishAppends ==
    ASSUME QueueInv, QueueInv', PushPublish
    PROVE  Len(Contents) < Capacity - 1 /\ Contents' = Append(Contents, prod.val)
  <1>1. head' = After(head) /\ UNCHANGED <<buffer, tail>> /\ After(head) # tail /\ buffer[head] = prod.val
        /\ prod.val \in Records
    BY DEF PushPublish, QueueInv
  <1>2. After(head) = IF head = Capacity - 1 THEN 0 ELSE head + 1
    BY NextSlot DEF QueueInv
  <1> DEFINE n == Distance(head, tail)
             c == Append(Contents, prod.val)
  <1>3. n \in Nat /\ n < Capacity - 1 /\ Distance(head', tail') = n + 1 /\ Slot(tail, n + 1) = head
    BY <1>1, <1>2, CapacityAssumption DEF QueueInv, Slots, Distance, Slot
  <1>4. /\ Contents = [i \in 1..n |-> buffer[Slot(tail, i)]] /\ Contents \in Seq(Values)
        /\ Len(Contents) = n
    BY ContentsNow DEF Ring
  <1>5. /\ Contents' = [i \in 1..(n + 1) |-> buffer[Slot(tail, i)]] /\ Contents' \in Seq(Values)
        /\ Len(Contents') = n + 1
    <2>1. /\ Contents' = [i \in 1..Distance(head', tail') |-> buffer'[Slot(tail', i)]]
          /\ Contents' \in Seq(Values) /\ Len(Contents') = Distance(head', tail')
      BY ContentsThen DEF Ring
    <2> QED
      BY <1>1, <1>3, <2>1
  <1>6. prod.val \in Values
    BY <1>1 DEF Values
  <1> HIDE DEF n
  <1>7. c \in Seq(Values) /\ Len(c) = n + 1 /\ (\A i \in 1..n : c[i] = Contents[i]) /\ c[n + 1] = prod.val
    BY <1>3, <1>4, <1>6, AppendProperties
  <1> HIDE DEF c
  <1>8. ASSUME NEW i \in 1..(n + 1) PROVE Contents'[i] = c[i]
    <2>1. CASE i = n + 1
      BY <1>1, <1>3, <1>5, <1>7, <2>1
    <2>2. CASE i # n + 1
      <3>1. i \in 1..n
        BY <1>3, <2>2
      <3> QED
        BY <1>4, <1>5, <1>7, <3>1
    <2> QED
      BY <2>1, <2>2
  <1>9. Contents' = c
    BY <1>5, <1>7, <1>8, SeqEqual
  <1> QED
    BY <1>3, <1>4, <1>9 DEF c

LEMMA ReleaseTakesHead ==
    ASSUME QueueInv, QueueInv', PopRelease
    PROVE  Contents # <<>> /\ cons.val = Head(Contents) /\ Contents' = Tail(Contents)
  <1>1. tail' = After(tail) /\ UNCHANGED <<buffer, head>> /\ tail # head /\ cons.val = buffer[tail]
    BY DEF PopRelease, QueueInv
  <1>2. After(tail) = IF tail = Capacity - 1 THEN 0 ELSE tail + 1
    BY NextSlot DEF QueueInv
  <1> DEFINE n == Distance(head, tail)
             c == Tail(Contents)
  <1>3. n \in Nat \ {0} /\ Distance(head', tail') = n - 1 /\ Slot(tail, 1) = tail
        /\ \A i \in 1..(n - 1) : Slot(tail', i) = Slot(tail, i + 1)
    BY <1>1, <1>2, CapacityAssumption DEF QueueInv, Slots, Distance, Slot
  <1>4. /\ Contents = [i \in 1..n |-> buffer[Slot(tail, i)]] /\ Contents \in Seq(Values)
        /\ Len(Contents) = n
    BY ContentsNow DEF Ring
  <1>5. /\ Contents' = [i \in 1..(n - 1) |-> buffer[Slot(tail', i)]] /\ Contents' \in Seq(Values)
        /\ Len(Contents') = n - 1
    <2>1. /\ Contents' = [i \in 1..Distance(head', tail') |-> buffer'[Slot(tail', i)]]
          /\ Contents' \in Seq(Values) /\ Len(Contents') = Distance(head', tail')
      BY ContentsThen DEF Ring
    <2> QED
      BY <1>1, <1>3, <2>1
  <1> HIDE DEF n
  <1>6. Contents # <<>>
    BY <1>3, <1>4
  <1>7. /\ Head(Contents) = Contents[1] /\ c \in Seq(Values) /\ Len(c) = n - 1
        /\ \A i \in 1..(n - 1) : c[i] = Contents[i + 1]
    <2>1. c \in Seq(Values) /\ Len(c) = Len(Contents) - 1 /\ \A i \in 1..Len(c) : c[i] = Contents[i + 1]
      BY <1>4, <1>6, HeadTailProperties
    <2>2. Head(Contents) = Contents[1]
      BY <1>4, <1>6
    <2> QED
      BY <1>4, <2>1, <2>2
  <1> HIDE DEF c
  <1>8. ASSUME NEW i \in 1..(n - 1) PROVE Contents'[i] = c[i]
    <2>1. i + 1 \in 1..n
      BY <1>3
    <2>2. Contents'[i] = buffer[Slot(tail', i)] /\ Contents[i + 1] = buffer[Slot(tail, i + 1)]
      BY <1>4, <1>5, <2>1
    <2> QED
      BY <1>3, <1>7, <2>2
  <1>9. Contents' = c
    BY <1>5, <1>7, <1>8, SeqEqual
  <1>10. Contents[1] = buffer[tail]
    BY <1>3, <1>4
  <1> QED
    BY <1>1, <1>6, <1>7, <1>9, <1>10 DEF c

\* Every step is one of the abstract queue, or none.
LEMMA QueueStep ==
    QueueInv /\ QueueInv' /\ [QueueNext]_queueVars => [Fifo!Next]_(Fifo!vars)
  <1> SUFFICES ASSUME QueueInv, QueueInv', [QueueNext]_queueVars PROVE [Fifo!Next]_(Fifo!vars)
    OBVIOUS
  <1>0. Len(Contents) = Distance(head, tail) /\ Contents \in Seq(Values)
    BY ContentsNow DEF Ring
  <1>1. ASSUME UNCHANGED <<buffer, head, tail>> PROVE Contents' = Contents
    BY <1>1 DEF Contents, Queued
  <1>2. CASE (\E v \in Records : ReceiveRecord(v)) \/ PopRead
    BY <1>1, <1>2 DEF ReceiveRecord, PopRead, Fifo!vars
  <1>3. CASE PushCheck
    <2>1. CASE After(head) = tail /\ accepted' = FALSE
      <3>0. After(head) = IF head = Capacity - 1 THEN 0 ELSE head + 1
        BY NextSlot DEF QueueInv
      <3>1. Len(Contents) = Capacity - 1
        BY <1>0, <2>1, <3>0, CapacityAssumption DEF QueueInv, Slots, Distance
      <3> QED
        BY <1>1, <1>3, <2>1, <3>1 DEF PushCheck, Fifo!Next, Fifo!Refuse
    <2>2. CASE UNCHANGED accepted
      BY <1>1, <1>3, <2>2 DEF PushCheck, Fifo!vars
    <2> QED
      BY <1>3, <2>1, <2>2 DEF PushCheck
  <1>4. CASE PushWrite
    BY <1>4, WriteHidden DEF PushWrite, Fifo!vars
  <1>5. CASE PushPublish
    <2>1. prod.val \in Records
      BY <1>5 DEF PushPublish, QueueInv
    <2> QED
      BY <1>5, <2>1, PublishAppends DEF PushPublish, Fifo!Next, Fifo!Push
  <1>6. CASE PopCheck
    <2>1. CASE tail = head /\ popped' = Nullopt
      <3>1. Len(Contents) = 0
        BY <1>0, <2>1, CapacityAssumption DEF QueueInv, Slots, Distance
      <3>2. Contents = <<>>
        BY <1>0, <3>1
      <3> QED
        BY <1>1, <1>6, <2>1, <3>2 DEF PopCheck, Fifo!Next, Fifo!PopEmpty
    <2>2. CASE UNCHANGED popped
      BY <1>1, <1>6, <2>2 DEF PopCheck, Fifo!vars
    <2> QED
      BY <1>6, <2>1, <2>2 DEF PopCheck
  <1>7. CASE PopRelease
    BY <1>7, ReleaseTakesHead DEF PopRelease, Fifo!Next, Fifo!Pop
  <1>8. CASE UNCHANGED queueVars
    BY <1>1, <1>8 DEF queueVars, Fifo!vars
  <1> QED
    BY <1>2, <1>3, <1>4, <1>5, <1>6, <1>7, <1>8 DEF QueueNext, Producer, Consumer

----------------------------------------------------------------------------
\* Every variable keeps its type.
THEOREM TypeCorrect == Spec => []TypeOK
<1>1. BlockInv => TypeOK
  BY DEF BlockInv
<1> QED BY <1>1, BlockInvInit, BlockInvNext, PTL DEF Spec

\* No command is executed a second time unless a call of fopen failed: the
\* file is emptied after every execution (Firewall.hpp:270-272), and what is
\* read before it is emptied is executed only by the loop that empties it.
THEOREM ExecutedOnce == Spec => []AppliedOnce
<1>1. BlockInv => AppliedOnce
  BY DEF BlockInv, Account, AppliedOnce
<1> QED BY <1>1, BlockInvInit, BlockInvNext, PTL DEF Spec

\* However the poll thread and the dashboard thread interleave, the ring is a
\* bounded first-in first-out queue, for every capacity and every sequence of
\* records (LockFreeSPSCQueue.hpp:25-46).
THEOREM QueueIsFifo == QueueSpec => ImplementsFifo
  <1>1. QueueInit => QueueInv /\ Fifo!Init
    <2> SUFFICES ASSUME QueueInit PROVE QueueInv /\ Fifo!Init
      OBVIOUS
    <2>1. QueueInv
      BY QueueInvInit
    <2>2. Len(Contents) = 0 /\ Contents \in Seq(Values)
      BY <2>1, ContentsNow, CapacityAssumption DEF QueueInit, Distance
    <2> QED
      BY <2>1, <2>2 DEF QueueInit, Fifo!Init
  <1>2. QueueInv /\ [QueueNext]_queueVars => QueueInv' /\ [Fifo!Next]_(Fifo!vars)
    BY QueueInvNext, QueueStep
  <1> QED
    BY <1>1, <1>2, PTL DEF QueueSpec, ImplementsFifo, Fifo!Spec

-----------------------------------------------------------------------------
(***************************************************************************)
(* The report map: what the walk keeps while XDP stores beside it.         *)
(***************************************************************************)
ReportTypes ==
    /\ clock \in Nat
    /\ flight \subseteq (Nat \ {0}) \X Bucket
    /\ map \in [Bucket -> Nat] /\ found \in [Bucket -> Nat]
    /\ pc \in {"sleep", "next", "lookup", "delete", "print"}
    /\ key \in Nat
    /\ sorted \in Seq(Nat \ {0})
    /\ touched \subseteq Bucket /\ copied \subseteq Nat \ {0}

\* The walk reads and deletes only buckets that hold an event, and reads only
\* while there is room.
WalkInside ==
    /\ Len(sorted) <= BUFFER_SIZE
    /\ pc \in {"lookup", "delete"} => key \in Bucket /\ map[key] # 0
    /\ pc = "lookup" => Len(sorted) < BUFFER_SIZE

\* Time stamps are unique: none is taken twice, and an event is in one place.
Stamped ==
    /\ \A e \in flight : e[1] <= clock
    /\ \A b \in Bucket : map[b] <= clock
    /\ \A t \in copied : t <= clock
    /\ \A k \in 1..Len(sorted) : sorted[k] <= clock

InOnePlace ==
    /\ \A e, f \in flight : e[1] = f[1] => e = f
    /\ \A e \in flight : e[1] \notin copied /\ \A b \in Bucket : map[b] # e[1]
    /\ \A e \in flight : \A k \in 1..Len(sorted) : sorted[k] # e[1]
    /\ \A b, c \in Bucket : map[b] = map[c] /\ map[b] # 0 => b = c
    /\ \A j, k \in 1..Len(sorted) : sorted[j] = sorted[k] => j = k
    /\ \A k \in 1..Len(sorted) : sorted[k] \notin copied

\* What was copied is gone from the map, but for the entry about to be
\* deleted.
CopiedGone ==
    \A b \in Bucket :
        \/ pc = "delete" /\ b = key
        \/ map[b] \notin copied /\ \A k \in 1..Len(sorted) : sorted[k] # map[b]

ReportInv == ReportTypes /\ WalkInside /\ Stamped /\ InOnePlace /\ CopiedGone

\* What a walk found and nobody stored over is copied, still there, or the
\* buffer is full; and never deleted uncopied before that.
Accounted ==
    pc # "sleep" => \A b \in Bucket \ touched :
        \/ found[b] = 0
        \/ \E k \in 1..Len(sorted) : sorted[k] = found[b]
        \/ map[b] = found[b]
        \/ Len(sorted) = BUFFER_SIZE

DeletesCopied ==
    pc = "delete" /\ key \notin touched =>
        \/ found[key] = 0
        \/ \E k \in 1..Len(sorted) : sorted[k] = found[key]
        \/ Len(sorted) = BUFFER_SIZE

LEMMA ReportInvInit == ReportInit => ReportInv /\ Accounted /\ DeletesCopied
  <1> SUFFICES ASSUME ReportInit PROVE ReportInv /\ Accounted /\ DeletesCopied
    OBVIOUS
  <1>1. ReportTypes
    BY DEF ReportInit, ReportTypes
  <1>2. WalkInside /\ Stamped /\ InOnePlace /\ CopiedGone
    BY ReportAssumption DEF ReportInit, WalkInside, Stamped, InOnePlace, CopiedGone
  <1>3. Accounted /\ DeletesCopied
    BY DEF ReportInit, Accounted, DeletesCopied
  <1> QED
    BY <1>1, <1>2, <1>3 DEF ReportInv

\* An event is stamped on some CPU.
LEMMA StampStep ==
    ASSUME ReportInv, NEW b \in Bucket, Stamp(b)
    PROVE  ReportInv'
  <1> USE DEF Stamp, walk
  <1>1. ReportTypes'
    BY DEF ReportInv, ReportTypes
  <1>2. WalkInside' /\ CopiedGone'
    BY DEF ReportInv, WalkInside, CopiedGone
  <1>3. Stamped'
    BY DEF ReportInv, ReportTypes, Stamped
  <1>4. \A e \in flight' : e \in flight \/ e = <<clock + 1, b>>
    OBVIOUS
  <1>5. InOnePlace'
    <2>1. \A e \in flight : e[1] # clock + 1
      BY DEF ReportInv, ReportTypes, Stamped
    <2>2. /\ clock + 1 \notin copied
          /\ \A c \in Bucket : map[c] # clock + 1
          /\ \A k \in 1..Len(sorted) : sorted[k] # clock + 1
      BY DEF ReportInv, ReportTypes, Stamped
    <2>3. <<clock + 1, b>>[1] = clock + 1
      OBVIOUS
    <2>4. \A e, f \in flight' : e[1] = f[1] => e = f
      BY <1>4, <2>1, <2>3 DEF ReportInv, InOnePlace
    <2>5. \A e \in flight' : /\ e[1] \notin copied
                             /\ \A c \in Bucket : map[c] # e[1]
                             /\ \A k \in 1..Len(sorted) : sorted[k] # e[1]
      BY <1>4, <2>2, <2>3 DEF ReportInv, InOnePlace
    <2> QED
      BY <2>4, <2>5 DEF ReportInv, InOnePlace
  <1> QED
    BY <1>1, <1>2, <1>3, <1>5 DEF ReportInv

\* It is stored, over whatever the bucket holds.
LEMMA StoreStep ==
    ASSUME ReportInv, NEW e \in flight, Store(e)
    PROVE  ReportInv'
  <1> USE DEF Store, walk
  <1>0. e[2] \in Bucket /\ e[1] \in Nat \ {0} /\ map \in [Bucket -> Nat]
    BY DEF ReportInv, ReportTypes
  <1>1. ReportTypes'
    BY <1>0 DEF ReportInv, ReportTypes
  <1>2. \A b \in Bucket : map'[b] = IF b = e[2] THEN e[1] ELSE map[b]
    BY <1>0
  <1>3. WalkInside'
    BY <1>0, <1>2 DEF ReportInv, WalkInside
  <1>4. Stamped'
    BY <1>2 DEF ReportInv, Stamped
  <1>5. CopiedGone'
    BY <1>2 DEF ReportInv, CopiedGone, InOnePlace
  <1>6. InOnePlace'
    <2>1. \A f \in flight' : f \in flight /\ f # e
      OBVIOUS
    <2>2. \A f \in flight' : f[1] # e[1]
      BY <2>1 DEF ReportInv, InOnePlace
    <2>3. \A f \in flight' : \A b \in Bucket : map'[b] # f[1]
      BY <1>2, <2>1, <2>2 DEF ReportInv, InOnePlace
    <2>4. \A b, c \in Bucket : map'[b] = map'[c] /\ map'[b] # 0 => b = c
      BY <1>0, <1>2 DEF ReportInv, InOnePlace
    <2> QED
      BY <2>1, <2>3, <2>4 DEF ReportInv, InOnePlace
  <1> QED
    BY <1>1, <1>3, <1>4, <1>5, <1>6 DEF ReportInv

\* The keys the kernel chooses the next one from have a first one.
LEMMA FirstKey ==
    ASSUME NEW S \in SUBSET Nat, S # {}
    PROVE  \E b \in S : \A c \in S : b <= c
  <1> DEFINE R == OpToRel(<, Nat)
  <1>1. \A x, y \in Nat : y < x => <<y, x>> \in R
    BY DEF OpToRel
  <1>2. IsWellFoundedOn(R, Nat)
    BY NatLessThanWellFounded
  <1> HIDE DEF R
  <1>3. \E x \in S : \A y \in S : ~ (<<y, x>> \in R)
    <2>1. S \subseteq Nat
      OBVIOUS
    <2> QED
      BY <1>2, <2>1, WFMin, ZenonT(30)
  <1>4. PICK x \in S : \A y \in S : ~ (<<y, x>> \in R)
    BY <1>3
  <1>5. \A y \in S : ~ (y < x)
    BY <1>1, <1>4
  <1>6. \A y \in S : x <= y
    BY <1>5
  <1> QED
    BY <1>6

\* What After returns, if anything, is a bucket that holds an event.
LEMMA AfterHolds ==
    ASSUME NEW k
    PROVE  KeyAfter(k) = 0 \/ (KeyAfter(k) \in Bucket /\ map[KeyAfter(k)] # 0)
  <1> DEFINE from == IF k # 0 /\ map[k] # 0 THEN k ELSE 0
             rest == {b \in Bucket : b > from /\ map[b] # 0}
  <1>1. KeyAfter(k) = IF rest = {} THEN 0 ELSE CHOOSE b \in rest : \A c \in rest : b <= c
    BY DEF KeyAfter
  <1>2. rest \in SUBSET Nat /\ \A b \in rest : b \in Bucket /\ map[b] # 0
    BY ReportAssumption DEF Bucket
  <1> HIDE DEF rest
  <1>3. rest # {} => \E b \in rest : \A c \in rest : b <= c
    BY <1>2, FirstKey
  <1>4. rest # {} => (CHOOSE b \in rest : \A c \in rest : b <= c) \in rest
    BY <1>3
  <1> QED
    BY <1>1, <1>2, <1>4

\* What the buffer holds after one more copy.
LEMMA Appended ==
    ASSUME NEW q \in Seq(Nat \ {0}), NEW t \in Nat \ {0}
    PROVE  /\ Append(q, t) \in Seq(Nat \ {0})
           /\ Len(Append(q, t)) = Len(q) + 1 /\ Len(q) \in Nat
           /\ \A k \in 1..Len(q) : Append(q, t)[k] = q[k]
           /\ Append(q, t)[Len(q) + 1] = t
  OBVIOUS

\* The walk.
LEMMA WalkStep ==
    ASSUME ReportInv, Walk
    PROVE  ReportInv'
  <1>1. CASE BeginWalk
    <2> USE <1>1 DEF BeginWalk
    <2>1. ReportTypes' /\ WalkInside'
      BY ReportAssumption DEF ReportInv, ReportTypes, WalkInside
    <2>2. Stamped' /\ InOnePlace' /\ CopiedGone'
      BY DEF ReportInv, Stamped, InOnePlace, CopiedGone
    <2> QED
      BY <2>1, <2>2 DEF ReportInv
  <1>2. CASE NextKey
    <2> USE <1>2 DEF NextKey
    <2>1. key' = 0 \/ (key' \in Bucket /\ map[key'] # 0)
      BY AfterHolds
    <2>2. ReportTypes'
      BY <2>1 DEF ReportInv, ReportTypes, Bucket
    <2>3. WalkInside'
      BY <2>1 DEF ReportInv, WalkInside
    <2>4. Stamped' /\ InOnePlace' /\ CopiedGone'
      BY DEF ReportInv, Stamped, InOnePlace, CopiedGone
    <2> QED
      BY <2>2, <2>3, <2>4 DEF ReportInv
  <1>3. CASE Lookup
    <2> USE <1>3 DEF Lookup
    <2> DEFINE t == map[key]
               n == Len(sorted)
    <2>1. /\ key \in Bucket /\ t \in Nat \ {0} /\ n < BUFFER_SIZE
          /\ sorted \in Seq(Nat \ {0}) /\ t <= clock
      BY DEF ReportInv, ReportTypes, WalkInside, Stamped
    <2>2. /\ sorted' \in Seq(Nat \ {0}) /\ Len(sorted') = n + 1 /\ n \in Nat
          /\ \A k \in 1..n : sorted'[k] = sorted[k]
          /\ sorted'[n + 1] = t
      BY <2>1, Appended
    <2>3. /\ \A k \in 1..n : sorted[k] # t
          /\ t \notin copied
      BY <2>1 DEF ReportInv, CopiedGone
    <2>4. \A k \in 1..Len(sorted') : k \in 1..n \/ k = n + 1
      BY <2>2
    <2> HIDE DEF t, n
    <2>5. ReportTypes'
      BY <2>2 DEF ReportInv, ReportTypes
    <2>6. WalkInside'
      BY <2>1, <2>2, ReportAssumption DEF ReportInv, WalkInside
    <2>7. Stamped'
      BY <2>1, <2>2, <2>4 DEF ReportInv, Stamped, t, n
    <2>8. InOnePlace'
      BY <2>1, <2>2, <2>3, <2>4 DEF ReportInv, InOnePlace, t, n
    <2>9. CopiedGone'
      BY <2>1, <2>2, <2>3, <2>4 DEF ReportInv, CopiedGone, InOnePlace, t, n
    <2> QED
      BY <2>5, <2>6, <2>7, <2>8, <2>9 DEF ReportInv
  <1>4. CASE Delete
    <2> USE <1>4 DEF Delete
    <2>1. key \in Bucket /\ map \in [Bucket -> Nat] /\ 0 \notin copied
          /\ \A k \in 1..Len(sorted) : sorted[k] # 0
      BY DEF ReportInv, WalkInside, ReportTypes
    <2>2. \A b \in Bucket : map'[b] = IF b = key THEN 0 ELSE map[b]
      BY <2>1
    <2>3. ReportTypes' /\ WalkInside'
      BY <2>1 DEF ReportInv, ReportTypes, WalkInside
    <2>4. Stamped'
      BY <2>2 DEF ReportInv, ReportTypes, Stamped
    <2>5. InOnePlace'
      BY <2>2 DEF ReportInv, ReportTypes, InOnePlace
    <2>6. CopiedGone'
      BY <2>1, <2>2 DEF ReportInv, CopiedGone
    <2> QED
      BY <2>3, <2>4, <2>5, <2>6 DEF ReportInv
  <1>5. CASE PrintLog
    <2> USE <1>5 DEF PrintLog, Copies
    <2>1. \A t \in copied' : t \in copied \/ \E k \in 1..Len(sorted) : t = sorted[k]
      OBVIOUS
    <2>2. \A k \in 1..Len(sorted) : sorted[k] \in Nat \ {0}
      BY DEF ReportInv, ReportTypes
    <2>3. ReportTypes'
      <3>1. copied' \subseteq Nat \ {0}
        BY <2>1, <2>2 DEF ReportInv, ReportTypes
      <3>2. sorted' \in Seq(Nat \ {0})
        OBVIOUS
      <3> QED
        BY <3>1, <3>2 DEF ReportInv, ReportTypes
    <2>4. WalkInside'
      BY ReportAssumption DEF ReportInv, WalkInside
    <2>5. Stamped'
      BY <2>1 DEF ReportInv, Stamped
    <2>6. InOnePlace' /\ CopiedGone'
      BY <2>1 DEF ReportInv, InOnePlace, CopiedGone
    <2> QED
      BY <2>3, <2>4, <2>5, <2>6 DEF ReportInv
  <1> QED
    BY <1>1, <1>2, <1>3, <1>4, <1>5 DEF Walk

LEMMA ReportInvNext == ReportInv /\ [ReportNext]_reportVars => ReportInv'
  <1> SUFFICES ASSUME ReportInv, [ReportNext]_reportVars PROVE ReportInv'
    OBVIOUS
  <1>1. CASE UNCHANGED reportVars
    BY <1>1 DEF reportVars, walk, ReportInv, ReportTypes, WalkInside, Stamped, InOnePlace, CopiedGone
  <1> QED
    BY <1>1, StampStep, StoreStep, WalkStep DEF ReportNext

\* While a walk is on, what it found stays accounted for.
LEMMA AccountedNext ==
    ReportInv /\ Accounted /\ DeletesCopied /\ [ReportNext]_reportVars => Accounted' /\ DeletesCopied'
  <1> SUFFICES ASSUME ReportInv, Accounted, DeletesCopied, [ReportNext]_reportVars
               PROVE  Accounted' /\ DeletesCopied'
    OBVIOUS
  <1>1. ASSUME NEW b \in Bucket, Stamp(b) PROVE Accounted' /\ DeletesCopied'
    BY <1>1 DEF Stamp, walk, Accounted, DeletesCopied
  <1>2. ASSUME NEW e \in flight, Store(e) PROVE Accounted' /\ DeletesCopied'
    <2>1. \A b \in Bucket \ touched' : b \in Bucket \ touched /\ map'[b] = map[b]
      BY <1>2 DEF Store, ReportInv, ReportTypes
    <2> QED
      BY <1>2, <2>1 DEF Store, walk, Accounted, DeletesCopied
  <1>3. CASE BeginWalk
    BY <1>3 DEF BeginWalk, Accounted, DeletesCopied
  <1>4. CASE NextKey
    <2>1. Len(sorted) \in Nat /\ Len(sorted) <= BUFFER_SIZE
      BY DEF ReportInv, ReportTypes, WalkInside
    <2>2. ~(Len(sorted) < BUFFER_SIZE) => Len(sorted) = BUFFER_SIZE
      BY <2>1, ReportAssumption
    <2> QED
      BY <1>4, <2>2 DEF NextKey, Accounted, DeletesCopied
  <1>5. CASE Lookup
    <2>1. /\ key \in Bucket /\ map[key] \in Nat \ {0} /\ sorted \in Seq(Nat \ {0})
          /\ Len(sorted) < BUFFER_SIZE
      BY <1>5 DEF Lookup, ReportInv, ReportTypes, WalkInside
    <2>2. /\ Len(sorted') = Len(sorted) + 1 /\ Len(sorted) \in Nat
          /\ \A k \in 1..Len(sorted) : sorted'[k] = sorted[k] /\ k \in 1..Len(sorted')
          /\ sorted'[Len(sorted) + 1] = map[key] /\ Len(sorted) + 1 \in 1..Len(sorted')
      BY <1>5, <2>1, Appended DEF Lookup
    <2>3. Len(sorted) # BUFFER_SIZE
      BY <2>1, <2>2, ReportAssumption
    <2>4. Accounted'
      BY <1>5, <2>2, <2>3 DEF Lookup, Accounted
    <2>5. DeletesCopied'
      BY <1>5, <2>1, <2>2, <2>3 DEF Lookup, Accounted, DeletesCopied
    <2> QED
      BY <2>4, <2>5
  <1>6. CASE Delete
    <2>1. \A b \in Bucket : b # key => map'[b] = map[b]
      BY <1>6 DEF Delete, ReportInv, ReportTypes
    <2> QED
      BY <1>6, <2>1 DEF Delete, Accounted, DeletesCopied
  <1>7. CASE PrintLog
    BY <1>7 DEF PrintLog, Accounted, DeletesCopied
  <1>8. CASE UNCHANGED reportVars
    BY <1>8 DEF reportVars, walk, Accounted, DeletesCopied
  <1> QED
    BY <1>1, <1>2, <1>3, <1>4, <1>5, <1>6, <1>7, <1>8 DEF ReportNext, Walk

-----------------------------------------------------------------------------
\* The part of TypeOK that ReportTypes leaves open: every time stamp was taken, and
\* the keys of the walk are keys of the map.
Bounded ==
    /\ clock <= MaxEvents
    /\ found \in [Bucket -> 0..MaxEvents]
    /\ cursor \in 0..Buckets /\ key \in 0..Buckets

LEMMA BoundedInit == ReportInit => Bounded
  BY ReportAssumption DEF ReportInit, Bounded

LEMMA BoundedNext == ReportInv /\ Bounded /\ [ReportNext]_reportVars => Bounded'
  <1> SUFFICES ASSUME ReportInv, Bounded, [ReportNext]_reportVars PROVE Bounded'
    OBVIOUS
  <1>1. ASSUME NEW b \in Bucket, Stamp(b) PROVE Bounded'
    BY <1>1, ReportAssumption DEF Stamp, walk, Bounded, ReportInv, ReportTypes
  <1>2. ASSUME NEW e \in flight, Store(e) PROVE Bounded'
    BY <1>2 DEF Store, walk, Bounded
  <1>3. CASE BeginWalk
    <2>1. map \in [Bucket -> 0..MaxEvents]
      BY ReportAssumption DEF ReportInv, ReportTypes, Stamped, Bounded
    <2> QED
      BY <1>3, <2>1, ReportAssumption DEF BeginWalk, Bounded
  <1>4. CASE NextKey
    <2>1. key' \in 0..Buckets
      BY <1>4, AfterHolds, ReportAssumption DEF NextKey, Bucket
    <2> QED
      BY <1>4, <2>1 DEF NextKey, Bounded
  <1>5. CASE Lookup
    BY <1>5 DEF Lookup, Bounded
  <1>6. CASE Delete
    BY <1>6 DEF Delete, Bounded
  <1>7. CASE PrintLog
    BY <1>7, ReportAssumption DEF PrintLog, Bounded
  <1>8. CASE UNCHANGED reportVars
    BY <1>8 DEF reportVars, walk, Bounded
  <1> QED
    BY <1>1, <1>2, <1>3, <1>4, <1>5, <1>6, <1>7, <1>8 DEF ReportNext, Walk

\* No time stamp is made up: everything in flight, stored, copied or shown was
\* taken by process_event, and the walk stays inside the map
\* (events.h:56-235, main.cpp:289-325).
THEOREM ReportTypeCorrect == ReportSpec => []ReportTypeOK
  <1>1. ReportInv /\ Bounded => ReportTypeOK
    <2> SUFFICES ASSUME ReportInv, Bounded PROVE ReportTypeOK
      OBVIOUS
    <2>1. clock \in 0..MaxEvents /\ \A t \in Nat : t <= clock => t \in 0..MaxEvents
      BY ReportAssumption DEF ReportInv, ReportTypes, Bounded
    <2>2. \A t \in Nat \ {0} : t <= clock => t \in 1..MaxEvents
      BY <2>1, ReportAssumption
    <2>3. flight \subseteq (1..MaxEvents) \X Bucket
      BY <2>2 DEF ReportInv, ReportTypes, Stamped
    <2>4. map \in [Bucket -> 0..MaxEvents]
      BY <2>1 DEF ReportInv, ReportTypes, Stamped
    <2>5. \A k \in 1..Len(sorted) : sorted[k] \in 1..MaxEvents
      BY <2>2 DEF ReportInv, ReportTypes, Stamped
    <2>6. copied \subseteq 1..MaxEvents
      BY <2>2 DEF ReportInv, ReportTypes, Stamped
    <2> QED
      BY <2>1, <2>3, <2>4, <2>5, <2>6 DEF ReportInv, ReportTypes, Bounded, ReportTypeOK
  <1> QED
    BY <1>1, ReportInvInit, ReportInvNext, BoundedInit, BoundedNext, PTL DEF ReportSpec

\* No event is shown twice and sorted_buffer is never overrun, however many
\* CPUs store events while the dashboard walks the map (main.cpp:289-325).
THEOREM NeverShownTwice == ReportSpec => []ShownOnce
  <1>1. ReportInv => ShownOnce
    <2> SUFFICES ASSUME ReportInv PROVE ShownOnce
      OBVIOUS
    <2>1. \A t : t \in Copies <=> \E k \in 1..Len(sorted) : t = sorted[k]
      BY DEF Copies
    <2>2. Copies \cap copied = {}
      BY <2>1 DEF ReportInv, InOnePlace
    <2>3. pc \in {"sleep", "next"} => \A b \in Bucket : map[b] \notin copied \cup Copies
      BY <2>1 DEF ReportInv, CopiedGone
    <2> QED
      BY <2>2, <2>3 DEF ReportInv, WalkInside, InOnePlace, ShownOnce
  <1> QED
    BY <1>1, ReportInvInit, ReportInvNext, PTL DEF ReportSpec

\* An event found by a walk and not stored over is shown or kept, unless the
\* buffer was full (main.cpp:297-325).
THEOREM NothingOverlooked == ReportSpec => []NoSilentLoss
  <1>1. Accounted => NoSilentLoss
    BY DEF Accounted, NoSilentLoss, Copies
  <1> QED
    BY <1>1, ReportInvInit, ReportInvNext, AccountedNext, PTL DEF ReportSpec
=============================================================================
