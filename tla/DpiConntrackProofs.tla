------------------------- MODULE DpiConntrackProofs -------------------------
(***************************************************************************)
(* Proofs about DpiConntrack for any number of CPUs, flows and map         *)
(* elements, any ring buffer size and any budget that fits the nibble.     *)
(***************************************************************************)
EXTENDS DpiConntrackHistory, TLAPS

\* The two nibbles of DPI_MAKE are read back by DPI_ST and DPI_ATTEMPTS.
LEMMA MakeNibbles ==
    ASSUME NEW st \in 0..15, NEW a \in 0..15
    PROVE  /\ DPI_MAKE(st, a) \in Byte
           /\ DPI_ST(DPI_MAKE(st, a)) = st
           /\ DPI_ATTEMPTS(DPI_MAKE(st, a)) = a
<1>1. a % 16 = a
  OBVIOUS
<1>2. DPI_MAKE(st, a) = a * 16 + st
  BY <1>1 DEF DPI_MAKE
<1> QED
  BY <1>2 DEF Byte, DPI_ST, DPI_ATTEMPTS

\* Legal bytes are bytes, and a PENDING byte carries its attempt count.
LEMMA LegalBytes ==
    /\ LegalByte \subseteq Byte
    /\ \A n \in 0..MAX_DPI_ATTEMPTS : PendingByte(n) \subseteq LegalByte
    /\ \A b \in LegalByte : DPI_ST(b) = DPI_TLS_PENDING => b \in PendingByte(MAX_DPI_ATTEMPTS)
    /\ \A n \in 0..MAX_DPI_ATTEMPTS : \A b \in PendingByte(n) :
          DPI_ATTEMPTS(b) \in 1..n /\ b = DPI_MAKE(DPI_TLS_PENDING, DPI_ATTEMPTS(b))
<1> USE MaxAttemptsAssumption DEF DPI_UNKNOWN, DPI_IGNORE, DPI_TLS_PENDING, DPI_TLS_DONE
<1>1. \A a \in 1..MAX_DPI_ATTEMPTS :
         /\ DPI_MAKE(DPI_TLS_PENDING, a) \in Byte
         /\ DPI_ST(DPI_MAKE(DPI_TLS_PENDING, a)) = DPI_TLS_PENDING
         /\ DPI_ATTEMPTS(DPI_MAKE(DPI_TLS_PENDING, a)) = a
  BY MakeNibbles
<1>2. DPI_MAKE(DPI_UNKNOWN, 0) \in Byte /\ DPI_ST(DPI_MAKE(DPI_UNKNOWN, 0)) = DPI_UNKNOWN
  BY MakeNibbles
<1>3. DPI_MAKE(DPI_IGNORE, 0) \in Byte /\ DPI_ST(DPI_MAKE(DPI_IGNORE, 0)) = DPI_IGNORE
  BY MakeNibbles
<1>4. /\ DPI_MAKE(DPI_TLS_DONE, MAX_DPI_ATTEMPTS) \in Byte
      /\ DPI_ST(DPI_MAKE(DPI_TLS_DONE, MAX_DPI_ATTEMPTS)) = DPI_TLS_DONE
  BY MakeNibbles
<1>5. LegalByte \subseteq Byte
  BY <1>1, <1>2, <1>3, <1>4 DEF LegalByte, PendingByte
<1>6. \A n \in 0..MAX_DPI_ATTEMPTS : PendingByte(n) \subseteq LegalByte
  BY DEF LegalByte, PendingByte
<1>7. \A b \in LegalByte : DPI_ST(b) = DPI_TLS_PENDING => b \in PendingByte(MAX_DPI_ATTEMPTS)
  BY <1>2, <1>3, <1>4 DEF LegalByte
<1>8. \A n \in 0..MAX_DPI_ATTEMPTS : \A b \in PendingByte(n) :
          DPI_ATTEMPTS(b) \in 1..n /\ b = DPI_MAKE(DPI_TLS_PENDING, DPI_ATTEMPTS(b))
  BY <1>1 DEF PendingByte
<1> QED
  BY <1>5, <1>6, <1>7, <1>8

-----------------------------------------------------------------------------
\* What Classify stores for a new flow is a legal byte: the TC program's own
\* blocklist is empty, so DPI_BLOCKLIST is never stored.
LEMMA ClassifyLegal ==
    ASSUME NEW s \in Services, NEW p \in Payloads
    PROVE  Classify(s, p, FALSE) \in LegalByte
<1>1. DPI_MAKE(DPI_TLS_PENDING, 1) \in PendingByte(MAX_DPI_ATTEMPTS)
  BY MaxAttemptsAssumption DEF PendingByte
<1> QED
  BY <1>1 DEF Classify, LegalByte

\* The bytes are legal initially and every step keeps them legal, so a byte
\* that fits its nibbles is all the type invariant needs to know.
Typed == TypeOK /\ DpiBytes

LEMMA TypedInit == Init => Typed
<1> SUFFICES ASSUME Init PROVE Typed
  OBVIOUS
<1>1. 0 \in Byte /\ DPI_MAKE(DPI_UNKNOWN, 0) = 0
  BY DEF Byte, DPI_MAKE, DPI_UNKNOWN
<1>2. IdleTask \in Task
  BY <1>1 DEF IdleTask, Task, Steps, Payloads
<1>3. TypeOK
  BY <1>1, <1>2, RingAssumption, MaxAttemptsAssumption
  DEF Init, TypeOK, IdleTask, SentCap
<1>4. DpiBytes
  BY <1>1 DEF Init, DpiBytes, IdleTask, LegalByte
<1> QED
  BY <1>3, <1>4 DEF Typed

LEMMA TypedNext == Typed /\ [Next]_vars => Typed'
<1> SUFFICES ASSUME Typed, [Next]_vars PROVE Typed'
  OBVIOUS
<1> USE DEF Typed
<1>a. 0 \in Byte
  BY DEF Byte
<1>b. IdleTask \in Task /\ IdleTask.step = "idle"
  BY <1>a DEF IdleTask, Task, Steps, Payloads
<1>1. ASSUME NEW c \in Cpus, NEW f \in Flows, NEW p \in Payloads, Lookup(c, f, p)
      PROVE  Typed'
  <2>1. \E e \in Elems \cup {NoElem}, s \in {"read", "new"} :
           /\ task' = [task EXCEPT ![c] = [step |-> s, flow |-> f, payload |-> p,
                                           ptr |-> e, dpi |-> 0]]
           /\ s = "read" => e \in Elems
    BY <1>1 DEF Lookup, Holding
  <2>2. PICK e \in Elems \cup {NoElem}, s \in {"read", "new"} :
           /\ task' = [task EXCEPT ![c] = [step |-> s, flow |-> f, payload |-> p,
                                           ptr |-> e, dpi |-> 0]]
           /\ s = "read" => e \in Elems
    BY <2>1
  <2>3. [step |-> s, flow |-> f, payload |-> p, ptr |-> e, dpi |-> 0] \in Task
    BY <1>a DEF Task, Steps
  <2> QED
    BY <2>2, <2>3, <1>1 DEF Lookup, TypeOK, DpiBytes
<1>2. ASSUME NEW c \in Cpus, ReadState(c) PROVE Typed'
  <2> DEFINE b == elem[task[c].ptr].dpi
  <2>1. task[c] \in Task /\ task[c].ptr \in Elems /\ task[c].flow \in Flows
    BY <1>2 DEF ReadState, TypeOK
  <2>2. b \in LegalByte /\ b \in Byte
    BY <2>1 DEF TypeOK, DpiBytes
  <2>3. DPI_ST(b) = DPI_TLS_PENDING => b \in PendingByte(MAX_DPI_ATTEMPTS)
    BY <2>2, LegalBytes
  <2>4. PICK t \in Task :
           /\ task' = [task EXCEPT ![c] = t]
           /\ t.step \in {"idle", "pend", "new"}
           /\ t.step # "idle" => t.flow \in Flows /\ t.ptr \in Elems
           /\ t.step = "pend" => t.dpi \in PendingByte(MAX_DPI_ATTEMPTS)
    <3>1. CASE DPI_ST(b) \in Classified
      <4>1. task' = [task EXCEPT ![c] = IdleTask]
        BY <3>1, <1>2 DEF ReadState, Classified, DPI_IGNORE, DPI_BLOCKLIST, DPI_TLS_DONE, DPI_TLS_PENDING
      <4> QED
        BY <4>1, <1>b
    <3>2. CASE DPI_ST(b) = DPI_TLS_PENDING
      <4> DEFINE t == [task[c] EXCEPT !.step = "pend", !.dpi = b]
      <4>1. t \in Task /\ t.step = "pend" /\ t.flow = task[c].flow /\ t.ptr = task[c].ptr /\ t.dpi = b
        BY <2>1, <2>2 DEF Task, Steps
      <4>2. task' = [task EXCEPT ![c] = t]
        BY <3>2, <1>2 DEF ReadState, TypeOK, Classified, DPI_IGNORE, DPI_BLOCKLIST, DPI_TLS_DONE, DPI_TLS_PENDING
      <4> QED
        BY <4>1, <4>2, <2>1, <2>3, <3>2
    <3>3. CASE DPI_ST(b) \notin Classified \cup {DPI_TLS_PENDING}
      <4> DEFINE t == [task[c] EXCEPT !.step = "new"]
      <4>1. t \in Task /\ t.step = "new" /\ t.flow = task[c].flow /\ t.ptr = task[c].ptr
        BY <2>1 DEF Task, Steps
      <4>2. task' = [task EXCEPT ![c] = t]
        BY <3>3, <1>2 DEF ReadState, TypeOK
      <4> QED
        BY <4>1, <4>2, <2>1
    <3> QED
      BY <3>1, <3>2, <3>3
  <2> QED
    BY <2>4, <1>2 DEF ReadState, TypeOK, DpiBytes
<1>3. ASSUME NEW c \in Cpus, GiveUp(c) PROVE Typed'
  <2> DEFINE v == DPI_MAKE(DPI_TLS_DONE, DPI_ATTEMPTS(task[c].dpi))
  <2>1. task[c].dpi \in PendingByte(MAX_DPI_ATTEMPTS) /\ task[c].ptr \in Elems
    BY <1>3 DEF GiveUp, TypeOK, DpiBytes
  <2>2. DPI_ATTEMPTS(task[c].dpi) = MAX_DPI_ATTEMPTS
    BY <2>1, <1>3, LegalBytes, MaxAttemptsAssumption DEF GiveUp, AttemptsSpent
  <2>3. v \in LegalByte /\ v \in Byte
    BY <2>2, LegalBytes DEF LegalByte
  <2> HIDE DEF v
  <2>4. elem' = [elem EXCEPT ![task[c].ptr].dpi = v] /\ task' = [task EXCEPT ![c] = IdleTask]
    BY <1>3 DEF GiveUp, StoreByte, v
  <2> QED
    BY <2>1, <2>3, <2>4, <1>3, <1>b DEF GiveUp, TypeOK, DpiBytes
<1>4. ASSUME NEW c \in Cpus, SkipSegment(c) PROVE Typed'
  BY <1>4, <1>b DEF SkipSegment, TypeOK, DpiBytes
<1>5. ASSUME NEW c \in Cpus, SubmitSegment(c) PROVE Typed'
  <2> DEFINE t == [task[c] EXCEPT !.step = "bump"]
  <2>1. task[c] \in Task /\ task[c].flow \in Flows /\ task[c].ptr \in Elems
    BY <1>5 DEF SubmitSegment, TypeOK
  <2>2. t \in Task /\ t.step = "bump" /\ t.flow = task[c].flow /\ t.ptr = task[c].ptr
        /\ t.dpi = task[c].dpi
    BY <2>1 DEF Task, Steps
  <2>3. t.dpi \in PendingByte(MAX_DPI_ATTEMPTS - 1)
    <3>1. task[c].dpi \in PendingByte(MAX_DPI_ATTEMPTS)
      BY <1>5 DEF SubmitSegment, DpiBytes
    <3>2. /\ DPI_ATTEMPTS(task[c].dpi) \in 1..MAX_DPI_ATTEMPTS
          /\ task[c].dpi = DPI_MAKE(DPI_TLS_PENDING, DPI_ATTEMPTS(task[c].dpi))
      BY <3>1, LegalBytes, MaxAttemptsAssumption
    <3>3. DPI_ATTEMPTS(task[c].dpi) \in 1..(MAX_DPI_ATTEMPTS - 1)
      BY <3>2, <1>5, MaxAttemptsAssumption DEF SubmitSegment, AttemptsSpent
    <3> QED
      BY <2>2, <3>2, <3>3 DEF PendingByte
  <2>4. sent' \in [Flows -> 0..SentCap] /\ ring' \in 0..RingSize
    BY <2>1, <1>5, RingAssumption, MaxAttemptsAssumption
    DEF SubmitSegment, Submitted, RingRoom, SentCap, TypeOK
  <2>5. task' = [task EXCEPT ![c] = t]
    BY <1>5 DEF SubmitSegment, TypeOK
  <2> HIDE DEF t
  <2> QED
    BY <2>1, <2>2, <2>3, <2>4, <2>5, <1>5 DEF SubmitSegment, TypeOK, DpiBytes
<1>6. ASSUME NEW c \in Cpus, StoreAttempt(c) PROVE Typed'
  <2> DEFINE v == DPI_MAKE(DPI_TLS_PENDING, DPI_ATTEMPTS(task[c].dpi) + 1)
  <2>1. task[c].dpi \in PendingByte(MAX_DPI_ATTEMPTS - 1) /\ task[c].ptr \in Elems
    BY <1>6 DEF StoreAttempt, TypeOK, DpiBytes
  <2>2. DPI_ATTEMPTS(task[c].dpi) + 1 \in 1..MAX_DPI_ATTEMPTS
    BY <2>1, LegalBytes, MaxAttemptsAssumption
  <2>3. v \in LegalByte /\ v \in Byte
    BY <2>2, LegalBytes DEF LegalByte, PendingByte
  <2> HIDE DEF v
  <2>4. elem' = [elem EXCEPT ![task[c].ptr].dpi = v] /\ task' = [task EXCEPT ![c] = IdleTask]
    BY <1>6 DEF StoreAttempt, StoreByte, v
  <2> QED
    BY <2>1, <2>3, <2>4, <1>6, <1>b DEF StoreAttempt, TypeOK, DpiBytes
<1>7. ASSUME NEW c \in Cpus, ClassifyFlow(c) PROVE Typed'
  <2> DEFINE f == task[c].flow
             v == Classify(Service[f], task[c].payload, FALSE)
             t == [task[c] EXCEPT !.step = "insert", !.dpi = v]
  <2>1. task[c] \in Task /\ f \in Flows /\ task[c].payload \in Payloads
    BY <1>7 DEF ClassifyFlow, TypeOK, Task
  <2>2. v \in LegalByte /\ v \in Byte
    BY <2>1, ServiceAssumption, ClassifyLegal, LegalBytes
  <2>3. (f \in TcBlocklist) = FALSE
    BY DEF TcBlocklist
  <2>4. task' = [task EXCEPT ![c] = t]
    BY <2>3, <1>7 DEF ClassifyFlow, TypeOK
  <2>5. sent' \in [Flows -> 0..SentCap] /\ ring' \in 0..RingSize
    BY <2>1, <1>7, RingAssumption, MaxAttemptsAssumption
    DEF ClassifyFlow, Submitted, RingRoom, SentCap, TypeOK
  <2> HIDE DEF v
  <2>6. t \in Task /\ t.step = "insert" /\ t.flow = f /\ t.dpi = v
    BY <2>1, <2>2 DEF Task, Steps
  <2> HIDE DEF t, f
  <2>7. t.flow \in Flows
    BY <2>1, <2>6
  <2> QED
    BY <2>2, <2>4, <2>5, <2>6, <2>7, <1>7 DEF ClassifyFlow, TypeOK, DpiBytes
<1>8. ASSUME NEW c \in Cpus, InsertFlow(c) PROVE Typed'
  <2>1. task[c].flow \in Flows /\ task[c].dpi \in LegalByte /\ task[c].dpi \in Byte
    BY <1>8, LegalBytes DEF InsertFlow, TypeOK, DpiBytes
  <2>2. /\ elem' \in [Elems -> [key : Flows \cup {NoFlow}, dpi : Byte]]
        /\ \A x \in Elems : elem'[x].dpi \in LegalByte
    BY <2>1, <1>8 DEF InsertFlow, LruUpdate, TypeOK, DpiBytes
  <2> QED
    BY <2>1, <2>2, <1>8, <1>b DEF InsertFlow, TypeOK, DpiBytes
<1>9. ASSUME NEW f \in Flows, XdpIngress(f) PROVE Typed'
  BY <1>9, RingAssumption DEF XdpIngress, Holding, ConnVerdict, RingRoom, TypeOK, DpiBytes
<1>10. CASE ConsumeRecord
  BY <1>10, RingAssumption DEF ConsumeRecord, TypeOK, DpiBytes
<1>11. CASE UNCHANGED vars
  BY <1>11 DEF vars, TypeOK, DpiBytes
<1> QED
  BY <1>1, <1>2, <1>3, <1>4, <1>5, <1>6, <1>7, <1>8, <1>9, <1>10, <1>11 DEF Next, TcEgress

\* Every reachable state is typed and every dpi_state byte in it, stored or
\* in flight on a CPU, is one the encoding of trace_connect.c:38-50 means.
THEOREM BytesAlwaysLegal == Spec => []DpiBytes
<1>1. Spec => []Typed
  BY TypedInit, TypedNext, PTL DEF Spec
<1>2. Typed => DpiBytes
  BY DEF Typed
<1> QED
  BY <1>1, <1>2, PTL

\* Type correctness of the connection tracker; the ring buffer never holds
\* more than it has room for.
THEOREM TypeCorrect == Spec => []TypeOK
<1>1. Spec => []Typed
  BY TypedInit, TypedNext, PTL DEF Spec
<1>2. Typed => TypeOK
  BY DEF Typed
<1> QED
  BY <1>1, <1>2, PTL

-----------------------------------------------------------------------------
(***************************************************************************)
(* Admission.  PassOnlyLearned speaks of the last ingress packet only; it  *)
(* is inductive once every key in the map is known to be a learned flow.   *)
(* A stale pointer can corrupt another flow's byte but never its key.      *)
(***************************************************************************)
LearnedKeys == \A e \in Elems : elem[e].key \in learned \cup {NoFlow}

AdmissionInv == LearnedKeys /\ PassOnlyLearned

LEMMA AdmissionNext == Typed /\ AdmissionInv /\ [Next]_vars => AdmissionInv'
<1> SUFFICES ASSUME Typed, AdmissionInv, [Next]_vars PROVE AdmissionInv'
  OBVIOUS
<1> USE DEF AdmissionInv, LearnedKeys, PassOnlyLearned
<1>1. ASSUME NEW c \in Cpus, NEW f \in Flows, NEW p \in Payloads, Lookup(c, f, p)
      PROVE  AdmissionInv'
  BY <1>1 DEF Lookup
<1>2. ASSUME NEW c \in Cpus,
             ReadState(c) \/ SkipSegment(c) \/ SubmitSegment(c) \/ ClassifyFlow(c)
      PROVE  AdmissionInv'
  BY <1>2 DEF ReadState, SkipSegment, SubmitSegment, ClassifyFlow
<1>3. ASSUME NEW c \in Cpus, GiveUp(c) \/ StoreAttempt(c)
      PROVE  AdmissionInv'
  <2>1. PICK v : elem' = [elem EXCEPT ![task[c].ptr].dpi = v]
    BY <1>3 DEF GiveUp, StoreAttempt, StoreByte
  <2>2. \A e \in Elems : elem'[e].key = elem[e].key
    BY <2>1 DEF Typed, TypeOK
  <2>3. UNCHANGED <<learned, ingress>>
    BY <1>3 DEF GiveUp, StoreAttempt
  <2> QED
    BY <2>2, <2>3
<1>4. ASSUME NEW c \in Cpus, InsertFlow(c) PROVE AdmissionInv'
  <2>1. \A e \in Elems : elem'[e].key \in {elem[e].key, task[c].flow, NoFlow}
    BY <1>4 DEF InsertFlow, LruUpdate, Typed, TypeOK
  <2>2. learned' = learned \cup {task[c].flow} /\ UNCHANGED ingress
    BY <1>4 DEF InsertFlow
  <2> QED
    BY <2>1, <2>2
<1>5. ASSUME NEW f \in Flows, XdpIngress(f) PROVE AdmissionInv'
  <2>1. CASE Holding(f) = {}
    BY <2>1, <1>5 DEF XdpIngress
  <2>2. CASE Holding(f) # {}
    <3>1. f \in learned
      BY <2>2, NoFlowAssumption DEF Holding
    <3>2. ingress'.flow = f /\ UNCHANGED <<elem, learned>>
      BY <1>5 DEF XdpIngress
    <3> QED
      BY <3>1, <3>2
  <2> QED
    BY <2>1, <2>2
<1>6. CASE ConsumeRecord
  BY <1>6 DEF ConsumeRecord
<1>7. CASE UNCHANGED vars
  BY <1>7 DEF vars
<1> QED
  BY <1>1, <1>2, <1>3, <1>4, <1>5, <1>6, <1>7 DEF Next, TcEgress

\* XDP never admits a TCP or UDP packet of a flow the TC program has not
\* recorded, for any number of CPUs and any eviction or element reuse.
THEOREM AdmissionCorrect == Spec => []PassOnlyLearned
<1>1. Init => AdmissionInv
  BY DEF Init, AdmissionInv, LearnedKeys, PassOnlyLearned
<1>2. Spec => []Typed
  BY TypedInit, TypedNext, PTL DEF Spec
<1>3. AdmissionInv => PassOnlyLearned
  BY DEF AdmissionInv
<1> QED
  BY <1>1, <1>2, <1>3, AdmissionNext, PTL DEF Spec

-----------------------------------------------------------------------------
(***************************************************************************)
(* Undisturbed flows.  While no two CPUs work on the same flow and no flow *)
(* loses its entry, a pointer still points to the entry it was looked up   *)
(* for and a byte read is the byte stored, so the attempts in the byte     *)
(* bound the events that were submitted.                                   *)
(***************************************************************************)
OneEntry ==
    /\ \A x, y \in Elems : elem[x].key = elem[y].key /\ elem[x].key # NoFlow => x = y
    /\ \A c \in Cpus : task[c].step = "idle" => task[c].flow = NoFlow

Apart == \A c, d \in Cpus : task[c].flow = task[d].flow /\ task[c].flow # NoFlow => c = d

Pointing ==
    \A c \in Cpus :
        /\ task[c].step \in {"read", "pend", "bump"} => elem[task[c].ptr].key = task[c].flow
        /\ task[c].step \in {"pend", "bump"} => elem[task[c].ptr].dpi = task[c].dpi

\* a flow is classified only while its entry, if any, is still UNKNOWN
Unsettled ==
    \A c \in Cpus, e \in Elems :
        task[c].step \in {"new", "insert"} /\ elem[e].key = task[c].flow
            => DPI_ST(elem[e].dpi) = DPI_UNKNOWN

\* an event of f was submitted that its entry does not count yet
Uncounted(f) == \E c \in Cpus : task[c].flow = f /\ task[c].step \in {"insert", "bump"}

\* The events of a flow are counted in its byte, or in the byte a CPU is
\* about to store.
Counted ==
    /\ \A c \in Cpus :
          /\ task[c].step = "insert" => sent[task[c].flow] <= DPI_ATTEMPTS(task[c].dpi)
          /\ task[c].step = "bump" => sent[task[c].flow] <= DPI_ATTEMPTS(task[c].dpi) + 1
    /\ \A f \in Flows : ~Uncounted(f) =>
          /\ \A e \in Elems : elem[e].key = f => sent[f] <= DPI_ATTEMPTS(elem[e].dpi)
          /\ (\A e \in Elems : elem[e].key # f) => sent[f] = 0

SystemBytes ==
    /\ \A e \in Elems : elem[e].key # NoFlow /\ Service[elem[e].key] = "system"
                          => elem[e].dpi = DPI_MAKE(DPI_IGNORE, 0)
    /\ \A c \in Cpus : task[c].step = "insert" /\ Service[task[c].flow] = "system"
                          => task[c].dpi = DPI_MAKE(DPI_IGNORE, 0)

Coherent == Pointing /\ Unsettled /\ Counted /\ SystemBytes

HistoryInv ==
    /\ raced \in BOOLEAN /\ evicted \in BOOLEAN
    /\ Typed /\ OneEntry
    /\ ~raced => Apart
    /\ Undisturbed => Coherent

\* The attempts of a legal byte are within the budget; the classes that are
\* stored without an attempt.
LEMMA ByteClasses ==
    /\ \A b \in LegalByte :
          /\ DPI_ATTEMPTS(b) \in 0..MAX_DPI_ATTEMPTS
          /\ DPI_ST(b) \in {DPI_UNKNOWN, DPI_IGNORE, DPI_TLS_PENDING, DPI_TLS_DONE}
          /\ DPI_ST(b) = DPI_UNKNOWN => DPI_ATTEMPTS(b) = 0
    /\ \A b \in PendingByte(MAX_DPI_ATTEMPTS) : DPI_ST(b) = DPI_TLS_PENDING
    /\ DPI_ST(DPI_MAKE(DPI_IGNORE, 0)) = DPI_IGNORE /\ DPI_ATTEMPTS(DPI_MAKE(DPI_IGNORE, 0)) = 0
<1> USE MaxAttemptsAssumption DEF DPI_UNKNOWN, DPI_IGNORE, DPI_TLS_PENDING, DPI_TLS_DONE
<1>1. \A a \in 0..MAX_DPI_ATTEMPTS :
         /\ DPI_ST(DPI_MAKE(DPI_TLS_PENDING, a)) = DPI_TLS_PENDING
         /\ DPI_ATTEMPTS(DPI_MAKE(DPI_TLS_PENDING, a)) = a
         /\ DPI_ST(DPI_MAKE(DPI_TLS_DONE, a)) = DPI_TLS_DONE
         /\ DPI_ATTEMPTS(DPI_MAKE(DPI_TLS_DONE, a)) = a
  BY MakeNibbles
<1>2. /\ DPI_ST(DPI_MAKE(DPI_UNKNOWN, 0)) = DPI_UNKNOWN /\ DPI_ATTEMPTS(DPI_MAKE(DPI_UNKNOWN, 0)) = 0
      /\ DPI_ST(DPI_MAKE(DPI_IGNORE, 0)) = DPI_IGNORE /\ DPI_ATTEMPTS(DPI_MAKE(DPI_IGNORE, 0)) = 0
  BY MakeNibbles
<1>3. \A b \in PendingByte(MAX_DPI_ATTEMPTS) :
         DPI_ST(b) = DPI_TLS_PENDING /\ DPI_ATTEMPTS(b) \in 0..MAX_DPI_ATTEMPTS
  BY <1>1 DEF PendingByte
<1>4. MAX_DPI_ATTEMPTS \in 0..MAX_DPI_ATTEMPTS /\ 0 \in 0..MAX_DPI_ATTEMPTS
  OBVIOUS
<1>5. ASSUME NEW b \in LegalByte
      PROVE  /\ DPI_ATTEMPTS(b) \in 0..MAX_DPI_ATTEMPTS
             /\ DPI_ST(b) \in {DPI_UNKNOWN, DPI_IGNORE, DPI_TLS_PENDING, DPI_TLS_DONE}
             /\ DPI_ST(b) = DPI_UNKNOWN => DPI_ATTEMPTS(b) = 0
  <2>1. CASE b \in PendingByte(MAX_DPI_ATTEMPTS)
    BY <1>3, <2>1
  <2>2. CASE b = DPI_MAKE(DPI_UNKNOWN, 0)
    BY <1>2, <1>4, <2>2
  <2>3. CASE b = DPI_MAKE(DPI_IGNORE, 0)
    BY <1>2, <1>4, <2>3
  <2>4. CASE b = DPI_MAKE(DPI_TLS_DONE, MAX_DPI_ATTEMPTS)
    BY <1>1, <1>4, <2>4
  <2> QED
    BY <2>1, <2>2, <2>3, <2>4 DEF LegalByte
<1> QED
  BY <1>2, <1>3, <1>5

\* A key is held by one element at a time: an update releases the element
\* that held it before (the LRU hash), and a store keeps the keys.
LEMMA OneEntryNext == Typed /\ OneEntry /\ [Next]_vars => OneEntry'
<1> SUFFICES ASSUME Typed, OneEntry, [Next]_vars PROVE OneEntry'
  OBVIOUS
<1>0. /\ elem \in [Elems -> [key : Flows \cup {NoFlow}, dpi : Byte]] /\ task \in [Cpus -> Task]
      /\ IdleTask.flow = NoFlow
  BY DEF Typed, TypeOK, IdleTask
<1> USE DEF OneEntry
<1>1. ASSUME NEW c \in Cpus, NEW f \in Flows, NEW p \in Payloads, Lookup(c, f, p) PROVE OneEntry'
  BY <1>0, <1>1 DEF Lookup
<1>2. ASSUME NEW c \in Cpus, ReadState(c) PROVE OneEntry'
  BY <1>0, <1>2 DEF ReadState, Task
<1>3. ASSUME NEW c \in Cpus, NEW b, StoreByte(task[c].ptr, b), task' = [task EXCEPT ![c] = IdleTask] PROVE OneEntry'
  BY <1>0, <1>3 DEF StoreByte
<1>4. ASSUME NEW c \in Cpus, SkipSegment(c) \/ SubmitSegment(c) \/ ClassifyFlow(c) PROVE OneEntry'
  <2>1. UNCHANGED elem
    BY <1>4 DEF SkipSegment, SubmitSegment, ClassifyFlow
  <2>2. CASE SkipSegment(c)
    BY <1>0, <2>1, <2>2 DEF SkipSegment
  <2>3. CASE SubmitSegment(c)
    <3>1. task' = [task EXCEPT ![c].step = "bump"]
      BY <2>3 DEF SubmitSegment
    <3> QED
      BY <1>0, <2>1, <3>1 DEF Task
  <2>4. CASE ClassifyFlow(c)
    <3>1. PICK b : task' = [task EXCEPT ![c].step = "insert", ![c].dpi = b]
      BY <2>4 DEF ClassifyFlow
    <3> QED
      BY <1>0, <2>1, <3>1 DEF Task
  <2> QED
    BY <1>4, <2>2, <2>3, <2>4
<1>5. ASSUME NEW c \in Cpus, InsertFlow(c) PROVE OneEntry'
  BY <1>0, <1>5 DEF InsertFlow, LruUpdate
<1>6. CASE UNCHANGED <<elem, task>>
  BY <1>6
<1> QED
  BY <1>1, <1>2, <1>3, <1>4, <1>5, <1>6
     DEF Next, TcEgress, GiveUp, StoreAttempt, XdpIngress, ConsumeRecord, vars

\* The steps of an undisturbed CPU keep its view of its flow coherent, and
\* those of the CPUs that work on other flows.
LEMMA CoherentQuiet ==
    ASSUME Typed, OneEntry, Coherent, NEW c \in Cpus,
           \/ \E f \in Flows, p \in Payloads : Lookup(c, f, p)
           \/ ReadState(c)
           \/ SkipSegment(c)
    PROVE  Coherent'
<1>1. /\ elem \in [Elems -> [key : Flows \cup {NoFlow}, dpi : Byte]] /\ task \in [Cpus -> Task]
      /\ task[c] \in Task /\ UNCHANGED <<elem, sent>> /\ NoFlow \notin Flows
      /\ IdleTask.step = "idle"
  BY NoFlowAssumption DEF Typed, TypeOK, Lookup, ReadState, SkipSegment, IdleTask
<1>2. PICK t :
         /\ task' = [task EXCEPT ![c] = t]
         /\ t.step \in {"idle", "read", "new", "pend"}
         /\ t.step = "read" => elem[t.ptr].key = t.flow
         /\ t.step = "pend" => elem[t.ptr].key = t.flow /\ elem[t.ptr].dpi = t.dpi
         /\ t.step = "new" => \A e \in Elems : elem[e].key = t.flow => DPI_ST(elem[e].dpi) = DPI_UNKNOWN
  <2>1. CASE \E f \in Flows, p \in Payloads : Lookup(c, f, p)
    BY <1>1, <2>1 DEF Lookup, Holding
  <2>2. CASE ReadState(c)
    <3> DEFINE b == elem[task[c].ptr].dpi
    <3>1. task[c].step = "read" /\ task[c].ptr \in Elems /\ elem[task[c].ptr].key = task[c].flow
          /\ task[c].flow \in Flows
      BY <2>2 DEF ReadState, Coherent, Pointing, Typed, TypeOK
    <3>2. CASE task' = [task EXCEPT ![c] = IdleTask]
      BY <1>1, <3>2
    <3>3. CASE task' = [task EXCEPT ![c] = [@ EXCEPT !.step = "pend", !.dpi = b]]
      <4> DEFINE t == [task[c] EXCEPT !.step = "pend", !.dpi = b]
      <4>1. t.step = "pend" /\ t.ptr = task[c].ptr /\ t.flow = task[c].flow /\ t.dpi = b
        BY <1>1 DEF Task
      <4>2. task' = [task EXCEPT ![c] = t]
        BY <1>1, <3>3
      <4> HIDE DEF t
      <4> QED
        BY <3>1, <4>1, <4>2
    <3>4. CASE task' = [task EXCEPT ![c].step = "new"] /\ DPI_ST(b) \notin Classified \cup {DPI_TLS_PENDING}
      <4> DEFINE t == [task[c] EXCEPT !.step = "new"]
      <4>1. t.step = "new" /\ t.flow = task[c].flow /\ task' = [task EXCEPT ![c] = t]
        BY <1>1, <3>4 DEF Task
      <4> HIDE DEF t
      <4>2. \A e \in Elems : elem[e].key = task[c].flow => e = task[c].ptr
        BY <1>1, <3>1 DEF OneEntry
      <4>3. b \in LegalByte
        BY <3>1 DEF Typed, DpiBytes
      <4>4. DPI_ST(b) = DPI_UNKNOWN
        BY <3>4, <4>3, ByteClasses DEF Classified
      <4> QED
        BY <4>1, <4>2, <4>4
    <3> QED
      BY <2>2, <3>2, <3>3, <3>4 DEF ReadState
  <2>3. CASE SkipSegment(c)
    BY <1>1, <2>3 DEF SkipSegment
  <2> QED
    BY <2>1, <2>2, <2>3
<1>3. task'[c] = t /\ \A d \in Cpus : d # c => task'[d] = task[d]
  BY <1>1, <1>2
<1>4. task[c].step \notin {"insert", "bump"}
  BY DEF Lookup, ReadState, SkipSegment
<1>5. Pointing'
  BY <1>1, <1>2, <1>3 DEF Coherent, Pointing
<1>6. Unsettled'
  BY <1>1, <1>2, <1>3 DEF Coherent, Unsettled
<1>7. \A f \in Flows : Uncounted(f)' <=> Uncounted(f)
  BY <1>2, <1>3, <1>4 DEF Uncounted
<1>8. Counted'
  BY <1>1, <1>2, <1>3, <1>7 DEF Coherent, Counted
<1>9. SystemBytes'
  BY <1>1, <1>2, <1>3 DEF Coherent, SystemBytes
<1> QED
  BY <1>5, <1>6, <1>8, <1>9 DEF Coherent

LEMMA CoherentStore ==
    ASSUME Typed, OneEntry, Apart, Coherent, NEW c \in Cpus, GiveUp(c) \/ StoreAttempt(c)
    PROVE  Coherent' /\ \A x \in Elems : x # task[c].ptr => elem'[x] = elem[x]
<1> DEFINE g == task[c].flow
           q == task[c].ptr
           a == DPI_ATTEMPTS(task[c].dpi)
<1>1. /\ elem \in [Elems -> [key : Flows \cup {NoFlow}, dpi : Byte]] /\ task \in [Cpus -> Task]
      /\ NoFlow \notin Flows /\ IdleTask.step = "idle" /\ g \in Flows /\ q \in Elems
      /\ elem[q].key = g /\ elem[q].dpi = task[c].dpi /\ UNCHANGED sent
      /\ task[c].dpi \in PendingByte(MAX_DPI_ATTEMPTS)
      /\ task[c].step \in {"pend", "bump"}
  <2>1. PendingByte(MAX_DPI_ATTEMPTS - 1) \subseteq PendingByte(MAX_DPI_ATTEMPTS)
    BY MaxAttemptsAssumption DEF PendingByte
  <2>2. task[c].step \in {"pend", "bump"} /\ UNCHANGED sent
    BY DEF GiveUp, StoreAttempt
  <2> QED
    BY <2>1, <2>2, NoFlowAssumption DEF Typed, TypeOK, DpiBytes, Coherent, Pointing, IdleTask
<1>2. a \in 1..MAX_DPI_ATTEMPTS
  BY <1>1, LegalBytes, MaxAttemptsAssumption
<1>3. PICK v : /\ elem' = [elem EXCEPT ![q].dpi = v] /\ task' = [task EXCEPT ![c] = IdleTask]
               /\ sent[g] <= DPI_ATTEMPTS(v)
  <2>1. CASE GiveUp(c)
    <3> DEFINE v == DPI_MAKE(DPI_TLS_DONE, a)
    <3>1. ~Uncounted(g)
      BY <1>1, <2>1 DEF Uncounted, Apart, GiveUp
    <3>2. sent[g] <= a
      BY <1>1, <3>1 DEF Coherent, Counted
    <3>3. DPI_ATTEMPTS(v) = a
      BY <1>2, MaxAttemptsAssumption, MakeNibbles DEF DPI_TLS_DONE
    <3>4. elem' = [elem EXCEPT ![q].dpi = v] /\ task' = [task EXCEPT ![c] = IdleTask]
      BY <2>1 DEF GiveUp, StoreByte
    <3> HIDE DEF v
    <3> QED
      BY <3>2, <3>3, <3>4
  <2>2. CASE StoreAttempt(c)
    <3> DEFINE v == DPI_MAKE(DPI_TLS_PENDING, a + 1)
    <3>1. sent[g] <= a + 1
      BY <1>1, <2>2 DEF Coherent, Counted, StoreAttempt
    <3>2. task[c].dpi \in PendingByte(MAX_DPI_ATTEMPTS - 1)
      BY <2>2 DEF StoreAttempt, Typed, DpiBytes
    <3>3. a + 1 \in 0..15
      BY <3>2, LegalBytes, MaxAttemptsAssumption
    <3>4. DPI_ATTEMPTS(v) = a + 1
      BY <3>3, MakeNibbles DEF DPI_TLS_PENDING
    <3>5. elem' = [elem EXCEPT ![q].dpi = v] /\ task' = [task EXCEPT ![c] = IdleTask]
      BY <2>2 DEF StoreAttempt, StoreByte
    <3> HIDE DEF v
    <3> QED
      BY <3>1, <3>4, <3>5
  <2> QED
    BY <2>1, <2>2
<1>4. /\ \A x \in Elems : elem'[x].key = elem[x].key /\ (x # q => elem'[x] = elem[x])
      /\ elem'[q].dpi = v
      /\ task'[c].step = "idle" /\ \A d \in Cpus : d # c => task'[d] = task[d]
  BY <1>1, <1>3
<1>5. \A x \in Elems : elem[x].key = g => x = q
  BY <1>1 DEF OneEntry
<1>6. \A d \in Cpus : d # c => task[d].flow # g
  BY <1>1 DEF Apart
<1>7. Pointing'
  <2> SUFFICES ASSUME NEW d \in Cpus, d # c, task[d].step \in {"read", "pend", "bump"}
               PROVE  elem'[task[d].ptr] = elem[task[d].ptr]
    BY <1>1, <1>4 DEF Coherent, Pointing
  <2>1. task[d].ptr \in Elems /\ elem[task[d].ptr].key = task[d].flow
    BY DEF Coherent, Pointing, Typed, TypeOK
  <2> QED
    BY <1>1, <1>4, <1>6, <2>1
<1>8. Unsettled'
  BY <1>1, <1>4, <1>5, <1>6 DEF Coherent, Unsettled
<1>9. \A f \in Flows : IF f = g THEN ~Uncounted(f)' ELSE Uncounted(f)' <=> Uncounted(f)
  <2>1. ASSUME NEW f \in Flows, f = g PROVE ~Uncounted(f)'
    BY <1>4, <1>6, <2>1 DEF Uncounted
  <2>2. ASSUME NEW f \in Flows, f # g PROVE Uncounted(f)' <=> Uncounted(f)
    BY <1>4, <2>2 DEF Uncounted
  <2> QED
    BY <2>1, <2>2
<1>10. Counted'
  <2>1. \A d \in Cpus :
          /\ task'[d].step = "insert" => sent'[task'[d].flow] <= DPI_ATTEMPTS(task'[d].dpi)
          /\ task'[d].step = "bump" => sent'[task'[d].flow] <= DPI_ATTEMPTS(task'[d].dpi) + 1
    BY <1>1, <1>4 DEF Coherent, Counted
  <2>2. ASSUME NEW f \in Flows, f # g, ~Uncounted(f)'
        PROVE  /\ \A e \in Elems : elem'[e].key = f => sent'[f] <= DPI_ATTEMPTS(elem'[e].dpi)
               /\ (\A e \in Elems : elem'[e].key # f) => sent'[f] = 0
    BY <1>1, <1>4, <1>5, <1>9, <2>2 DEF Coherent, Counted
  <2>3. /\ \A e \in Elems : elem'[e].key = g => sent'[g] <= DPI_ATTEMPTS(elem'[e].dpi)
        /\ ~ \A e \in Elems : elem'[e].key # g
    BY <1>1, <1>3, <1>4, <1>5
  <2> QED
    BY <2>1, <2>2, <2>3 DEF Counted
<1>11. SystemBytes'
  <2>1. Service[g] # "system"
    <3>1. DPI_ST(elem[q].dpi) = DPI_TLS_PENDING
      BY <1>1, ByteClasses
    <3>2. elem[q].dpi # DPI_MAKE(DPI_IGNORE, 0)
      BY <3>1, ByteClasses DEF DPI_IGNORE, DPI_TLS_PENDING
    <3> QED
      BY <1>1, <3>2 DEF Coherent, SystemBytes
  <2> QED
    BY <1>1, <1>4, <1>5, <2>1 DEF Coherent, SystemBytes
<1> QED
  BY <1>4, <1>7, <1>8, <1>10, <1>11 DEF Coherent

LEMMA CoherentSubmit ==
    ASSUME Typed, OneEntry, Apart, Coherent, NEW c \in Cpus, SubmitSegment(c) \/ ClassifyFlow(c)
    PROVE  Coherent'
<1> DEFINE g == task[c].flow
<1>1. /\ elem \in [Elems -> [key : Flows \cup {NoFlow}, dpi : Byte]] /\ task \in [Cpus -> Task]
      /\ sent \in [Flows -> 0..SentCap] /\ task[c] \in Task
      /\ NoFlow \notin Flows /\ g \in Flows /\ UNCHANGED elem
      /\ task[c].step \in {"pend", "new"}
  BY NoFlowAssumption DEF SubmitSegment, ClassifyFlow, Typed, TypeOK
<1>2. ~Uncounted(g)
  BY <1>1 DEF Uncounted, Apart
<1>3. PICK t, n :
         /\ n \in Nat /\ task' = [task EXCEPT ![c] = t] /\ sent' = [sent EXCEPT ![g] = n]
         /\ t.flow = g
         /\ t.step \in {"insert", "bump"}
         /\ t.step = "insert" => /\ n <= DPI_ATTEMPTS(t.dpi)
                                 /\ \A e \in Elems : elem[e].key = g => DPI_ST(elem[e].dpi) = DPI_UNKNOWN
                                 /\ Service[g] = "system" => t.dpi = DPI_MAKE(DPI_IGNORE, 0)
         /\ t.step = "bump" => /\ n <= DPI_ATTEMPTS(t.dpi) + 1
                               /\ elem[t.ptr].key = g /\ elem[t.ptr].dpi = t.dpi
  <2>1. CASE SubmitSegment(c)
    <3> DEFINE t == [task[c] EXCEPT !.step = "bump"]
               n == IF sent[g] < SentCap THEN sent[g] + 1 ELSE sent[g]
    <3>1. /\ t.step = "bump" /\ t.flow = g /\ t.dpi = task[c].dpi /\ t.ptr = task[c].ptr
          /\ task' = [task EXCEPT ![c] = t] /\ sent' = [sent EXCEPT ![g] = n]
      BY <1>1, <2>1 DEF SubmitSegment, Submitted, Task
    <3>2. task[c].ptr \in Elems /\ elem[task[c].ptr].key = g /\ elem[task[c].ptr].dpi = task[c].dpi
          /\ task[c].dpi \in PendingByte(MAX_DPI_ATTEMPTS)
      BY <2>1 DEF SubmitSegment, Typed, TypeOK, DpiBytes, Coherent, Pointing
    <3>3. DPI_ATTEMPTS(task[c].dpi) \in Nat
      BY <3>2, LegalBytes, MaxAttemptsAssumption
    <3>4. sent[g] <= DPI_ATTEMPTS(task[c].dpi)
      BY <1>1, <1>2, <3>2 DEF Coherent, Counted
    <3>5. n \in Nat /\ n <= sent[g] + 1 /\ sent[g] \in Nat
      BY <1>1, MaxAttemptsAssumption DEF SentCap
    <3> HIDE DEF t, n
    <3>6. n <= DPI_ATTEMPTS(t.dpi) + 1
      BY <3>1, <3>3, <3>4, <3>5
    <3> QED
      BY <3>1, <3>2, <3>5, <3>6
  <2>2. CASE ClassifyFlow(c)
    <3> DEFINE v == Classify(Service[g], task[c].payload, FALSE)
               t == [task[c] EXCEPT !.step = "insert", !.dpi = v]
    <3>1. (g \in TcBlocklist) = FALSE
      BY DEF TcBlocklist
    <3>2. task' = [task EXCEPT ![c] = t]
      BY <1>1, <2>2, <3>1 DEF ClassifyFlow
    <3>3. \A e \in Elems : elem[e].key = g => DPI_ST(elem[e].dpi) = DPI_UNKNOWN
      BY <2>2 DEF ClassifyFlow, Coherent, Unsettled
    <3>4. sent[g] = 0
      <4>1. ASSUME NEW e \in Elems, elem[e].key = g PROVE sent[g] = 0
        <5>1. DPI_ATTEMPTS(elem[e].dpi) = 0
          BY <3>3, <4>1, ByteClasses DEF Typed, DpiBytes
        <5>2. sent[g] <= DPI_ATTEMPTS(elem[e].dpi)
          BY <1>1, <1>2, <4>1 DEF Coherent, Counted
        <5> QED
          BY <1>1, <5>1, <5>2, MaxAttemptsAssumption DEF SentCap
      <4>2. CASE \A e \in Elems : elem[e].key # g
        BY <1>1, <1>2, <4>2 DEF Coherent, Counted
      <4> QED
        BY <4>1, <4>2
    <3>5. v \in LegalByte
      BY <1>1, ServiceAssumption, ClassifyLegal DEF Task
    <3>7. Service[g] = "system" => v = DPI_MAKE(DPI_IGNORE, 0)
      BY DEF Classify
    <3>8. IsClientHello(Service[g], task[c].payload) => DPI_ATTEMPTS(v) = 1
      <4>1. IsClientHello(Service[g], task[c].payload) => v = DPI_MAKE(DPI_TLS_PENDING, 1)
        BY DEF IsClientHello, Classify
      <4>2. DPI_ATTEMPTS(DPI_MAKE(DPI_TLS_PENDING, 1)) = 1
        BY MakeNibbles DEF DPI_TLS_PENDING
      <4> QED
        BY <4>1, <4>2
    <3> HIDE DEF v
    <3>9. DPI_ATTEMPTS(v) \in Nat
      BY <3>5, ByteClasses, MaxAttemptsAssumption
    <3>10. t.step = "insert" /\ t.flow = g /\ t.dpi = v
      BY <1>1 DEF Task
    <3> DEFINE n == IF sent' = sent THEN 0 ELSE 1
    <3>11. sent' = [sent EXCEPT ![g] = n] /\ n <= DPI_ATTEMPTS(v) /\ n \in Nat
      <4>1. CASE sent' = sent
        BY <1>1, <3>4, <3>9, <4>1
      <4>2. CASE sent' # sent
        <5>1. IsClientHello(Service[g], task[c].payload) /\ sent' = [sent EXCEPT ![g] = 1]
          BY <1>1, <2>2, <3>4, <4>2, MaxAttemptsAssumption DEF ClassifyFlow, Submitted, SentCap
        <5>2. n = 1 /\ DPI_ATTEMPTS(v) = 1
          BY <3>8, <4>2, <5>1
        <5> HIDE DEF n
        <5> QED
          BY <5>1, <5>2
      <4> QED
        BY <4>1, <4>2
    <3> HIDE DEF t, n
    <3> QED
      BY <3>2, <3>3, <3>7, <3>10, <3>11
  <2> QED
    BY <2>1, <2>2
<1>4. /\ task'[c] = t /\ \A d \in Cpus : d # c => task'[d] = task[d]
      /\ sent'[g] = n /\ \A f \in Flows : f # g => sent'[f] = sent[f]
  BY <1>1, <1>3
<1>5. \A d \in Cpus : d # c => task[d].flow # g
  BY <1>1 DEF Apart
<1>6. Pointing'
  BY <1>1, <1>3, <1>4 DEF Coherent, Pointing
<1>7. Unsettled'
  BY <1>1, <1>3, <1>4 DEF Coherent, Unsettled
<1>8. \A f \in Flows : IF f = g THEN Uncounted(f)' ELSE Uncounted(f)' <=> Uncounted(f)
  BY <1>1, <1>3, <1>4, <1>5 DEF Uncounted
<1>9. Counted'
  <2>1. ASSUME NEW d \in Cpus
        PROVE  /\ task'[d].step = "insert" => sent'[task'[d].flow] <= DPI_ATTEMPTS(task'[d].dpi)
               /\ task'[d].step = "bump" => sent'[task'[d].flow] <= DPI_ATTEMPTS(task'[d].dpi) + 1
    <3>1. CASE d = c
      BY <1>3, <1>4, <3>1
    <3>2. CASE d # c /\ task[d].step # "idle"
      <4>1. task[d].flow \in Flows
        BY <3>2 DEF Typed, TypeOK
      <4> QED
        BY <1>4, <1>5, <3>2, <4>1 DEF Coherent, Counted
    <3>3. CASE d # c /\ task[d].step = "idle"
      BY <1>4, <3>3
    <3> QED
      BY <3>1, <3>2, <3>3
  <2>2. ASSUME NEW f \in Flows, ~Uncounted(f)'
        PROVE  /\ \A e \in Elems : elem'[e].key = f => sent'[f] <= DPI_ATTEMPTS(elem'[e].dpi)
               /\ (\A e \in Elems : elem'[e].key # f) => sent'[f] = 0
    BY <1>1, <1>4, <1>8, <2>2 DEF Coherent, Counted
  <2> QED
    BY <2>1, <2>2 DEF Counted
<1>10. SystemBytes'
  BY <1>1, <1>3, <1>4 DEF Coherent, SystemBytes
<1> QED
  BY <1>6, <1>7, <1>9, <1>10 DEF Coherent

\* An insertion that evicts no flow takes a free element or the flow's own.
LEMMA CoherentInsert ==
    ASSUME Typed, OneEntry, Apart, Coherent, NEW c \in Cpus, InsertFlow(c),
           \A f \in Flows, e \in Elems : elem[e].key = f => \E x \in Elems : elem'[x].key = f
    PROVE  /\ Coherent'
           /\ \A x \in Elems : elem[x].key \notin {NoFlow, task[c].flow} => elem'[x] = elem[x]
<1> DEFINE g == task[c].flow
<1>1. /\ elem \in [Elems -> [key : Flows \cup {NoFlow}, dpi : Byte]] /\ task \in [Cpus -> Task]
      /\ NoFlow \notin Flows /\ g \in Flows /\ UNCHANGED sent /\ IdleTask.step = "idle"
      /\ task[c].step = "insert" /\ task' = [task EXCEPT ![c] = IdleTask]
  BY NoFlowAssumption DEF InsertFlow, Typed, TypeOK, IdleTask
<1>2. PICK e \in Elems :
         elem' = [x \in Elems |->
                     IF x = e THEN [key |-> g, dpi |-> task[c].dpi]
                     ELSE IF elem[x].key = g THEN [elem[x] EXCEPT !.key = NoFlow]
                     ELSE elem[x]]
  BY DEF InsertFlow, LruUpdate
<1>3. /\ elem'[e].key = g /\ elem'[e].dpi = task[c].dpi
      /\ \A x \in Elems : x # e => /\ elem[x].key = g => elem'[x].key = NoFlow
                                   /\ elem[x].key # g => elem'[x] = elem[x]
  BY <1>1, <1>2
<1>4. elem[e].key \in {NoFlow, g}
  <2> SUFFICES ASSUME elem[e].key # NoFlow, elem[e].key # g PROVE FALSE
    OBVIOUS
  <2>1. elem[e].key \in Flows
    BY <1>1
  <2>2. PICK x \in Elems : elem'[x].key = elem[e].key
    BY <2>1
  <2>3. x # e /\ elem[x].key = elem[e].key
    BY <1>3, <2>2
  <2> QED
    BY <2>3 DEF OneEntry
<1>5. \A x \in Elems :
         /\ elem[x].key \notin {NoFlow, g} => elem'[x] = elem[x]
         /\ elem'[x].key \notin {NoFlow, g} => elem'[x] = elem[x]
         /\ elem'[x].key = g => x = e
  BY <1>1, <1>3, <1>4
<1>6. task'[c].step = "idle" /\ \A d \in Cpus : d # c => task'[d] = task[d]
  BY <1>1
<1>7. \A d \in Cpus : d # c => task[d].flow # g
  BY <1>1 DEF Apart
<1>8. ASSUME NEW d \in Cpus, task[d].step # "idle", d # c
      PROVE  task[d].flow \in Flows /\ task[d].flow \notin {NoFlow, g}
  BY <1>1, <1>7, <1>8 DEF Typed, TypeOK
<1>9. Pointing'
  <2> SUFFICES ASSUME NEW d \in Cpus, d # c, task[d].step \in {"read", "pend", "bump"}
               PROVE  elem'[task[d].ptr] = elem[task[d].ptr]
    BY <1>1, <1>6 DEF Coherent, Pointing
  <2>1. task[d].ptr \in Elems /\ elem[task[d].ptr].key = task[d].flow
    BY DEF Coherent, Pointing, Typed, TypeOK
  <2> QED
    BY <1>5, <1>8, <2>1
<1>10. Unsettled'
  <2> SUFFICES ASSUME NEW d \in Cpus, NEW x \in Elems, d # c,
                      task[d].step \in {"new", "insert"}, elem'[x].key = task[d].flow
               PROVE  DPI_ST(elem'[x].dpi) = DPI_UNKNOWN
    BY <1>6 DEF Unsettled
  <2>1. elem'[x] = elem[x]
    BY <1>5, <1>8
  <2> QED
    BY <2>1 DEF Coherent, Unsettled
<1>11. \A f \in Flows : IF f = g THEN ~Uncounted(f)' ELSE Uncounted(f)' <=> Uncounted(f)
  BY <1>1, <1>6, <1>7 DEF Uncounted
<1>12. Counted'
  <2>1. \A d \in Cpus :
          /\ task'[d].step = "insert" => sent'[task'[d].flow] <= DPI_ATTEMPTS(task'[d].dpi)
          /\ task'[d].step = "bump" => sent'[task'[d].flow] <= DPI_ATTEMPTS(task'[d].dpi) + 1
    BY <1>1, <1>6 DEF Coherent, Counted
  <2>2. ASSUME NEW f \in Flows, f # g, ~Uncounted(f)'
        PROVE  /\ \A x \in Elems : elem'[x].key = f => sent'[f] <= DPI_ATTEMPTS(elem'[x].dpi)
               /\ (\A x \in Elems : elem'[x].key # f) => sent'[f] = 0
    <3>1. ~Uncounted(f)
      BY <1>11, <2>2
    <3>2. \A x \in Elems : elem'[x].key = f => elem'[x] = elem[x]
      BY <1>1, <1>5, <2>2
    <3>3. \A x \in Elems : elem[x].key = f => elem'[x] = elem[x]
      BY <1>1, <1>5, <2>2
    <3> QED
      BY <1>1, <3>1, <3>2, <3>3 DEF Coherent, Counted
  <2>3. /\ \A x \in Elems : elem'[x].key = g => sent'[g] <= DPI_ATTEMPTS(elem'[x].dpi)
        /\ ~ \A x \in Elems : elem'[x].key # g
    BY <1>1, <1>3, <1>5 DEF Coherent, Counted
  <2> QED
    BY <2>1, <2>2, <2>3 DEF Counted
<1>13. SystemBytes'
  <2>1. \A d \in Cpus : task'[d].step = "insert" /\ Service[task'[d].flow] = "system"
                          => task'[d].dpi = DPI_MAKE(DPI_IGNORE, 0)
    BY <1>6 DEF Coherent, SystemBytes
  <2>2. ASSUME NEW x \in Elems, elem'[x].key # NoFlow, Service[elem'[x].key] = "system"
        PROVE  elem'[x].dpi = DPI_MAKE(DPI_IGNORE, 0)
    <3>1. CASE x = e
      BY <1>1, <1>3, <2>2, <3>1 DEF Coherent, SystemBytes
    <3>2. CASE x # e
      BY <1>5, <2>2, <3>2 DEF Coherent, SystemBytes
    <3> QED
      BY <3>1, <3>2
  <2> QED
    BY <2>1, <2>2 DEF SystemBytes
<1> QED
  BY <1>5, <1>9, <1>10, <1>12, <1>13 DEF Coherent

LEMMA HistoryInitial == HistoryInit => HistoryInv
<1> SUFFICES ASSUME HistoryInit PROVE HistoryInv
  OBVIOUS
<1>1. /\ Typed /\ NoFlow \notin Flows /\ raced = FALSE /\ evicted = FALSE
      /\ \A e \in Elems : elem[e].key = NoFlow
      /\ \A c \in Cpus : task[c].step = "idle" /\ task[c].flow = NoFlow
      /\ \A f \in Flows : sent[f] = 0
  BY TypedInit, NoFlowAssumption DEF HistoryInit, Init, IdleTask
<1>2. OneEntry /\ Apart
  BY <1>1 DEF OneEntry, Apart
<1>3. Coherent
  BY <1>1 DEF Coherent, Pointing, Unsettled, Counted, SystemBytes, Uncounted
<1> QED
  BY <1>1, <1>2, <1>3 DEF HistoryInv

\* An undisturbed step keeps everything coherent and leaves the entries that
\* hold a final class as they are.
LEMMA UndisturbedStep ==
    ASSUME HistoryInv, [HistoryNext]_historyVars, Undisturbed'
    PROVE  /\ Coherent'
           /\ \A e \in Elems : /\ elem[e].key \in Flows
                               /\ DPI_ST(elem[e].dpi) \in {DPI_IGNORE, DPI_BLOCKLIST, DPI_TLS_DONE}
                               => elem'[e] = elem[e]
<1> DEFINE Kept == \A e \in Elems : /\ elem[e].key \in Flows
                                    /\ DPI_ST(elem[e].dpi) \in {DPI_IGNORE, DPI_BLOCKLIST, DPI_TLS_DONE}
                                    => elem'[e] = elem[e]
<1>1. Undisturbed /\ (HistoryNext => ~ \E f \in Flows : Holding(f) # {} /\ \A e \in Elems : elem'[e].key # f)
  <2>1. CASE HistoryNext
    BY <2>1, Zenon DEF HistoryNext, Undisturbed
  <2>2. CASE UNCHANGED historyVars /\ ~HistoryNext
    BY <2>2 DEF historyVars, Undisturbed
  <2> QED
    BY <2>1, <2>2
<1>2. Typed /\ OneEntry /\ Apart /\ Coherent
  BY <1>1 DEF HistoryInv, Undisturbed
<1>3. CASE UNCHANGED <<elem, task, sent>>
  BY <1>2, <1>3 DEF Coherent, Pointing, Unsettled, Counted, SystemBytes, Uncounted
<1>4. ASSUME NEW c \in Cpus,
             \/ \E f \in Flows, p \in Payloads : Lookup(c, f, p)
             \/ ReadState(c) \/ SkipSegment(c)
      PROVE  Coherent' /\ Kept
  <2>1. Coherent'
    BY <1>2, <1>4, CoherentQuiet
  <2>2. UNCHANGED elem
    BY <1>4 DEF Lookup, ReadState, SkipSegment
  <2> QED
    BY <2>1, <2>2
<1>5. ASSUME NEW c \in Cpus, SubmitSegment(c) \/ ClassifyFlow(c) PROVE Coherent' /\ Kept
  <2>1. Coherent'
    BY <1>2, <1>5, CoherentSubmit
  <2>2. UNCHANGED elem
    BY <1>5 DEF SubmitSegment, ClassifyFlow
  <2> QED
    BY <2>1, <2>2
<1>6. ASSUME NEW c \in Cpus, GiveUp(c) \/ StoreAttempt(c) PROVE Coherent' /\ Kept
  <2>1. Coherent' /\ \A x \in Elems : x # task[c].ptr => elem'[x] = elem[x]
    BY <1>2, <1>6, CoherentStore
  <2>2. DPI_ST(elem[task[c].ptr].dpi) = DPI_TLS_PENDING
    <3>1. task[c].step \in {"pend", "bump"}
      BY <1>6 DEF GiveUp, StoreAttempt
    <3>2. elem[task[c].ptr].dpi = task[c].dpi
      BY <1>2, <3>1 DEF Coherent, Pointing
    <3>3. task[c].dpi \in PendingByte(MAX_DPI_ATTEMPTS)
      BY <1>2, <3>1, MaxAttemptsAssumption DEF Typed, DpiBytes, PendingByte
    <3> QED
      BY <3>2, <3>3, ByteClasses
  <2> QED
    BY <2>1, <2>2 DEF DPI_IGNORE, DPI_BLOCKLIST, DPI_TLS_DONE, DPI_TLS_PENDING
<1>7. ASSUME NEW c \in Cpus, InsertFlow(c), HistoryNext PROVE Coherent' /\ Kept
  <2>1. \A f \in Flows, e \in Elems : elem[e].key = f => \E x \in Elems : elem'[x].key = f
    BY <1>1, <1>7 DEF Holding
  <2>2. /\ Coherent'
        /\ \A x \in Elems : elem[x].key \notin {NoFlow, task[c].flow} => elem'[x] = elem[x]
    BY <1>2, <1>7, <2>1, CoherentInsert
  <2>3. \A e \in Elems : elem[e].key = task[c].flow => DPI_ST(elem[e].dpi) = DPI_UNKNOWN
    BY <1>2, <1>7 DEF InsertFlow, Coherent, Unsettled
  <2> QED
    BY <2>2, <2>3, NoFlowAssumption DEF DPI_IGNORE, DPI_BLOCKLIST, DPI_TLS_DONE, DPI_UNKNOWN
<1>8. CASE HistoryNext
  BY <1>3, <1>4, <1>5, <1>6, <1>7, <1>8 DEF HistoryNext, Next, TcEgress, XdpIngress, ConsumeRecord
<1>9. CASE UNCHANGED historyVars
  BY <1>3, <1>9 DEF historyVars, vars
<1> QED
  BY <1>8, <1>9

LEMMA HistoryNextInv == HistoryInv /\ [HistoryNext]_historyVars => HistoryInv'
<1> SUFFICES ASSUME HistoryInv, [HistoryNext]_historyVars PROVE HistoryInv'
  OBVIOUS
<1>1. [Next]_vars
  BY DEF HistoryNext, historyVars
<1>2. Typed' /\ OneEntry'
  BY <1>1, TypedNext, OneEntryNext DEF HistoryInv
<1>3. raced' \in BOOLEAN /\ evicted' \in BOOLEAN
  BY DEF HistoryInv, HistoryNext, historyVars
<1>4. ~raced' => Apart'
  <2>1. CASE HistoryNext
    BY <2>1 DEF HistoryNext, Apart
  <2>2. CASE UNCHANGED historyVars
    BY <2>2 DEF historyVars, vars, HistoryInv, Apart
  <2> QED
    BY <2>1, <2>2
<1>5. Undisturbed' => Coherent'
  BY UndisturbedStep
<1> QED
  BY <1>2, <1>3, <1>4, <1>5 DEF HistoryInv

LEMMA BudgetFromInv == HistoryInv => BudgetKept
<1> SUFFICES ASSUME HistoryInv, Undisturbed, NEW f \in Flows PROVE sent[f] <= MAX_DPI_ATTEMPTS
  BY DEF BudgetKept, EgressBudget
<1>1. Typed /\ Coherent /\ sent[f] \in Nat
  BY MaxAttemptsAssumption DEF HistoryInv, Typed, TypeOK, SentCap
<1>2. ASSUME NEW c \in Cpus, task[c].flow = f, task[c].step = "insert" PROVE sent[f] <= MAX_DPI_ATTEMPTS
  <2>1. DPI_ATTEMPTS(task[c].dpi) \in 0..MAX_DPI_ATTEMPTS
    BY <1>1, <1>2, ByteClasses DEF Typed, DpiBytes
  <2>2. sent[f] <= DPI_ATTEMPTS(task[c].dpi)
    BY <1>1, <1>2 DEF Coherent, Counted
  <2> QED
    BY <1>1, <2>1, <2>2, MaxAttemptsAssumption
<1>3. ASSUME NEW c \in Cpus, task[c].flow = f, task[c].step = "bump" PROVE sent[f] <= MAX_DPI_ATTEMPTS
  <2>1. DPI_ATTEMPTS(task[c].dpi) \in 1..(MAX_DPI_ATTEMPTS - 1)
    BY <1>1, <1>3, LegalBytes, MaxAttemptsAssumption DEF Typed, DpiBytes
  <2>2. sent[f] <= DPI_ATTEMPTS(task[c].dpi) + 1
    BY <1>1, <1>3 DEF Coherent, Counted
  <2> QED
    BY <1>1, <2>1, <2>2, MaxAttemptsAssumption
<1>4. CASE ~Uncounted(f)
  <2>1. ASSUME NEW e \in Elems, elem[e].key = f PROVE sent[f] <= MAX_DPI_ATTEMPTS
    <3>1. DPI_ATTEMPTS(elem[e].dpi) \in 0..MAX_DPI_ATTEMPTS
      BY <1>1, ByteClasses DEF Typed, DpiBytes
    <3>2. sent[f] <= DPI_ATTEMPTS(elem[e].dpi)
      BY <1>1, <1>4, <2>1 DEF Coherent, Counted
    <3> QED
      BY <1>1, <3>1, <3>2, MaxAttemptsAssumption
  <2>2. CASE \A e \in Elems : elem[e].key # f
    BY <1>1, <1>4, <2>2, MaxAttemptsAssumption DEF Coherent, Counted
  <2> QED
    BY <2>1, <2>2
<1> QED
  BY <1>2, <1>3, <1>4 DEF Uncounted

LEMMA SystemFromInv == HistoryInv => SystemFlowsKept
<1> SUFFICES ASSUME HistoryInv, Undisturbed, NEW f \in Flows, Service[f] = "system"
             PROVE  sent[f] = 0 /\ \A e \in Holding(f) : DPI_ST(elem[e].dpi) = DPI_IGNORE
  BY DEF SystemFlowsKept, SystemFlowsIgnored
<1>1. Typed /\ Coherent /\ sent[f] \in Nat /\ f # NoFlow
  BY MaxAttemptsAssumption, NoFlowAssumption DEF HistoryInv, Typed, TypeOK, SentCap
<1>2. \A e \in Elems : elem[e].key = f => elem[e].dpi = DPI_MAKE(DPI_IGNORE, 0)
  BY <1>1 DEF Coherent, SystemBytes
<1>3. ASSUME NEW c \in Cpus, task[c].flow = f PROVE task[c].step # "bump"
  <2> SUFFICES ASSUME task[c].step = "bump" PROVE FALSE
    OBVIOUS
  <2>1. task[c].ptr \in Elems /\ elem[task[c].ptr].key = f /\ elem[task[c].ptr].dpi = task[c].dpi
    BY <1>1, <1>3 DEF Coherent, Pointing, Typed, TypeOK
  <2>2. task[c].dpi \in PendingByte(MAX_DPI_ATTEMPTS)
    BY <1>1, MaxAttemptsAssumption DEF Typed, DpiBytes, PendingByte
  <2> QED
    BY <1>2, <2>1, <2>2, ByteClasses DEF DPI_IGNORE, DPI_TLS_PENDING
<1>4. sent[f] <= 0
  <2>1. ASSUME NEW c \in Cpus, task[c].flow = f, task[c].step = "insert" PROVE sent[f] <= 0
    <3>1. sent[f] <= DPI_ATTEMPTS(task[c].dpi) /\ task[c].dpi = DPI_MAKE(DPI_IGNORE, 0)
      BY <1>1, <2>1 DEF Coherent, Counted, SystemBytes
    <3> QED
      BY <3>1, ByteClasses
  <2>2. CASE ~Uncounted(f)
    <3>1. ASSUME NEW e \in Elems, elem[e].key = f PROVE sent[f] <= 0
      <4>1. sent[f] <= DPI_ATTEMPTS(elem[e].dpi)
        BY <1>1, <2>2, <3>1 DEF Coherent, Counted
      <4> QED
        BY <1>2, <3>1, <4>1, ByteClasses
    <3>2. CASE \A e \in Elems : elem[e].key # f
      BY <1>1, <2>2, <3>2 DEF Coherent, Counted
    <3> QED
      BY <3>1, <3>2
  <2> QED
    BY <1>3, <2>1, <2>2 DEF Uncounted
<1> QED
  BY <1>1, <1>2, <1>4, ByteClasses DEF Holding

-----------------------------------------------------------------------------
\* For any number of CPUs, flows and elements: as long as every flow keeps to
\* one CPU at a time and keeps its entry, at most MAX_DPI_ATTEMPTS of its
\* packets are offered to user space (trace_connect.c:113-182).
THEOREM BudgetHolds == HistorySpec => []BudgetKept
<1> QED
  BY HistoryInitial, HistoryNextInv, BudgetFromInv, PTL DEF HistorySpec

\* Under the same condition no event of a DNS, NTP or DHCP flow is offered to
\* user space and its entry never waits for an SNI (trace_connect.c:134-196).
THEOREM SystemFlowsHold == HistorySpec => []SystemFlowsKept
<1> QED
  BY HistoryInitial, HistoryNextInv, SystemFromInv, PTL DEF HistorySpec

\* Under the same condition a class that ends the inspection is final: no
\* step changes the entry that holds it (trace_connect.c:134-181).
THEOREM FinalHolds == HistorySpec => FinalKept
<1>1. HistorySpec => []HistoryInv
  BY HistoryInitial, HistoryNextInv, PTL DEF HistorySpec
<1>2. HistoryInv /\ [HistoryNext]_historyVars =>
          [Undisturbed' => \A e \in Elems :
              /\ elem[e].key \in Flows
              /\ DPI_ST(elem[e].dpi) \in {DPI_IGNORE, DPI_BLOCKLIST, DPI_TLS_DONE}
              => elem'[e] = elem[e]]_historyVars
  BY UndisturbedStep
<1> QED
  BY <1>1, <1>2, PTL DEF HistorySpec, FinalKept
=============================================================================
