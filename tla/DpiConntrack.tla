---------------------------- MODULE DpiConntrack ----------------------------
(***************************************************************************)
(* The connection tracker shared by the two BPF programs.  The TC egress   *)
(* program (tc_egress_record) runs on every CPU, learns flows and drives   *)
(* their dpi_state with unlocked loads and stores through pointers into an *)
(* LRU hash; the XDP program reads the byte to decide on ingress packets.  *)
(*                                                                         *)
(* The LRU hash is external.  It is modelled as the pool of preallocated   *)
(* elements the kernel keeps for it: a lookup returns an element, an       *)
(* update fills a free element (or evicts one when none is free) and       *)
(* releases the element that held the key before, and an element that was  *)
(* released may be filled for another key while a program on another CPU   *)
(* still holds a pointer to it.                                            *)
(***************************************************************************)
EXTENDS DpiState, FiniteSets

CONSTANTS
    Cpus,      \* CPUs that run the TC egress program
    Flows,     \* egress five-tuples
    Elems,     \* preallocated elements of established_connections_map
    Service,   \* the service class of each flow
    RingSize,  \* l7_dpi_event records the ring buffer has room for
    NoFlow,    \* key of a free element
    NoElem     \* a failed lookup

ASSUME ServiceAssumption == Service \in [Flows -> Services]
ASSUME RingAssumption    == RingSize \in Nat
ASSUME NoFlowAssumption  == NoFlow \notin Flows
ASSUME NoElemAssumption  == NoElem \notin Elems

VARIABLES
    elem,     \* the LRU elements: the key each holds and its dpi_state
    task,     \* the egress program on each CPU
    ring,     \* records in l7_dpi_ringbuf not yet consumed
    sent,     \* history: events egress submitted per flow, saturating
    learned,  \* history: flows egress has recorded
    ingress   \* the last ingress packet and what XDP did with it

vars == <<elem, task, ring, sent, learned, ingress>>

(***************************************************************************)
(* The egress program between two accesses to shared state.                *)
(*   idle   no packet            read     an element was found             *)
(*   new    to be classified     insert   classified, map not updated yet  *)
(*   pend   PENDING was read     bump     event submitted, count not       *)
(*                                        stored yet                       *)
(***************************************************************************)
Steps == {"idle", "read", "new", "insert", "pend", "bump"}

Task == [step : Steps, flow : Flows \cup {NoFlow}, payload : Payloads,
         ptr : Elems \cup {NoElem}, dpi : Byte]

IdleTask == [step |-> "idle", flow |-> NoFlow, payload |-> "empty",
             ptr |-> NoElem, dpi |-> 0]

SentCap == MAX_DPI_ATTEMPTS + 1

Init ==
    /\ elem    = [e \in Elems |-> [key |-> NoFlow, dpi |-> 0]]
    /\ task    = [c \in Cpus |-> IdleTask]
    /\ ring    = 0
    /\ sent    = [f \in Flows |-> 0]
    /\ learned = {}
    /\ ingress = [flow |-> NoFlow, verdict |-> "DROP"]

-----------------------------------------------------------------------------
(***************************************************************************)
(* The LRU hash and the ring buffer (external).                            *)
(***************************************************************************)
Holding(f) == {e \in Elems : elem[e].key = f}

\* bpf_map_update_elem(..., BPF_ANY): a free element, else any victim
LruUpdate(f, b) ==
    \E e \in Elems :
        /\ elem[e].key = NoFlow \/ Holding(NoFlow) = {}
        /\ elem' = [x \in Elems |->
                       IF x = e THEN [key |-> f, dpi |-> b]
                       ELSE IF elem[x].key = f THEN [elem[x] EXCEPT !.key = NoFlow]
                       ELSE elem[x]]

\* an in-place store through a pointer lands in whatever the element now is
StoreByte(e, b) == elem' = [elem EXCEPT ![e].dpi = b]

\* mutant: the reservation is granted one record too many
RingRoomOffByOne == ring <= RingSize

\* bpf_ringbuf_reserve + submit; Submitted counts the egress events of f
RingRoom == ring < RingSize

Submitted(f) == sent' = [sent EXCEPT ![f] = IF @ < SentCap THEN @ + 1 ELSE @]

-----------------------------------------------------------------------------
(***************************************************************************)
(* tc_egress_record on CPU c.                                              *)
(***************************************************************************)
Lookup(c, f, p) ==
    /\ task[c].step = "idle"
    /\ \/ \E e \in Holding(f) :
             task' = [task EXCEPT ![c] = [step |-> "read", flow |-> f, payload |-> p,
                                          ptr |-> e, dpi |-> 0]]
       \/ /\ Holding(f) = {}
          /\ task' = [task EXCEPT ![c] = [step |-> "new", flow |-> f, payload |-> p,
                                          ptr |-> NoElem, dpi |-> 0]]
    /\ UNCHANGED <<elem, ring, sent, learned, ingress>>

\* mutant: DONE is forgotten in the early return
ClassifiedButDone == {DPI_IGNORE, DPI_BLOCKLIST}

\* classes a flow never leaves
Classified == {DPI_IGNORE, DPI_BLOCKLIST, DPI_TLS_DONE}

\* load of existing->dpi_state and the dispatch on the class
ReadState(c) ==
    /\ task[c].step = "read"
    /\ LET b == elem[task[c].ptr].dpi IN
          \/ /\ DPI_ST(b) \in Classified
             /\ task' = [task EXCEPT ![c] = IdleTask]
          \/ /\ DPI_ST(b) = DPI_TLS_PENDING
             /\ task' = [task EXCEPT ![c] = [@ EXCEPT !.step = "pend", !.dpi = b]]
          \/ /\ DPI_ST(b) \notin Classified \cup {DPI_TLS_PENDING}
             /\ task' = [task EXCEPT ![c].step = "new"]
    /\ UNCHANGED <<elem, ring, sent, learned, ingress>>

\* mutant: > for >=
AttemptsSpentLate(b) == DPI_ATTEMPTS(b) > MAX_DPI_ATTEMPTS

AttemptsSpent(b) == DPI_ATTEMPTS(b) >= MAX_DPI_ATTEMPTS

\* PENDING and out of attempts: DPI_TLS_DONE is stored, no event
GiveUp(c) ==
    /\ task[c].step = "pend"
    /\ AttemptsSpent(task[c].dpi)
    /\ StoreByte(task[c].ptr, DPI_MAKE(DPI_TLS_DONE, DPI_ATTEMPTS(task[c].dpi)))
    /\ task' = [task EXCEPT ![c] = IdleTask]
    /\ UNCHANGED <<ring, sent, learned, ingress>>

\* PENDING: no payload, or the ring buffer is full; nothing is counted
SkipSegment(c) ==
    /\ task[c].step = "pend"
    /\ ~AttemptsSpent(task[c].dpi)
    /\ task[c].payload = "empty" \/ ~RingRoom
    /\ task' = [task EXCEPT ![c] = IdleTask]
    /\ UNCHANGED <<elem, ring, sent, learned, ingress>>

SubmitSegment(c) ==
    /\ task[c].step = "pend"
    /\ ~AttemptsSpent(task[c].dpi)
    /\ task[c].payload # "empty"
    /\ RingRoom
    /\ ring' = ring + 1
    /\ Submitted(task[c].flow)
    /\ task' = [task EXCEPT ![c].step = "bump"]
    /\ UNCHANGED <<elem, learned, ingress>>

StoreAttempt(c) ==
    /\ task[c].step = "bump"
    /\ StoreByte(task[c].ptr, DPI_MAKE(DPI_TLS_PENDING, DPI_ATTEMPTS(task[c].dpi) + 1))
    /\ task' = [task EXCEPT ![c] = IdleTask]
    /\ UNCHANGED <<ring, sent, learned, ingress>>

\* a new or UNKNOWN flow; a ClientHello is submitted when the ring has room
ClassifyFlow(c) ==
    /\ task[c].step = "new"
    /\ LET f     == task[c].flow
           hello == IsClientHello(Service[f], task[c].payload) /\ f \notin TcBlocklist
       IN  /\ task' = [task EXCEPT ![c].step = "insert",
                          ![c].dpi = Classify(Service[f], task[c].payload, f \in TcBlocklist)]
           /\ IF hello /\ RingRoom
              THEN ring' = ring + 1 /\ Submitted(f)
              ELSE UNCHANGED <<ring, sent>>
    /\ UNCHANGED <<elem, learned, ingress>>

InsertFlow(c) ==
    /\ task[c].step = "insert"
    /\ LruUpdate(task[c].flow, task[c].dpi)
    /\ task' = [task EXCEPT ![c] = IdleTask]
    /\ learned' = learned \cup {task[c].flow}
    /\ UNCHANGED <<ring, sent, ingress>>

-----------------------------------------------------------------------------
\* mutant: a flow that is not tracked yet passes as pending
XdpIngressOpen(f) ==
    /\ \/ \E e \in Holding(f) :
             ingress' = [flow |-> f, verdict |-> ConnVerdict(elem[e].dpi)]
       \/ /\ Holding(f) = {}
          /\ ingress' = [flow |-> f, verdict |-> "DPI_PENDING"]
    /\ ring' = IF ingress'.verdict = "DPI_PENDING" /\ RingRoom THEN ring + 1 ELSE ring
    /\ UNCHANGED <<elem, task, sent, learned>>

(***************************************************************************)
(* XDP on the reverse direction of f, past both blocklists: the lookup,    *)
(* the switch on the byte, and emit_l7_event for a pending flow.           *)
(***************************************************************************)
XdpIngress(f) ==
    /\ \/ \E e \in Holding(f) :
             /\ ingress' = [flow |-> f, verdict |-> ConnVerdict(elem[e].dpi)]
             /\ ring' = IF ConnVerdict(elem[e].dpi) = "DPI_PENDING" /\ RingRoom
                        THEN ring + 1 ELSE ring
       \/ /\ Holding(f) = {}
          /\ ingress' = [flow |-> f, verdict |-> "DROP"]
          /\ UNCHANGED ring
    /\ UNCHANGED <<elem, task, sent, learned>>

\* ring_buffer__poll in user space takes one record
ConsumeRecord ==
    /\ ring > 0
    /\ ring' = ring - 1
    /\ UNCHANGED <<elem, task, sent, learned, ingress>>

TcEgress(c) ==
    \/ \E f \in Flows, p \in Payloads : Lookup(c, f, p)
    \/ ReadState(c) \/ GiveUp(c) \/ SkipSegment(c) \/ SubmitSegment(c)
    \/ StoreAttempt(c) \/ ClassifyFlow(c) \/ InsertFlow(c)

Next ==
    \/ \E c \in Cpus : TcEgress(c)
    \/ \E f \in Flows : XdpIngress(f)
    \/ ConsumeRecord

Spec == Init /\ [][Next]_vars

-----------------------------------------------------------------------------
(***************************************************************************)
(* Properties.                                                             *)
(***************************************************************************)

\* Every variable keeps its type; in particular the ring buffer never holds
\* more records than it has room for, whoever reserves in it.
TypeOK ==
    /\ elem \in [Elems -> [key : Flows \cup {NoFlow}, dpi : Byte]]
    /\ task \in [Cpus -> Task]
    /\ \A c \in Cpus : task[c].step # "idle" => task[c].flow \in Flows
    /\ \A c \in Cpus : task[c].step \in {"read", "pend", "bump"} => task[c].ptr \in Elems
    /\ ring \in 0..RingSize
    /\ sent \in [Flows -> 0..SentCap]
    /\ learned \subseteq Flows
    /\ ingress \in [flow : Flows \cup {NoFlow}, verdict : {"DROP", "DPI_PASSED", "DPI_PENDING"}]

PendingByte(n) == {DPI_MAKE(DPI_TLS_PENDING, a) : a \in 1..n}

LegalByte ==
    {DPI_MAKE(DPI_UNKNOWN, 0), DPI_MAKE(DPI_IGNORE, 0),
     DPI_MAKE(DPI_TLS_DONE, MAX_DPI_ATTEMPTS)} \cup PendingByte(MAX_DPI_ATTEMPTS)

\* However the unlocked stores of the CPUs interleave, and whichever element
\* a stale pointer hits, a stored byte, or one a CPU is about to store, is
\* one the encoding means: the attempt count never leaves its nibble, DONE is
\* stored only with the budget spent, and PENDING never occurs with no
\* attempt (trace_connect.c:134-181, the bare value 3 of policy.h:387 is
\* never met).
DpiBytes ==
    /\ \A e \in Elems : elem[e].dpi \in LegalByte
    /\ \A c \in Cpus :
          /\ task[c].step = "insert" => task[c].dpi \in LegalByte
          /\ task[c].step = "pend" => task[c].dpi \in PendingByte(MAX_DPI_ATTEMPTS)
          /\ task[c].step = "bump" => task[c].dpi \in PendingByte(MAX_DPI_ATTEMPTS - 1)

\* XDP lets a tracked-protocol packet in only for a flow that the TC program
\* recorded leaving this host before (policy.h:367-393).
PassOnlyLearned == ingress.verdict # "DROP" => ingress.flow \in learned

\* At most MAX_DPI_ATTEMPTS packets of a flow are offered to user space by
\* the egress program (trace_connect.c:50).
EgressBudget == \A f \in Flows : sent[f] <= MAX_DPI_ATTEMPTS

\* DNS, NTP and DHCP flows are let through without a TLS judgement: no event
\* of such a flow is ever offered and its entry never waits for an SNI.
SystemFlowsIgnored ==
    \A f \in Flows : Service[f] = "system" =>
        /\ sent[f] = 0
        /\ \A e \in Holding(f) : DPI_ST(elem[e].dpi) = DPI_IGNORE
=============================================================================
