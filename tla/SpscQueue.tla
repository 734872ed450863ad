----------------------------- MODULE SpscQueue -----------------------------
(***************************************************************************)
(* LockFreeSPSCQueue between the poll thread (push_l7event) and the        *)
(* dashboard thread (consume_and_print_userspace_logs), one access to a    *)
(* shared variable a step.  Every atomic access is memory_order_relaxed,   *)
(* so the language orders nothing: the model takes the order of the x86    *)
(* build, in which the stores of a thread, and its loads, are seen in      *)
(* program order.                                                          *)
(***************************************************************************)
EXTENDS Naturals, Sequences

CONSTANTS
    Records,   \* l7_dpi_event contents
    Capacity,  \* capacity_, 65536 in the program
    Nullopt,   \* std::nullopt
    Blank      \* a slot never written

ASSUME CapacityAssumption == Capacity \in Nat \ {0, 1}
ASSUME NulloptAssumption  == Nullopt \notin Records

VARIABLES
    buffer,   \* buffer_
    head,     \* head_, stored by the producer only
    tail,     \* tail_, stored by the consumer only
    prod,     \* the poll thread: pc and the record in its hands
    cons,     \* the dashboard thread: pc and the record it copied
    accepted, \* what the last push returned
    popped    \* what the last pop returned

queueVars == <<buffer, head, tail, prod, cons, accepted, popped>>

Slots == 0..(Capacity - 1)

QueueInit ==
    /\ buffer   = [i \in Slots |-> Blank]
    /\ head     = 0
    /\ tail     = 0
    /\ prod     = [pc |-> "poll", val |-> Blank]
    /\ cons     = [pc |-> "pop", val |-> Blank]
    /\ accepted = TRUE
    /\ popped   = Nullopt

After(i) == (i + 1) % Capacity

\* ring_buffer__poll hands a record to push_l7event
ReceiveRecord(v) ==
    /\ prod.pc = "poll"
    /\ prod' = [pc |-> "check", val |-> v]
    /\ UNCHANGED <<buffer, head, tail, cons, accepted, popped>>

\* mutant: a full queue overwrites its oldest record
PushCheckNever ==
    /\ prod.pc = "check"
    /\ prod' = [prod EXCEPT !.pc = "write"]
    /\ UNCHANGED <<buffer, head, tail, cons, accepted, popped>>

\* load of tail_; a full queue drops the record
PushCheck ==
    /\ prod.pc = "check"
    /\ \/ /\ After(head) = tail
          /\ prod' = [pc |-> "poll", val |-> Blank]
          /\ accepted' = FALSE
       \/ /\ After(head) # tail
          /\ prod' = [prod EXCEPT !.pc = "write"]
          /\ UNCHANGED accepted
    /\ UNCHANGED <<buffer, head, tail, cons, popped>>

PushWrite ==
    /\ prod.pc = "write"
    /\ buffer' = [buffer EXCEPT ![head] = prod.val]
    /\ prod' = [prod EXCEPT !.pc = "publish"]
    /\ UNCHANGED <<head, tail, cons, accepted, popped>>

PushPublish ==
    /\ prod.pc = "publish"
    /\ head' = After(head)
    /\ accepted' = TRUE
    /\ prod' = [pc |-> "poll", val |-> Blank]
    /\ UNCHANGED <<buffer, tail, cons, popped>>

\* mutant: the queue is taken to be empty with one record left
PopCheckEarly ==
    /\ cons.pc = "pop"
    /\ \/ /\ tail = head \/ After(tail) = head
          /\ popped' = Nullopt
          /\ UNCHANGED cons
       \/ /\ tail # head /\ After(tail) # head
          /\ cons' = [cons EXCEPT !.pc = "read"]
          /\ UNCHANGED popped
    /\ UNCHANGED <<buffer, head, tail, prod, accepted>>

\* load of head_; nothing to pop ends consume_and_print_userspace_logs,
\* which the thread calls again 50 ms later
PopCheck ==
    /\ cons.pc = "pop"
    /\ \/ /\ tail = head
          /\ popped' = Nullopt
          /\ UNCHANGED cons
       \/ /\ tail # head
          /\ cons' = [cons EXCEPT !.pc = "read"]
          /\ UNCHANGED popped
    /\ UNCHANGED <<buffer, head, tail, prod, accepted>>

PopRead ==
    /\ cons.pc = "read"
    /\ cons' = [pc |-> "release", val |-> buffer[tail]]
    /\ UNCHANGED <<buffer, head, tail, prod, accepted, popped>>

PopRelease ==
    /\ cons.pc = "release"
    /\ tail' = After(tail)
    /\ popped' = cons.val
    /\ cons' = [pc |-> "pop", val |-> Blank]
    /\ UNCHANGED <<buffer, head, prod, accepted>>

Producer == (\E v \in Records : ReceiveRecord(v)) \/ PushCheck \/ PushWrite \/ PushPublish
Consumer == PopCheck \/ PopRead \/ PopRelease

QueueNext == Producer \/ Consumer

(***************************************************************************)
(* The dashboard thread runs as long as the program does, so it always     *)
(* takes its next step; the poll thread finishes a push it has begun but   *)
(* may never receive another record.                                       *)
(***************************************************************************)
QueueFairness == WF_queueVars(Consumer) /\ WF_queueVars(PushCheck \/ PushWrite \/ PushPublish)

QueueSpec == QueueInit /\ [][QueueNext]_queueVars /\ QueueFairness

-----------------------------------------------------------------------------
Queued == (head + Capacity - tail) % Capacity

\* the records between tail_ and head_, oldest first
Contents == [i \in 1..Queued |-> buffer[(tail + i - 1) % Capacity]]

Fifo == INSTANCE BoundedFifo WITH q <- Contents, Size <- Capacity - 1

\* However the two threads interleave, the ring of slots is a first-in
\* first-out queue of Capacity - 1 records: none is lost, duplicated,
\* reordered or read half-published (LockFreeSPSCQueue.hpp:25-46).
ImplementsFifo == Fifo!Spec

\* A record that was accepted reaches the dashboard thread.
AcceptedIsPopped == \A v \in Records : (Queued > 0 /\ buffer[tail] = v) ~> (popped = v)
=============================================================================
