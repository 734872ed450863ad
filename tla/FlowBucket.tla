----------------------------- MODULE FlowBucket -----------------------------
(***************************************************************************)
(* consume_flow_tokens: the token bucket of one flow_table entry, shared   *)
(* by every CPU and updated without a lock, one shared access a step.      *)
(* Arithmetic is that of __u64.                                            *)
(***************************************************************************)
EXTENDS RateLimit, Functions, FiniteSets

CONSTANTS
    Cpus,
    Lens,       \* packet lengths
    MaxClock,   \* bound of the model on the time
    MaxPackets  \* bound of the model on the packets of the flow

ASSUME CpusAssumption  == IsFiniteSet(Cpus)
\* lengths and times fit in a __u64
ASSUME LensAssumption  == Lens \subseteq 1..(U64 - 1)
ASSUME BoundAssumption == MaxClock \in 1..(U64 - 1) /\ MaxPackets \in Nat
\* so do a full bucket and one refill (2^64 / 10^9 at most) together
ASSUME WordAssumption  == FLOW_BURST + U64 \div NS_PER_SEC < U64

VARIABLES
    clock,    \* bpf_ktime_get_ns()
    st,       \* tokens and last_refill of the flow_state
    task,     \* the call in progress on each CPU
    packets,  \* packets so far
    passed,   \* history: bytes that got XDP_PASS
    credit,   \* history: the balance of the bucket as an integer
    settled   \* history: the bucket when a call last returned

vars == <<clock, st, task, packets, passed, credit, settled>>

Wrap(n) == n % U64

(***************************************************************************)
(* A call between two shared accesses.                                     *)
(*   load   the time is sampled        swap    a refill is due             *)
(*   mint   last_refill is ours        check   tokens were added           *)
(*   clamp  more than the burst seen   take    refill over                 *)
(*   giveback  the tokens did not suffice                                  *)
(***************************************************************************)
IdleTask == [pc |-> "idle", len |-> 0, now |-> 0, last |-> 0, refill |-> 0, curr |-> 0]

Init ==
    /\ clock   = 1
    /\ st      = [tokens |-> FLOW_BURST, last |-> 1]
    /\ task    = [c \in Cpus |-> IdleTask]
    /\ packets = 0
    /\ passed  = 0
    /\ credit  = FLOW_BURST
    /\ settled = st

Goto(c, pc) == task' = [task EXCEPT ![c].pc = pc]

SampleClock(c, len) ==
    /\ task[c].pc = "idle"
    /\ packets < MaxPackets
    /\ packets' = packets + 1
    /\ task' = [task EXCEPT ![c] = [IdleTask EXCEPT !.pc = "load", !.len = len, !.now = clock]]
    /\ UNCHANGED <<clock, st, passed, credit, settled>>

\* mutant: the refill is computed from the whole uptime
LoadRefillUptime(c) ==
    LET refill == Refill(task[c].now, FLOW_RATE) IN
    /\ task[c].pc = "load"
    /\ task' = [task EXCEPT ![c] = [@ EXCEPT !.last = st.last, !.refill = refill,
                                             !.pc = IF refill > 0 THEN "swap" ELSE "take"]]
    /\ UNCHANGED <<clock, st, packets, passed, credit, settled>>

\* a last_refill later than the sampled time makes the difference wrap
LoadRefill(c) ==
    LET refill == Refill(Wrap(task[c].now - st.last), FLOW_RATE) IN
    /\ task[c].pc = "load"
    /\ task' = [task EXCEPT ![c] = [@ EXCEPT !.last = st.last, !.refill = refill,
                                             !.pc = IF refill > 0 THEN "swap" ELSE "take"]]
    /\ UNCHANGED <<clock, st, packets, passed, credit, settled>>

SwapLastRefill(c) ==
    /\ task[c].pc = "swap"
    /\ IF st.last = task[c].last
       THEN st' = [st EXCEPT !.last = task[c].now] /\ Goto(c, "mint")
       ELSE UNCHANGED st /\ Goto(c, "take")
    /\ UNCHANGED <<clock, packets, passed, credit, settled>>

MintTokens(c) ==
    /\ task[c].pc = "mint"
    /\ st' = [st EXCEPT !.tokens = Wrap(@ + task[c].refill)]
    /\ credit' = credit + task[c].refill
    /\ Goto(c, "check")
    /\ UNCHANGED <<clock, packets, passed, settled>>

CheckBurst(c) ==
    /\ task[c].pc = "check"
    /\ task' = [task EXCEPT ![c] = [@ EXCEPT !.curr = st.tokens,
                                             !.pc = IF st.tokens > FLOW_BURST THEN "clamp" ELSE "take"]]
    /\ UNCHANGED <<clock, st, packets, passed, credit, settled>>

\* mutant: the clamp is a plain store
ClampStore(c) ==
    /\ task[c].pc = "clamp"
    /\ st' = [st EXCEPT !.tokens = FLOW_BURST]
    /\ credit' = credit + FLOW_BURST - task[c].curr
    /\ Goto(c, "take")
    /\ UNCHANGED <<clock, packets, passed, settled>>

ClampTokens(c) ==
    /\ task[c].pc = "clamp"
    /\ IF st.tokens = task[c].curr
       THEN st' = [st EXCEPT !.tokens = FLOW_BURST] /\ credit' = credit + FLOW_BURST - task[c].curr
       ELSE UNCHANGED <<st, credit>>
    /\ Goto(c, "take")
    /\ UNCHANGED <<clock, packets, passed, settled>>

\* __sync_fetch_and_sub: the tokens are taken before they are compared
TakeTokens(c) ==
    LET len == task[c].len IN
    /\ task[c].pc = "take"
    /\ st' = [st EXCEPT !.tokens = Wrap(@ - len)]
    /\ \/ /\ st.tokens >= len
          /\ passed' = passed + len
          /\ credit' = credit - len
          /\ settled' = st'
          /\ task' = [task EXCEPT ![c] = IdleTask]
       \/ /\ st.tokens < len
          /\ Goto(c, "giveback")
          /\ UNCHANGED <<passed, credit, settled>>
    /\ UNCHANGED <<clock, packets>>

\* mutant: a dropped packet keeps the tokens it took
GiveNothingBack(c) ==
    /\ task[c].pc = "giveback"
    /\ credit' = credit - task[c].len
    /\ settled' = st
    /\ task' = [task EXCEPT ![c] = IdleTask]
    /\ UNCHANGED <<clock, st, packets, passed>>

GiveBack(c) ==
    /\ task[c].pc = "giveback"
    /\ st' = [st EXCEPT !.tokens = Wrap(@ + task[c].len)]
    /\ settled' = st'
    /\ task' = [task EXCEPT ![c] = IdleTask]
    /\ UNCHANGED <<clock, packets, passed, credit>>

Tick ==
    /\ clock < MaxClock
    /\ clock' = clock + 1
    /\ UNCHANGED <<st, task, packets, passed, credit, settled>>

\* the last packet was handled and the clock is at its bound
Done ==
    /\ packets = MaxPackets /\ clock = MaxClock
    /\ \A c \in Cpus : task[c].pc = "idle"
    /\ UNCHANGED vars

Next ==
    \/ \E c \in Cpus : \/ \E len \in Lens : SampleClock(c, len)
                       \/ LoadRefill(c) \/ SwapLastRefill(c) \/ MintTokens(c) \/ CheckBurst(c)
                       \/ ClampTokens(c) \/ TakeTokens(c) \/ GiveBack(c)
    \/ Tick
    \/ Done

Spec == Init /\ [][Next]_vars

-----------------------------------------------------------------------------
\* The bucket as AtomicFlowBucket sees it: as the last completed call left it.
Atomic == INSTANCE AtomicFlowBucket WITH bucket <- settled

\* The bytes of a flow that pass are at most its burst plus its rate times
\* the time, however many CPUs handle its packets
\* (docs/dataplane.md:77-81).
FlowLimit == NS_PER_SEC * passed <= NS_PER_SEC * FLOW_BURST + FLOW_RATE * (clock - 1)

\* No update of the token count is lost: it always equals, modulo the word,
\* the burst plus what was minted, less what was clamped, what passed and
\* what packets not yet decided have taken.
NoLostUpdate ==
    LET len   == [c \in Cpus |-> task[c].len]
        taken == SumFunctionOnSet(len, {c \in Cpus : task[c].pc = "giveback"})
    IN  st.tokens = Wrap(credit - taken)
=============================================================================
