------------------------------ MODULE PpsBucket ------------------------------
(***************************************************************************)
(* consume_global_pps: the packet bucket in the single element of          *)
(* global_pps_map, shared by every CPU.  Its fields are read and written   *)
(* with plain accesses, each a step of its own, and bpf_map_update_elem is *)
(* handed the element itself, so it copies the element over itself.        *)
(* clang -O2 loads tokens once for the test and the decrement, and after   *)
(* each helper call anew.  Arithmetic is that of __u64.                    *)
(***************************************************************************)
EXTENDS RateLimit

CONSTANTS
    Cpus,
    MaxClock,   \* bound of the model on the time
    MaxPackets  \* bound of the model on the packets

VARIABLES
    clock,     \* bpf_ktime_get_ns()
    pps,       \* the element: tokens and last_ts
    call,      \* the call in progress on each CPU
    arrived,   \* packets so far
    admitted,  \* history: packets that got past the bucket
    minted     \* history: tokens the refills added before the clamp

PpsWrap(n) == n % U64

(***************************************************************************)
(* A call before each of its shared accesses.  reg and old are the values  *)
(* of tokens and last_ts it holds in registers.                            *)
(***************************************************************************)
IdleCall == [pc |-> "idle", now |-> 0, refill |-> 0, reg |-> 0, old |-> 0]

\* init_global_pps_limit
PpsInit ==
    /\ pps      = [tokens |-> GLOBAL_PPS_LIMIT, last |-> 0]
    /\ call     = [c \in Cpus |-> IdleCall]
    /\ arrived  = 0
    /\ admitted = 0
    /\ minted   = 0

At(c, pc)   == call[c].pc = pc
Step(c, pc) == call' = [call EXCEPT ![c].pc = pc]

SampleTime(c) ==
    /\ At(c, "idle")
    /\ arrived < MaxPackets
    /\ arrived' = arrived + 1
    /\ call' = [call EXCEPT ![c] = [IdleCall EXCEPT !.pc = "delta", !.now = clock]]
    /\ UNCHANGED <<pps, admitted, minted>>

\* a last_ts later than the sampled time makes the difference wrap
LoadLastTs(c) ==
    LET refill == Refill(PpsWrap(call[c].now - pps.last), GLOBAL_PPS_LIMIT) IN
    /\ At(c, "delta")
    /\ call' = [call EXCEPT ![c] = [@ EXCEPT !.refill = refill,
                                             !.pc = IF refill > 0 THEN "refill" ELSE "test"]]
    /\ UNCHANGED <<pps, arrived, admitted, minted>>

LoadTokens(c) ==
    /\ At(c, "refill")
    /\ call' = [call EXCEPT ![c] = [@ EXCEPT !.reg = PpsWrap(pps.tokens + call[c].refill), !.pc = "add"]]
    /\ UNCHANGED <<pps, arrived, admitted, minted>>

StoreRefilled(c) ==
    /\ At(c, "add")
    /\ pps' = [pps EXCEPT !.tokens = call[c].reg]
    /\ minted' = minted + call[c].refill
    /\ Step(c, IF call[c].reg > GLOBAL_PPS_LIMIT THEN "clamp" ELSE "stamp")
    /\ UNCHANGED <<arrived, admitted>>

StoreClamped(c) ==
    /\ At(c, "clamp")
    /\ pps' = [pps EXCEPT !.tokens = GLOBAL_PPS_LIMIT]
    /\ Step(c, "stamp")
    /\ UNCHANGED <<arrived, admitted, minted>>

\* mutant: the time of the refill is not stored
KeepLastTs(c) ==
    /\ At(c, "stamp")
    /\ Step(c, "copy")
    /\ UNCHANGED <<pps, arrived, admitted, minted>>

StoreLastTs(c) ==
    /\ At(c, "stamp")
    /\ pps' = [pps EXCEPT !.last = call[c].now]
    /\ Step(c, "copy")
    /\ UNCHANGED <<arrived, admitted, minted>>

\* the helper's copy of the element over itself: read, then write
CopyRead(c, from, to) ==
    /\ At(c, from)
    /\ call' = [call EXCEPT ![c] = [@ EXCEPT !.reg = pps.tokens, !.old = pps.last, !.pc = to]]
    /\ UNCHANGED <<pps, arrived, admitted, minted>>

RefillCopied(c) ==
    /\ At(c, "copied")
    /\ pps' = [tokens |-> call[c].reg, last |-> call[c].old]
    /\ Step(c, "test")
    /\ UNCHANGED <<arrived, admitted, minted>>

TestTokens(c) ==
    /\ At(c, "test")
    /\ call' = IF pps.tokens < 1 THEN [call EXCEPT ![c] = IdleCall]
               ELSE [call EXCEPT ![c] = [@ EXCEPT !.reg = pps.tokens, !.pc = "spend"]]
    /\ UNCHANGED <<pps, arrived, admitted, minted>>

\* mutant: the decrement reads the token count a second time
DecrementAnew(c) ==
    /\ At(c, "spend")
    /\ pps' = [pps EXCEPT !.tokens = PpsWrap(@ - 1)]
    /\ Step(c, "save")
    /\ UNCHANGED <<arrived, admitted, minted>>

StoreDecrement(c) ==
    /\ At(c, "spend")
    /\ pps' = [pps EXCEPT !.tokens = PpsWrap(call[c].reg - 1)]
    /\ Step(c, "save")
    /\ UNCHANGED <<arrived, admitted, minted>>

SpendCopied(c) ==
    /\ At(c, "saved")
    /\ pps' = [tokens |-> call[c].reg, last |-> call[c].old]
    /\ admitted' = admitted + 1
    /\ call' = [call EXCEPT ![c] = [IdleCall EXCEPT !.pc = "passed"]]
    /\ UNCHANGED <<arrived, minted>>

\* consume_global_pps
ConsumePps(c) ==
    \/ SampleTime(c) \/ LoadLastTs(c) \/ LoadTokens(c) \/ StoreRefilled(c) \/ StoreClamped(c)
    \/ StoreLastTs(c) \/ CopyRead(c, "copy", "copied") \/ RefillCopied(c) \/ TestTokens(c)
    \/ StoreDecrement(c) \/ CopyRead(c, "save", "saved") \/ SpendCopied(c)

\* the packet leaves the program or goes on to the later stages
Return(c) ==
    /\ At(c, "passed")
    /\ call' = [call EXCEPT ![c] = IdleCall]
    /\ UNCHANGED <<pps, arrived, admitted, minted>>

------------------------------------------------------------------------------
\* However the CPUs interleave, the token count never wraps below zero into
\* an unlimited allowance: it is at most the initial allowance plus all that
\* was ever refilled (policy.h:186-197).
PpsNoWrap == pps.tokens <= GLOBAL_PPS_LIMIT + minted

\* The packets that got past the bucket are at most the limit plus the limit
\* times the time since last_ts = 0.
PpsBounded == NS_PER_SEC * admitted <= NS_PER_SEC * GLOBAL_PPS_LIMIT + GLOBAL_PPS_LIMIT * clock
==============================================================================
