------------------------------ MODULE RateLimit ------------------------------
(***************************************************************************)
(* The token buckets of policy.h as functions of a bucket, the time and    *)
(* the demand.  Time is counted in ticks, NS_PER_SEC ticks to the second.  *)
(* Every bucket is [tokens, last]; each function gives the bucket it       *)
(* leaves behind and whether the packet may pass.                          *)
(***************************************************************************)
EXTENDS Integers

CONSTANTS
    NS_PER_SEC,          \* ticks per second (10^9 in the code)
    U64,                 \* one more than the largest __u64
    GLOBAL_RATE,         \* GLOBAL_RATE_BYTES_PER_SEC
    GLOBAL_BURST,
    FLOW_RATE,           \* FLOW_RATE_BYTES_PER_SEC
    FLOW_BURST,
    GLOBAL_PPS_LIMIT,
    FUSE_INIT_TOKEN,     \* 2500 in the code
    REFILL_INTERVAL,     \* REFILL_INTERVAL_NS, one millisecond in the code
    TOKENS_TO_ADD        \* 5 in the code

ASSUME TimeAssumption == NS_PER_SEC \in Nat \ {0} /\ REFILL_INTERVAL \in Nat \ {0}

ASSUME RatesAssumption ==
    /\ U64 \in Nat \ {0}
    /\ GLOBAL_RATE \in Nat
    /\ GLOBAL_BURST \in Nat
    /\ FLOW_RATE \in Nat
    /\ FLOW_BURST \in Nat
    /\ GLOBAL_PPS_LIMIT \in Nat
    /\ FUSE_INIT_TOKEN \in Nat
    /\ TOKENS_TO_ADD \in Nat

Bucket == [tokens : Nat, last : Nat]

\* a PERCPU_ARRAY element before its first packet
ZeroBucket == [tokens |-> 0, last |-> 0]

\* mutant: the refill is not clamped to the burst
AtMostUncapped(n, cap) == n

AtMost(n, cap) == IF n > cap THEN cap ELSE n

\* tokens earned in delta ticks; the product is a __u64 and wraps
Refill(delta, rate) == ((delta * rate) % U64) \div NS_PER_SEC

\* nothing is stored, the time included, until a whole token was earned
Refilled(b, now, rate, cap) ==
    IF Refill(now - b.last, rate) > 0
    THEN [tokens |-> AtMost(b.tokens + Refill(now - b.last, rate), cap), last |-> now]
    ELSE b

Spend(b, n) ==
    [pass   |-> b.tokens >= n,
     bucket |-> IF b.tokens >= n THEN [b EXCEPT !.tokens = @ - n] ELSE b]

\* consume_global_tokens: the packet that creates the bucket passes for free
GlobalTokens(b, now, len) ==
    IF b.last = 0
    THEN [pass |-> TRUE, bucket |-> [tokens |-> GLOBAL_BURST, last |-> now]]
    ELSE Spend(Refilled(b, now, GLOBAL_RATE, GLOBAL_BURST), len)

\* consume_flow_tokens when no other CPU touches the flow
FlowTokens(b, now, len) == Spend(Refilled(b, now, FLOW_RATE, FLOW_BURST), len)

\* consume_global_pps
PpsToken(b, now) == Spend(Refilled(b, now, GLOBAL_PPS_LIMIT, GLOBAL_PPS_LIMIT), 1)

\* mutant: the time of the refill is not stored
FuseRefilledForever(b, now) ==
    [b EXCEPT !.tokens = AtMost(@ + ((now - b.last) \div REFILL_INTERVAL) * TOKENS_TO_ADD,
                                FUSE_INIT_TOKEN)]

\* whole intervals only; the remainder stays on the clock
FuseRefilled(b, now) ==
    LET delta == now - b.last IN
    IF delta >= REFILL_INTERVAL
    THEN [tokens |-> AtMost(b.tokens + (delta \div REFILL_INTERVAL) * TOKENS_TO_ADD,
                            FUSE_INIT_TOKEN),
          last   |-> now - (delta % REFILL_INTERVAL)]
    ELSE b

\* trigger_fuse_ratelimit: it returns true (blown) when the packet may not pass
FuseToken(b, now) ==
    IF b.last = 0
    THEN [pass |-> TRUE, bucket |-> [tokens |-> FUSE_INIT_TOKEN, last |-> now]]
    ELSE Spend(FuseRefilled(b, now), 1)
==============================================================================
