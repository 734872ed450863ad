---------------------------- MODULE PerCpuBuckets ----------------------------
(***************************************************************************)
(* The two token buckets kept in PERCPU_ARRAY maps: the global byte bucket *)
(* and the fuse.  No other CPU touches them, so each call is one step.     *)
(* The specification counts what each CPU has let through: the fuse since  *)
(* its bucket was created, the byte bucket in a stretch of time that       *)
(* begins at any moment.                                                   *)
(***************************************************************************)
EXTENDS RateLimit

CONSTANTS
    Cpus,
    Lens,      \* packet lengths
    MaxClock   \* bound of the model on the time

ASSUME LensAssumption     == Lens \subseteq Nat
ASSUME MaxClockAssumption == MaxClock \in Nat \ {0}

VARIABLES
    clock,  \* bpf_ktime_get_ns(), never 0 once the machine runs
    gb,     \* global_bucket_map
    fuse,   \* fuse_ratelimit_map
    from,   \* history: when the stretch begins
    gUse,   \* history: bytes each CPU's tokens paid for in it
    fUse    \* history: packets each CPU's fuse let through, and since when

vars == <<clock, gb, fuse, from, gUse, fUse>>

Usage == [spent : Nat, since : Nat]

Init ==
    /\ clock = 1
    /\ gb    = [c \in Cpus |-> ZeroBucket]
    /\ fuse  = [c \in Cpus |-> ZeroBucket]
    /\ from \in 1..MaxClock
    /\ gUse  = [c \in Cpus |-> 0]
    /\ fUse  = [c \in Cpus |-> [spent |-> 0, since |-> 0]]

\* bytes paid for: the first packet is free
Paid(c, ok, len) == IF ok /\ gb[c].last # 0 /\ clock >= from THEN len ELSE 0

\* what a call adds to the history: the free first packet starts the account
Charged(use, b, ok, n) ==
    IF b.last = 0 THEN [spent |-> 0, since |-> clock]
    ELSE IF ok THEN [use EXCEPT !.spent = @ + n] ELSE use

GlobalPacket(c, len) ==
    LET r == GlobalTokens(gb[c], clock, len) IN
    /\ gb'   = [gb EXCEPT ![c] = r.bucket]
    /\ gUse' = [gUse EXCEPT ![c] = @ + Paid(c, r.pass, len)]
    /\ UNCHANGED <<clock, fuse, from, fUse>>

FusePacket(c) ==
    LET r == FuseToken(fuse[c], clock) IN
    /\ fuse' = [fuse EXCEPT ![c] = r.bucket]
    /\ fUse' = [fUse EXCEPT ![c] = Charged(@, fuse[c], r.pass, 1)]
    /\ UNCHANGED <<clock, gb, from, gUse>>

Tick ==
    /\ clock < MaxClock
    /\ clock' = clock + 1
    /\ UNCHANGED <<gb, fuse, from, gUse, fUse>>

Next ==
    \/ \E c \in Cpus, len \in Lens : GlobalPacket(c, len)
    \/ \E c \in Cpus : FusePacket(c)
    \/ Tick

Spec == Init /\ [][Next]_vars

------------------------------------------------------------------------------
\* Every variable keeps its type, and no bucket is stamped in the future or
\* holds more than its burst.
TypeOK ==
    /\ clock \in 1..MaxClock
    /\ gb    \in [Cpus -> Bucket]
    /\ fuse  \in [Cpus -> Bucket]
    /\ from  \in 1..MaxClock
    /\ gUse  \in [Cpus -> Nat]
    /\ fUse  \in [Cpus -> Usage]
    /\ \A c \in Cpus : /\ gb[c].last <= clock
                       /\ fuse[c].last <= clock /\ fUse[c].since <= fuse[c].last
                       /\ gb[c].tokens <= GLOBAL_BURST
                       /\ fuse[c].tokens <= FUSE_INIT_TOKEN

\* What a CPU's global byte bucket admits in any stretch of time, apart from
\* the packet that creates the bucket, is at most its burst plus the rate
\* times that time, rounded up to a whole byte, whatever the lengths, the idle
\* times and the wrap-around of delta * rate (policy.h:112-143).
GlobalAdmission ==
    \A c \in Cpus : gUse[c] > 0 =>
        NS_PER_SEC * gUse[c]
            <= NS_PER_SEC * GLOBAL_BURST + GLOBAL_RATE * (clock - from) + (NS_PER_SEC - 1)

\* The fuse of a CPU lets through at most its initial tokens plus
\* TOKENS_TO_ADD per whole REFILL_INTERVAL since (policy.h:35-66).
FuseAdmission ==
    \A c \in Cpus :
        REFILL_INTERVAL * fUse[c].spent
            <= REFILL_INTERVAL * FUSE_INIT_TOKEN + TOKENS_TO_ADD * (clock - fUse[c].since)

\* what the time since the last refill is worth so far, in parts of a token;
\* it wraps as the product in the code does
Earned(c) == ((clock - gb[c].last) * GLOBAL_RATE) % U64

\* The inductive form of GlobalAdmission: from the first byte of the stretch
\* on, tokens in hand and what has been earned towards the next are paid for.
GlobalAccount ==
    \A c \in Cpus : gUse[c] > 0 =>
        /\ gb[c].last # 0 /\ clock >= from
        /\ NS_PER_SEC * (gUse[c] + gb[c].tokens) + Earned(c)
             <= NS_PER_SEC * GLOBAL_BURST + GLOBAL_RATE * (clock - from) + (NS_PER_SEC - 1)

\* The inductive form of FuseAdmission.
FuseAccount ==
    \A c \in Cpus :
        REFILL_INTERVAL * (fUse[c].spent + fuse[c].tokens)
            <= REFILL_INTERVAL * FUSE_INIT_TOKEN + TOKENS_TO_ADD * (fuse[c].last - fUse[c].since)
==============================================================================
