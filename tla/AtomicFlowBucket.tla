-------------------------- MODULE AtomicFlowBucket --------------------------
(***************************************************************************)
(* What the bucket of a flow promises: each packet is charged in one step, *)
(* at some time during its handling.  XdpFirewall treats the bucket this   *)
(* way.                                                                    *)
(***************************************************************************)
EXTENDS RateLimit

CONSTANTS Lens, MaxClock

VARIABLES clock, bucket, passed

vars == <<clock, bucket, passed>>

Init ==
    /\ clock  = 1
    /\ bucket = [tokens |-> FLOW_BURST, last |-> 1]
    /\ passed = 0

Consume(len) ==
    \E now \in bucket.last..clock :
        LET r == FlowTokens(bucket, now, len) IN
        /\ bucket' = r.bucket
        /\ passed' = IF r.pass THEN passed + len ELSE passed
        /\ UNCHANGED clock

Tick ==
    /\ clock < MaxClock
    /\ clock' = clock + 1
    /\ UNCHANGED <<bucket, passed>>

Next == (\E len \in Lens : Consume(len)) \/ Tick

Spec == Init /\ [][Next]_vars
=============================================================================
