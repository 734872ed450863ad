---------------------------- MODULE SharedBuckets ----------------------------
(***************************************************************************)
(* The two token buckets the CPUs share, in the order a packet meets them: *)
(* xdp_fw charges global_pps_map (Stage 1-2) and then, unless a stage in   *)
(* between ends the packet, apply_policy charges the bucket of its flow    *)
(* (Stage 4).  The model follows the packets of one flow.  A scenario says *)
(* which CPUs serve the receive queues of the flow, and bounds the packets *)
(* and the time.                                                           *)
(***************************************************************************)
EXTENDS FlowBucket

CONSTANT Scenarios

ASSUME ScenarioAssumption ==
    Scenarios \subseteq [cpus : SUBSET Cpus, packets : 0..MaxPackets, clock : 1..MaxClock]

VARIABLES
    scenario,
    pps, call, arrived, admitted, minted  \* those of PpsBucket

Pps == INSTANCE PpsBucket

ppsVars    == <<pps, call, arrived, admitted, minted>>
sharedVars == <<vars, ppsVars, scenario>>

SharedInit == Init /\ Pps!PpsInit /\ scenario \in Scenarios

\* the CPU is not in consume_flow_tokens
Outside(c) == task[c].pc = "idle"

Charge(c) ==
    /\ Outside(c)
    /\ Pps!At(c, "idle") => arrived < scenario.packets
    /\ Pps!ConsumePps(c)
    /\ UNCHANGED <<vars, scenario>>

\* a stage between the two buckets ends the packet
Leave(c) ==
    /\ Outside(c)
    /\ Pps!Return(c)
    /\ UNCHANGED <<vars, scenario>>

Enter(c, len) ==
    /\ Pps!Return(c)
    /\ SampleClock(c, len)
    /\ UNCHANGED scenario

ConsumeFlow(c) ==
    /\ LoadRefill(c) \/ SwapLastRefill(c) \/ MintTokens(c) \/ CheckBurst(c)
       \/ ClampTokens(c) \/ TakeTokens(c) \/ GiveBack(c)
    /\ UNCHANGED <<ppsVars, scenario>>

SharedTick == clock < scenario.clock /\ Tick /\ UNCHANGED <<ppsVars, scenario>>

\* the last packet was handled and the clock is at its bound
SharedDone ==
    /\ arrived = scenario.packets /\ clock = scenario.clock
    /\ \A c \in Cpus : Outside(c) /\ Pps!At(c, "idle")
    /\ UNCHANGED sharedVars

SharedNext ==
    \/ \E c \in scenario.cpus : \/ Charge(c) \/ Leave(c) \/ ConsumeFlow(c)
                         \/ \E len \in Lens : Enter(c, len)
    \/ SharedTick
    \/ SharedDone

SharedSpec == SharedInit /\ [][SharedNext]_sharedVars

------------------------------------------------------------------------------
\* one CPU at a time handles the packets
Serial == \A c, d \in scenario.cpus : c = d

\* While one CPU serves the flow, the bytes that pass are at most the burst
\* plus the rate times the time (docs/dataplane.md:77-81).
FlowLimitSerial == Serial => FlowLimit

\* While one CPU receives packets, those that get past the packet bucket are
\* at most the limit plus the limit times the time (docs/dataplane.md:73).
PpsLimitSerial == Serial => Pps!PpsBounded

\* However the CPUs interleave, the count of the packet bucket never wraps
\* below zero into an unlimited allowance: it is at most the initial one plus
\* all that was ever refilled (policy.h:186-197).
PpsNeverWraps == Pps!PpsNoWrap

\* While one CPU serves the flow, its unlocked bucket is indistinguishable
\* from one charged in a single step (policy.h:148-175), whatever the packet
\* bucket in front of it lets through.
AtomicWhenSerial == Atomic!Init /\ [][Serial => [Atomic!Next]_(Atomic!vars)]_sharedVars
==============================================================================
