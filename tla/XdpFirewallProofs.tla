-------------------------- MODULE XdpFirewallProofs --------------------------
(***************************************************************************)
(* The admission rules of the XDP program and the types of its maps, for   *)
(* every set of hosts, flows, CPUs and packet lengths and every rate,      *)
(* burst and word size.                                                    *)
(***************************************************************************)
EXTENDS XdpFirewall, TLAPS

\* The types the argument needs.
AdmissionTypes ==
    /\ clock \in Nat \ {0}
    /\ temp \in [Hosts -> Nat \cup {NoEntry}]
    /\ limitedAt \in [Hosts -> Nat]
    /\ conn \in [Flows -> Nat \cup {NoEntry}]

\* Every entry of the connection tracker was put there by the TC program.
ConnLearned == \A f \in Flows : conn[f] # NoEntry => f \in learned

\* The temporary block of a limited host runs from its last offence.
LimitedBlocked ==
    \A h \in Hosts : limitedAt[h] # 0 => temp[h] = limitedAt[h] + TEMP_BLOCK

Inv == AdmissionTypes /\ ConnLearned /\ LimitedBlocked
         /\ InboundNeedsOutbound /\ EscalationHolds

\* A packet that is neither TCP nor UDP, and a step that handles no packet,
\* says nothing about admission.
LEMMA OtherPackets ==
    ASSUME last'.kind \notin TrackedProtos
    PROVE  InboundNeedsOutbound' /\ EscalationHolds'
  BY DEF InboundNeedsOutbound, EscalationHolds

\* The kinds Handled records.
LEMMA KindsApart ==
    /\ TrackedProtos \cap UntrackedKinds = {}
    /\ TrackedProtos \cap ParserKinds = {}
    /\ \A k \in {"none", "bad_l2", "icmp"} : k \notin TrackedProtos
  BY DEF TrackedProtos, UntrackedKinds, Fragments, ParserKinds

\* EgressByte stores a byte, whatever it finds.
LEMMA EgressByteTyped ==
    ASSUME NEW f \in Flows, NEW b \in Nat \cup {NoEntry}, NEW payload
    PROVE  EgressByte(f, b, payload) \in Nat
  <1>1. \A st \in {0, 1, 2, 3, 4}, n \in Nat : DPI_MAKE(st, n) \in Nat
    BY DEF DPI_MAKE
  <1>2. Classify(f.service, payload, f.host \in TcBlocklist) \in Nat
    BY <1>1 DEF Classify, DPI_BLOCKLIST, DPI_IGNORE, DPI_TLS_PENDING, DPI_UNKNOWN
  <1>3. CASE b = NoEntry
    BY <1>2, <1>3 DEF EgressByte
  <1>4. CASE b \in Nat
    <2>1. DPI_ATTEMPTS(b) \in Nat /\ DPI_ATTEMPTS(b) + 1 \in Nat
      BY <1>4 DEF DPI_ATTEMPTS
    <2>2. /\ DPI_MAKE(DPI_TLS_DONE, DPI_ATTEMPTS(b)) \in Nat
          /\ DPI_MAKE(DPI_TLS_PENDING, DPI_ATTEMPTS(b) + 1) \in Nat
      BY <1>1, <2>1 DEF DPI_TLS_DONE, DPI_TLS_PENDING
    <2> QED
      BY <1>2, <1>4, <2>2 DEF EgressByte
  <1> QED
    BY <1>3, <1>4

\* TCP and UDP: the blocklists come first, then the connection tracker.
LEMMA TrackedStep ==
    ASSUME Inv, NEW f \in Flows, TrackedPacket(f)
    PROVE  Inv'
  <1>1. f.host \in Hosts /\ f.proto \in TrackedProtos
    BY FlowsAssumption
  <1>2. /\ last'.kind = f.proto /\ last'.host = f.host /\ last'.flow = f
        /\ last'.action = resolve_action(ConntrackStatus(f))
        /\ UNCHANGED <<clock, perm, temp, conn, learned, limitedAt>>
    BY DEF TrackedPacket, Handled
  <1>3. ASSUME last'.action = "XDP_PASS"
        PROVE  f.host \notin perm /\ ~TempBlocked(f.host) /\ conn[f] # NoEntry
    BY <1>2, <1>3 DEF ConntrackStatus, MAKE_STATUS, resolve_action
  <1>4. InboundNeedsOutbound'
    BY <1>2, <1>3 DEF Inv, ConnLearned, InboundNeedsOutbound
  <1>5. EscalationHolds'
    <2> SUFFICES ASSUME last'.action = "XDP_PASS", limitedAt[f.host] # 0
                 PROVE  clock >= limitedAt[f.host] + TEMP_BLOCK
      BY <1>2 DEF EscalationHolds
    <2>1. temp[f.host] = limitedAt[f.host] + TEMP_BLOCK
      BY <1>1 DEF Inv, LimitedBlocked
    <2>2. limitedAt[f.host] + TEMP_BLOCK \in Nat /\ clock \in Nat
      BY <1>1, BlockAssumption DEF Inv, AdmissionTypes
    <2>3. ~(clock < temp[f.host])
      BY <1>3, <2>1, <2>2, NoEntryAssumption DEF TempBlocked
    <2> QED
      BY <2>1, <2>2, <2>3
  <1> QED
    BY <1>2, <1>4, <1>5 DEF Inv, AdmissionTypes, ConnLearned, LimitedBlocked

\* Fragments and other protocols: only FlowLimited touches the blocklist.
LEMMA UntrackedStep ==
    ASSUME Inv, NEW c \in Cpus, NEW h \in Hosts, NEW kind \in UntrackedKinds, NEW len \in Lens,
           UntrackedPacket(c, h, kind, len)
    PROVE  Inv'
  <1>1. last'.kind = kind
    BY DEF UntrackedPacket, PpsDrop, GroupDrop, FlowLost, PortMissDrop, GlobalLimited,
           FlowLimited, WithinLimits, Concluded, Handled
  <1>2. InboundNeedsOutbound' /\ EscalationHolds'
    BY <1>1, OtherPackets, KindsApart
  <1>3. UNCHANGED <<clock, conn, learned>>
    BY DEF UntrackedPacket, PpsDrop, GroupDrop, FlowLost, PortMissDrop, GlobalLimited,
           FlowLimited, WithinLimits, Queued
  <1>4. CASE UNCHANGED <<temp, limitedAt>>
    BY <1>2, <1>3, <1>4 DEF Inv, AdmissionTypes, ConnLearned, LimitedBlocked
  <1>5. CASE TempInsert(h)
    <2>1. /\ temp' = [temp EXCEPT ![h] = clock + TEMP_BLOCK]
          /\ limitedAt' = [limitedAt EXCEPT ![h] = clock]
      BY <1>5 DEF TempInsert
    <2>2. clock \in Nat /\ clock + TEMP_BLOCK \in Nat
      BY BlockAssumption DEF Inv, AdmissionTypes
    <2>3. AdmissionTypes'
      BY <1>3, <2>1, <2>2 DEF Inv, AdmissionTypes
    <2>4. LimitedBlocked'
      BY <2>1, <1>3 DEF Inv, AdmissionTypes, LimitedBlocked
    <2> QED
      BY <1>2, <1>3, <2>3, <2>4 DEF Inv, ConnLearned
  <1> QED
    BY <1>4, <1>5 DEF UntrackedPacket, PpsDrop, GroupDrop, FlowLost, PortMissDrop,
                      GlobalLimited, FlowLimited, WithinLimits

\* The TC program records the flow it stores an entry for.
LEMMA EgressStep ==
    ASSUME Inv, NEW f \in Flows, NEW payload \in Payloads, EgressPacket(f, payload)
    PROVE  Inv'
  <1>1. last'.kind \notin TrackedProtos
    BY KindsApart DEF EgressPacket, NoPacket
  <1>2. conn[f] \in Nat \cup {NoEntry}
    BY DEF Inv, AdmissionTypes
  <1>3. EgressByte(f, conn[f], payload) \in Nat
    BY <1>2, EgressByteTyped
  <1>4. /\ conn' = [conn EXCEPT ![f] = EgressByte(f, conn[f], payload)]
        /\ learned' = learned \cup {f}
        /\ UNCHANGED <<clock, temp, limitedAt>>
    BY DEF EgressPacket
  <1>5. AdmissionTypes' /\ ConnLearned' /\ LimitedBlocked'
    BY <1>3, <1>4 DEF Inv, AdmissionTypes, ConnLearned, LimitedBlocked
  <1> QED
    BY <1>1, <1>5, OtherPackets DEF Inv

\* Initially nothing is tracked, blocked or handled.
LEMMA InvInit == Init => Inv
  BY KindsApart, MaxClockAssumption
     DEF Init, Inv, AdmissionTypes, ConnLearned, LimitedBlocked, InboundNeedsOutbound,
         EscalationHolds, NoPacket

\* Every step preserves the invariant.
LEMMA InvNext == Inv /\ [Next]_vars => Inv'
  <1> SUFFICES ASSUME Inv, [Next]_vars PROVE Inv'
    OBVIOUS
  <1>1. ASSUME last'.kind \notin TrackedProtos,
               UNCHANGED <<clock, temp, conn, learned, limitedAt>>
        PROVE  Inv'
    BY <1>1, OtherPackets DEF Inv, AdmissionTypes, ConnLearned, LimitedBlocked
  <1>2. CASE BadFrame
    BY <1>1, <1>2, KindsApart DEF BadFrame, Handled, maps
  <1>3. ASSUME NEW kind \in ParserKinds, ParserVerdict(kind) PROVE Inv'
    BY <1>1, <1>3, KindsApart DEF ParserVerdict, Handled
  <1>4. ASSUME NEW f \in Flows, TrackedPacket(f) PROVE Inv'
    BY <1>4, TrackedStep
  <1>5. ASSUME NEW c \in Cpus, NEW h \in Hosts, IcmpPacket(c, h) PROVE Inv'
    BY <1>1, <1>5, KindsApart DEF IcmpPacket, Handled
  <1>6. ASSUME NEW c \in Cpus, NEW h \in Hosts, NEW kind \in UntrackedKinds, NEW len \in Lens,
               UntrackedPacket(c, h, kind, len)
        PROVE  Inv'
    BY <1>6, UntrackedStep
  <1>7. ASSUME NEW f \in Flows, NEW payload \in Payloads, EgressPacket(f, payload) PROVE Inv'
    BY <1>7, EgressStep
  <1>8. ASSUME NEW f \in Flows, ConnEvicted(f) PROVE Inv'
    <2>1. last'.kind \notin TrackedProtos
      BY <1>8, KindsApart DEF ConnEvicted, NoPacket
    <2> QED
      BY <1>8, <2>1, OtherPackets
         DEF ConnEvicted, Inv, AdmissionTypes, ConnLearned, LimitedBlocked
  <1>9. ASSUME NEW k \in FlowKeys, FlowEvicted(k) PROVE Inv'
    BY <1>1, <1>9, KindsApart DEF FlowEvicted, NoPacket
  <1>10. ASSUME NEW h \in Hosts, BlockHost(h) PROVE Inv'
    BY <1>1, <1>10, KindsApart DEF BlockHost, NoPacket
  <1>11. CASE Tick
    <2>1. last'.kind \notin TrackedProtos
      BY <1>11, KindsApart DEF Tick, NoPacket
    <2> QED
      BY <1>11, <2>1, OtherPackets
         DEF Tick, maps, Inv, AdmissionTypes, ConnLearned, LimitedBlocked
  <1>12. ASSUME NEW h \in Hosts, TempEvicted(h) PROVE Inv'
    <2>1. last'.kind \notin TrackedProtos
      BY <1>12, KindsApart DEF TempEvicted, NoPacket
    <2> QED
      BY <1>12, <2>1, OtherPackets
         DEF TempEvicted, Inv, AdmissionTypes, ConnLearned, LimitedBlocked
  <1>13. CASE UNCHANGED vars
    BY <1>13 DEF vars, maps, Inv, AdmissionTypes, ConnLearned, LimitedBlocked,
                 InboundNeedsOutbound, EscalationHolds
  <1> QED
    BY <1>2, <1>3, <1>4, <1>5, <1>6, <1>7, <1>8, <1>9, <1>10, <1>11, <1>12,
       <1>13
       DEF Next

------------------------------------------------------------------------------
(***************************************************************************)
(* Types.  A bucket is never stamped in the future, so the unsigned        *)
(* difference of two times never wraps, and never holds more than its      *)
(* burst, whatever the refill computes.                                    *)
(***************************************************************************)
Stamped(cap, from, now) == [tokens : 0..cap, last : from..now]

LEMMA RefillNat ==
    ASSUME NEW delta \in Nat, NEW rate \in Nat
    PROVE  Refill(delta, rate) \in Nat
  <1> DEFINE x == delta * rate
  <1>1. x \in Nat
    OBVIOUS
  <1> HIDE DEF x
  <1>2. x % U64 \in Nat
    BY <1>1, RatesAssumption
  <1>3. (x % U64) \div NS_PER_SEC \in Nat
    BY <1>2, TimeAssumption
  <1> QED
    BY <1>3 DEF Refill, x

LEMMA RefilledTyped ==
    ASSUME NEW cap \in Nat, NEW from \in Nat, NEW now \in Nat, NEW rate \in Nat,
           NEW b \in Stamped(cap, from, now)
    PROVE  Refilled(b, now, rate, cap) \in Stamped(cap, from, now)
  <1>1. b.tokens \in 0..cap /\ b.last \in from..now /\ now - b.last \in Nat
    BY DEF Stamped
  <1> DEFINE r == Refill(now - b.last, rate)
  <1>2. r \in Nat
    BY <1>1, RefillNat
  <1> HIDE DEF r
  <1>3. AtMost(b.tokens + r, cap) \in 0..cap
    BY <1>1, <1>2 DEF AtMost
  <1>4. now \in from..now
    BY <1>1
  <1> QED
    BY <1>3, <1>4 DEF Refilled, Stamped, r

LEMMA FuseRefilledTyped ==
    ASSUME NEW from \in Nat, NEW now \in Nat, NEW b \in Stamped(FUSE_INIT_TOKEN, from, now)
    PROVE  FuseRefilled(b, now) \in Stamped(FUSE_INIT_TOKEN, from, now)
  <1> DEFINE delta == now - b.last
             q     == (delta \div REFILL_INTERVAL) * TOKENS_TO_ADD
             m     == delta % REFILL_INTERVAL
  <1>1. b.tokens \in 0..FUSE_INIT_TOKEN /\ b.last \in from..now /\ delta \in Nat
    BY DEF Stamped
  <1>2. m \in 0..delta
    <2> HIDE DEF delta
    <2> QED
      BY <1>1, TimeAssumption
  <1>3. q \in Nat
    <2> HIDE DEF delta
    <2>1. delta \div REFILL_INTERVAL \in Nat
      BY <1>1, TimeAssumption
    <2> QED
      BY <2>1, RatesAssumption
  <1> HIDE DEF q, m
  <1>4. AtMost(b.tokens + q, FUSE_INIT_TOKEN) \in 0..FUSE_INIT_TOKEN
    BY <1>1, <1>3, RatesAssumption DEF AtMost
  <1>5. now - m \in from..now
    BY <1>1, <1>2
  <1> QED
    BY <1>4, <1>5 DEF FuseRefilled, Stamped, q, m

LEMMA SpendTyped ==
    ASSUME NEW cap \in Nat, NEW from \in Nat, NEW now \in Nat, NEW b \in Stamped(cap, from, now),
           NEW n \in Nat
    PROVE  Spend(b, n).bucket \in Stamped(cap, from, now)
  BY DEF Spend, Stamped

LEMMA GlobalTyped ==
    ASSUME NEW now \in Nat, NEW b \in Stamped(GLOBAL_BURST, 0, now), NEW len \in Nat
    PROVE  GlobalTokens(b, now, len).bucket \in Stamped(GLOBAL_BURST, 0, now)
  <1>1. Refilled(b, now, GLOBAL_RATE, GLOBAL_BURST) \in Stamped(GLOBAL_BURST, 0, now)
    BY RefilledTyped, RatesAssumption
  <1>2. [tokens |-> GLOBAL_BURST, last |-> now] \in Stamped(GLOBAL_BURST, 0, now)
    BY RatesAssumption DEF Stamped
  <1> QED
    BY <1>1, <1>2, SpendTyped, RatesAssumption DEF GlobalTokens

LEMMA FuseTyped ==
    ASSUME NEW now \in Nat, NEW b \in Stamped(FUSE_INIT_TOKEN, 0, now)
    PROVE  FuseToken(b, now).bucket \in Stamped(FUSE_INIT_TOKEN, 0, now)
  <1>1. FuseRefilled(b, now) \in Stamped(FUSE_INIT_TOKEN, 0, now)
    BY FuseRefilledTyped
  <1>2. [tokens |-> FUSE_INIT_TOKEN, last |-> now] \in Stamped(FUSE_INIT_TOKEN, 0, now)
    BY RatesAssumption DEF Stamped
  <1> QED
    BY <1>1, <1>2, SpendTyped, RatesAssumption DEF FuseToken

LEMMA PpsTyped ==
    ASSUME NEW now \in Nat, NEW b \in Stamped(GLOBAL_PPS_LIMIT, 0, now)
    PROVE  PpsToken(b, now).bucket \in Stamped(GLOBAL_PPS_LIMIT, 0, now)
  <1>1. Refilled(b, now, GLOBAL_PPS_LIMIT, GLOBAL_PPS_LIMIT) \in Stamped(GLOBAL_PPS_LIMIT, 0, now)
    BY RefilledTyped, RatesAssumption
  <1> QED
    BY <1>1, SpendTyped, RatesAssumption DEF PpsToken

LEMMA FlowTyped ==
    ASSUME NEW now \in Nat, NEW b \in Stamped(FLOW_BURST, 1, now), NEW len \in Nat
    PROVE  FlowTokens(b, now, len).bucket \in Stamped(FLOW_BURST, 1, now)
  <1>1. Refilled(b, now, FLOW_RATE, FLOW_BURST) \in Stamped(FLOW_BURST, 1, now)
    BY RefilledTyped, RatesAssumption
  <1> QED
    BY <1>1, SpendTyped, RatesAssumption DEF FlowTokens

\* TypeOK in two halves: what time moves, and what the handler leaves behind.
Dated(t) ==
    /\ temp \in [Hosts -> 1..(t + TEMP_BLOCK) \cup {NoEntry}]
    /\ attack \in [last : 0..t, score : 0..ScoreCap]
    /\ fuse \in [Cpus -> Stamped(FUSE_INIT_TOKEN, 0, t)]
    /\ gb \in [Cpus -> Stamped(GLOBAL_BURST, 0, t)]
    /\ pps \in Stamped(GLOBAL_PPS_LIMIT, 0, t)
    /\ flow \in [FlowKeys -> Stamped(FLOW_BURST, 1, t) \cup {NoEntry}]
    /\ limitedAt \in [Hosts -> 0..t]

Verdicts ==
    [kind : Kinds, host : Hosts \cup {NoEntry}, flow : Flows \cup {NoEntry},
     status : [act : Acts, stg : Stages],
     action : {"XDP_PASS", "XDP_DROP", "XDP_TX"}, event : {"none", "l7", "basic"}]

Undated ==
    /\ perm \subseteq Hosts /\ learned \subseteq Flows
    /\ conn \in [Flows -> Byte \cup {NoEntry}]

LEMMA TypeParts == TypeOK <=> clock \in 1..MaxClock /\ Dated(clock) /\ Undated /\ last \in Verdicts
  BY DEF TypeOK, Dated, Undated, Verdicts, Stamped, FlowBucket

LEMMA TypePartsNext ==
    ASSUME (clock \in 1..MaxClock /\ Dated(clock) /\ Undated /\ last \in Verdicts)'
    PROVE  TypeOK'
  BY DEF TypeOK, Dated, Undated, Verdicts, Stamped, FlowBucket

LEMMA ScoreNat == ScoreCap \in Nat
  <1>1. COOLDOWN_CAP - COOLDOWN_BASE \in Nat
    BY AttackAssumption
  <1> QED
    BY <1>1, AttackAssumption DEF ScoreCap

LEMMA CalmedTyped ==
    ASSUME NEW t \in Nat, attack \in [last : 0..t, score : 0..ScoreCap]
    PROVE  Calmed \in [last : 0..t, score : 0..ScoreCap]
  BY ScoreNat DEF Calmed

LEMMA HandledTyped ==
    ASSUME NEW kind \in Kinds, NEW h \in Hosts \cup {NoEntry}, NEW f \in Flows \cup {NoEntry},
           NEW s \in [act : Acts, stg : Stages], NEW action \in {"XDP_PASS", "XDP_DROP", "XDP_TX"},
           NEW event \in {"none", "l7", "basic"}, Handled(kind, h, f, s, action, event)
    PROVE  last' \in Verdicts
  BY DEF Handled, Verdicts

LEMMA ResolveTyped == \A s : resolve_action(s) \in {"XDP_PASS", "XDP_DROP", "XDP_TX"}
  BY DEF resolve_action

LEMMA StatusTyped ==
    /\ \A act \in Acts, stg \in Stages : MAKE_STATUS(act, stg) \in [act : Acts, stg : Stages]
    /\ NoStatus \in [act : Acts, stg : Stages]
    /\ \A kind : ParsedStatus(kind) \in [act : Acts, stg : Stages]
    /\ \A kind : ParserStatus(kind) \in [act : Acts, stg : Stages]
    /\ \A f : ConntrackStatus(f) \in [act : Acts, stg : Stages]
  BY DEF MAKE_STATUS, NoStatus, ParsedStatus, ParserStatus, ConntrackStatus, Acts, Stages

LEMMA NoPacketTyped == NoPacket \in Verdicts
  BY StatusTyped DEF NoPacket, Verdicts, Kinds

LEMMA EgressByteIsByte ==
    ASSUME NEW f \in Flows, NEW b \in Byte \cup {NoEntry}, NEW payload
    PROVE  EgressByte(f, b, payload) \in Byte
  <1>1. \A st \in {0, 1, 2, 3, 4}, n \in Nat : DPI_MAKE(st, n) \in Byte
    BY DEF DPI_MAKE, Byte
  <1>2. Classify(f.service, payload, f.host \in TcBlocklist) \in Byte
    BY <1>1 DEF Classify, DPI_BLOCKLIST, DPI_IGNORE, DPI_TLS_PENDING, DPI_UNKNOWN
  <1>3. CASE b = NoEntry
    BY <1>2, <1>3 DEF EgressByte
  <1>4. CASE b \in Byte
    <2>1. DPI_ATTEMPTS(b) \in Nat /\ DPI_ATTEMPTS(b) + 1 \in Nat
      BY <1>4 DEF DPI_ATTEMPTS, Byte
    <2>2. /\ DPI_MAKE(DPI_TLS_DONE, DPI_ATTEMPTS(b)) \in Byte
          /\ DPI_MAKE(DPI_TLS_PENDING, DPI_ATTEMPTS(b) + 1) \in Byte
      BY <1>1, <2>1 DEF DPI_TLS_DONE, DPI_TLS_PENDING
    <2> QED
      BY <1>2, <1>4, <2>2 DEF EgressByte
  <1> QED
    BY <1>3, <1>4

\* Nothing is stamped after the first instant.
LEMMA TypeInit == Init => TypeOK
  <1> SUFFICES ASSUME Init PROVE TypeOK
    OBVIOUS
  <1>1. clock = 1 /\ clock \in 1..MaxClock
    BY MaxClockAssumption DEF Init
  <1>2. Dated(clock)
    BY <1>1, ScoreNat, RatesAssumption, BlockAssumption DEF Init, Dated, Stamped, ZeroBucket
  <1>3. Undated /\ last \in Verdicts
    BY NoPacketTyped DEF Init, Undated
  <1> QED
    BY <1>1, <1>2, <1>3, TypeParts

\* A flow is created with its burst and the time of the packet.
LEMMA FlowEntryTyped ==
    ASSUME clock \in 1..MaxClock, Dated(clock), NEW h \in Hosts, NEW kind
    PROVE  /\ FlowKey(h, kind) \in FlowKeys
           /\ FlowEntry(h, kind) \in Stamped(FLOW_BURST, 1, clock)
  <1>1. FlowKey(h, kind) \in FlowKeys
    BY DEF FlowKey, FlowKeys, TrackedProtos
  <1>2. [tokens |-> FLOW_BURST, last |-> clock] \in Stamped(FLOW_BURST, 1, clock)
    BY RatesAssumption, MaxClockAssumption DEF Stamped
  <1>3. flow[FlowKey(h, kind)] \in Stamped(FLOW_BURST, 1, clock) \cup {NoEntry}
    BY <1>1 DEF Dated
  <1> QED
    BY <1>1, <1>2, <1>3 DEF FlowEntry

\* Fragments and other protocols, outcome by outcome.
LEMMA UntrackedTypes ==
    ASSUME TypeOK, NEW c \in Cpus, NEW h \in Hosts, NEW kind \in UntrackedKinds, NEW len \in Lens,
           UntrackedPacket(c, h, kind, len)
    PROVE  TypeOK'
  <1>1. clock \in 1..MaxClock /\ Dated(clock) /\ Undated /\ clock \in Nat
    BY TypeParts, MaxClockAssumption
  <1>2. len \in Nat
    BY LensAssumption
  <1>3. kind \in Kinds
    BY DEF Kinds
  <1>4. /\ UNCHANGED <<clock, perm, conn, fuse, learned>>
        /\ pps' = PpsToken(pps, clock).bucket
        /\ attack' = Calmed
    BY DEF UntrackedPacket, PpsDrop, GroupDrop, FlowLost, PortMissDrop, GlobalLimited,
           FlowLimited, WithinLimits, Queued
  <1>5. /\ pps' \in Stamped(GLOBAL_PPS_LIMIT, 0, clock)
        /\ attack' \in [last : 0..clock, score : 0..ScoreCap]
    BY <1>1, <1>4, PpsTyped, CalmedTyped DEF Dated
  <1>6. ASSUME NEW s \in [act : Acts, stg : Stages], Concluded(h, kind, s)
        PROVE  last' \in Verdicts
    <2>1. PICK n \in ShouldEmit(resolve_action(ParsedStatus(kind))) :
            Handled(kind, h, NoEntry, s, resolve_action(ParsedStatus(kind)),
                    IF n = 1 THEN "basic" ELSE "none")
      BY <1>6 DEF Concluded
    <2> QED
      BY <1>3, <2>1, HandledTyped, ResolveTyped
  <1>7. last' \in Verdicts
    <2>1. CASE PpsDrop(h, kind) \/ GroupDrop(h, kind) \/ FlowLost(h, kind)
      <3>1. PICK action \in {"XDP_PASS", "XDP_DROP"} :
              Handled(kind, h, NoEntry, ParsedStatus(kind), action, "none")
        BY <2>1 DEF PpsDrop, GroupDrop, FlowLost
      <3> QED
        BY <1>3, <3>1, HandledTyped, StatusTyped
    <2>2. CASE PortMissDrop(h, kind)
      <3> DEFINE s == MAKE_STATUS("DROP", "PORT_WHT")
      <3>1. PICK n \in ShouldEmit(resolve_action(s)) :
              Handled(kind, h, NoEntry, s, resolve_action(s), IF n = 2 THEN "basic" ELSE "none")
        BY <2>2 DEF PortMissDrop
      <3>2. s \in [act : Acts, stg : Stages]
        BY StatusTyped DEF Acts, Stages
      <3> QED
        BY <1>3, <3>1, <3>2, HandledTyped, ResolveTyped
    <2>3. /\ MAKE_STATUS("DROP", "GLOBAL_LMT") \in [act : Acts, stg : Stages]
          /\ MAKE_STATUS("DROP", "FLOW_LMT") \in [act : Acts, stg : Stages]
          /\ MAKE_STATUS("PASS", "FLOW_LMT") \in [act : Acts, stg : Stages]
      BY StatusTyped DEF Acts, Stages
    <2>4. CASE GlobalLimited(c, h, kind, len)
      BY <1>6, <2>3, <2>4 DEF GlobalLimited
    <2>5. CASE FlowLimited(c, h, kind, len)
      BY <1>6, <2>3, <2>5 DEF FlowLimited
    <2>6. CASE WithinLimits(c, h, kind, len)
      BY <1>6, <2>3, <2>6 DEF WithinLimits
    <2> QED
      BY <2>1, <2>2, <2>4, <2>5, <2>6 DEF UntrackedPacket
  <1>8. /\ GlobalTokens(gb[c], clock, len).bucket \in Stamped(GLOBAL_BURST, 0, clock)
        /\ FlowKey(h, kind) \in FlowKeys
        /\ FlowEntry(h, kind) \in Stamped(FLOW_BURST, 1, clock)
        /\ FlowTokens(FlowEntry(h, kind), clock, len).bucket \in Stamped(FLOW_BURST, 1, clock)
    BY <1>1, <1>2, GlobalTyped, FlowTyped, FlowEntryTyped DEF Dated
  <1>9. gb' = gb \/ gb' = [gb EXCEPT ![c] = GlobalTokens(gb[c], clock, len).bucket]
    BY DEF UntrackedPacket, PpsDrop, GroupDrop, FlowLost, PortMissDrop, GlobalLimited,
           FlowLimited, WithinLimits
  <1>10. \/ flow' = flow
         \/ flow' = [flow EXCEPT ![FlowKey(h, kind)] = FlowEntry(h, kind)]
         \/ flow' = [flow EXCEPT ![FlowKey(h, kind)] =
                        FlowTokens(FlowEntry(h, kind), clock, len).bucket]
    BY DEF UntrackedPacket, PpsDrop, GroupDrop, FlowLost, PortMissDrop, GlobalLimited,
           FlowLimited, WithinLimits
  <1>11. UNCHANGED <<temp, limitedAt>> \/ TempInsert(h)
    BY DEF UntrackedPacket, PpsDrop, GroupDrop, FlowLost, PortMissDrop, GlobalLimited,
           FlowLimited, WithinLimits
  <1>12. gb' \in [Cpus -> Stamped(GLOBAL_BURST, 0, clock)]
    BY <1>1, <1>8, <1>9 DEF Dated
  <1>13. flow' \in [FlowKeys -> Stamped(FLOW_BURST, 1, clock) \cup {NoEntry}]
    BY <1>1, <1>8, <1>10 DEF Dated
  <1>14. /\ temp' \in [Hosts -> 1..(clock + TEMP_BLOCK) \cup {NoEntry}]
         /\ limitedAt' \in [Hosts -> 0..clock]
    BY <1>1, <1>11, BlockAssumption DEF Dated, TempInsert
  <1>15. Dated(clock)' /\ clock' = clock /\ Undated'
    BY <1>1, <1>4, <1>5, <1>12, <1>13, <1>14 DEF Dated, Undated
  <1> QED
    BY <1>1, <1>7, <1>15, TypePartsNext

\* Every step keeps the types.
LEMMA TypeNext == TypeOK /\ [Next]_vars => TypeOK'
  <1> SUFFICES ASSUME TypeOK, [Next]_vars PROVE TypeOK'
    OBVIOUS
  <1>1. /\ clock \in 1..MaxClock /\ clock \in Nat
        /\ Dated(clock) /\ Undated /\ last \in Verdicts
    BY TypeParts, MaxClockAssumption
  <1>2. Calmed \in [last : 0..clock, score : 0..ScoreCap]
    BY <1>1, CalmedTyped DEF Dated
  <1>3. ASSUME last' \in Verdicts, attack' \in [last : 0..clock, score : 0..ScoreCap],
               UNCHANGED <<clock, perm, temp, conn, fuse, gb, pps, flow, learned, limitedAt>>
        PROVE  TypeOK'
    <2>1. Dated(clock)' /\ Undated'
      BY <1>1, <1>3 DEF Dated, Undated
    <2> QED
      BY <1>1, <1>3, <2>1, TypePartsNext
  <1>4. CASE BadFrame
    <2> DEFINE s == MAKE_STATUS("DROP", "PARSE")
    <2>1. Handled("bad_l2", NoEntry, NoEntry, s, resolve_action(s), "none")
      BY <1>4 DEF BadFrame
    <2>2. s \in [act : Acts, stg : Stages] /\ "bad_l2" \in Kinds
      BY StatusTyped DEF Acts, Stages, Kinds
    <2>3. last' \in Verdicts
      BY <2>1, <2>2, HandledTyped, ResolveTyped
    <2>4. attack' = attack /\ attack \in [last : 0..clock, score : 0..ScoreCap]
      BY <1>1, <1>4 DEF BadFrame, maps, Dated
    <2> QED
      BY <1>3, <1>4, <2>3, <2>4 DEF BadFrame, maps
  <1>5. ASSUME NEW kind \in ParserKinds, ParserVerdict(kind) PROVE TypeOK'
    <2>1. kind \in Kinds
      BY DEF Kinds
    <2>2. last' \in Verdicts
      BY <1>5, <2>1, HandledTyped, ResolveTyped, StatusTyped DEF ParserVerdict
    <2> QED
      BY <1>2, <1>3, <1>5, <2>2 DEF ParserVerdict
  <1>6. ASSUME NEW f \in Flows, TrackedPacket(f) PROVE TypeOK'
    <2>1. f.host \in Hosts /\ f.proto \in Kinds
      BY FlowsAssumption DEF Kinds
    <2>2. PICK event \in {"none", "l7"} :
            Handled(f.proto, f.host, f, ConntrackStatus(f),
                    resolve_action(ConntrackStatus(f)), event)
      BY <1>6 DEF TrackedPacket
    <2>3. last' \in Verdicts
      BY <2>1, <2>2, HandledTyped, ResolveTyped, StatusTyped
    <2> QED
      BY <1>2, <1>3, <1>6, <2>3 DEF TrackedPacket
  <1>7. ASSUME NEW c \in Cpus, NEW h \in Hosts, IcmpPacket(c, h) PROVE TypeOK'
    <2> DEFINE s == MAKE_STATUS("DROP", "PARSE")
    <2>1. /\ fuse' = [fuse EXCEPT ![c] = FuseToken(fuse[c], clock).bucket]
          /\ Handled("icmp", h, NoEntry, s, resolve_action(s), "none")
          /\ attack' = Calmed \/ attack' = [last |-> clock,
                                            score |-> AtMost(Calmed.score + 1, ScoreCap)]
          /\ UNCHANGED <<clock, perm, temp, conn, gb, pps, flow, learned, limitedAt>>
      BY <1>7 DEF IcmpPacket
    <2>2. fuse[c] \in Stamped(FUSE_INIT_TOKEN, 0, clock)
      BY <1>1 DEF Dated
    <2>3. fuse' \in [Cpus -> Stamped(FUSE_INIT_TOKEN, 0, clock)]
      BY <1>1, <2>1, <2>2, FuseTyped DEF Dated
    <2>4. AtMost(Calmed.score + 1, ScoreCap) \in 0..ScoreCap
      BY <1>2, ScoreNat DEF AtMost
    <2>5. attack' \in [last : 0..clock, score : 0..ScoreCap]
      BY <1>1, <1>2, <2>1, <2>4
    <2>6. s \in [act : Acts, stg : Stages] /\ "icmp" \in Kinds
      BY StatusTyped DEF Acts, Stages, Kinds
    <2>7. last' \in Verdicts
      BY <2>1, <2>6, HandledTyped, ResolveTyped
    <2>8. Dated(clock)' /\ Undated'
      BY <1>1, <2>1, <2>3, <2>5 DEF Dated, Undated
    <2> QED
      BY <1>1, <2>1, <2>7, <2>8, TypePartsNext
  <1>8. ASSUME NEW c \in Cpus, NEW h \in Hosts, NEW kind \in UntrackedKinds, NEW len \in Lens,
               UntrackedPacket(c, h, kind, len)
        PROVE  TypeOK'
    BY <1>8, UntrackedTypes
  <1>9. ASSUME NEW f \in Flows, NEW payload \in Payloads, EgressPacket(f, payload) PROVE TypeOK'
    <2>1. conn[f] \in Byte \cup {NoEntry}
      BY <1>1 DEF Undated
    <2>2. EgressByte(f, conn[f], payload) \in Byte
      BY <2>1, EgressByteIsByte
    <2>3. Undated' /\ last' \in Verdicts
      BY <1>1, <1>9, <2>2, NoPacketTyped DEF EgressPacket, Undated
    <2>4. Dated(clock)' /\ clock' = clock
      BY <1>1, <1>9 DEF EgressPacket, Dated
    <2> QED
      BY <1>1, <2>3, <2>4, TypePartsNext
  <1>10. ASSUME NEW f \in Flows, ConnEvicted(f) PROVE TypeOK'
    <2>1. Dated(clock)' /\ Undated' /\ last' \in Verdicts /\ clock' = clock
      BY <1>1, <1>10, NoPacketTyped DEF ConnEvicted, Dated, Undated
    <2> QED
      BY <1>1, <2>1, TypePartsNext
  <1>11. ASSUME NEW h \in Hosts, TempEvicted(h) PROVE TypeOK'
    <2>1. Dated(clock)' /\ Undated' /\ last' \in Verdicts /\ clock' = clock
      BY <1>1, <1>11, NoPacketTyped DEF TempEvicted, Dated, Undated
    <2> QED
      BY <1>1, <2>1, TypePartsNext
  <1>12. ASSUME NEW k \in FlowKeys, FlowEvicted(k) PROVE TypeOK'
    <2>1. Dated(clock)' /\ Undated' /\ last' \in Verdicts /\ clock' = clock
      BY <1>1, <1>12, NoPacketTyped DEF FlowEvicted, Dated, Undated
    <2> QED
      BY <1>1, <2>1, TypePartsNext
  <1>13. ASSUME NEW h \in Hosts, BlockHost(h) PROVE TypeOK'
    <2>1. Dated(clock)' /\ Undated' /\ last' \in Verdicts /\ clock' = clock
      BY <1>1, <1>13, NoPacketTyped DEF BlockHost, Dated, Undated
    <2> QED
      BY <1>1, <2>1, TypePartsNext
  <1>14. CASE Tick
    <2>1. /\ clock' = clock + 1 /\ clock' \in 1..MaxClock
          /\ UNCHANGED <<perm, temp, conn, attack, fuse, gb, pps, flow, learned, limitedAt>>
          /\ last' \in Verdicts
      BY <1>1, <1>14, MaxClockAssumption, NoPacketTyped DEF Tick, maps
    <2>2. \A cap, from \in Nat : Stamped(cap, from, clock) \subseteq Stamped(cap, from, clock + 1)
      BY <1>1 DEF Stamped
    <2>3. /\ 0..clock \subseteq 0..(clock + 1)
          /\ 1..(clock + TEMP_BLOCK) \subseteq 1..((clock + 1) + TEMP_BLOCK)
      BY <1>1, BlockAssumption
    <2>4. /\ temp \in [Hosts -> 1..((clock + 1) + TEMP_BLOCK) \cup {NoEntry}]
          /\ attack \in [last : 0..(clock + 1), score : 0..ScoreCap]
          /\ limitedAt \in [Hosts -> 0..(clock + 1)]
      BY <1>1, <2>3 DEF Dated
    <2>5. /\ fuse \in [Cpus -> Stamped(FUSE_INIT_TOKEN, 0, clock + 1)]
          /\ gb \in [Cpus -> Stamped(GLOBAL_BURST, 0, clock + 1)]
          /\ pps \in Stamped(GLOBAL_PPS_LIMIT, 0, clock + 1)
          /\ flow \in [FlowKeys -> Stamped(FLOW_BURST, 1, clock + 1) \cup {NoEntry}]
      BY <1>1, <2>2, RatesAssumption DEF Dated
    <2>6. Dated(clock)' /\ Undated'
      BY <1>1, <2>1, <2>4, <2>5 DEF Dated, Undated
    <2> QED
      BY <2>1, <2>6, TypePartsNext
  <1>15. CASE UNCHANGED vars
    <2>1. Dated(clock)' /\ Undated' /\ last' \in Verdicts /\ clock' = clock
      BY <1>1, <1>15 DEF vars, maps, Dated, Undated
    <2> QED
      BY <1>1, <2>1, TypePartsNext
  <1> QED
    BY <1>4, <1>5, <1>6, <1>7, <1>8, <1>9, <1>10, <1>11, <1>12, <1>13, <1>14, <1>15 DEF Next

------------------------------------------------------------------------------
\* No map is ever stamped in the future, no bucket holds more than its burst,
\* a dpi_state stays a byte and the attack score stays within the cooldown's
\* reach (policy.h:35-196, 429-440; trace_connect.c).
THEOREM TypeCorrect == Spec => []TypeOK
  BY TypeInit, TypeNext, PTL DEF Spec

\* XDP lets a TCP or UDP packet in only on a flow the host opened itself and
\* never from a permanently blocked host (policy.h:340-394).
THEOREM StatefulAdmission == Spec => []InboundNeedsOutbound
  BY InvInit, InvNext, PTL DEF Spec, Inv

\* A host over its flow limit gets no TCP or UDP packet in while its
\* automatic block lasts (policy.h:304-317, 353-364).
THEOREM EscalationEnforced == Spec => []EscalationHolds
  BY InvInit, InvNext, PTL DEF Spec, Inv
==============================================================================
