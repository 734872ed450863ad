---------------------------- MODULE XdpFirewall ----------------------------
(***************************************************************************)
(* The XDP program (xdp_fw) as a packet filter: one step is one packet     *)
(* through the whole handler.  The rest of the machine acts between two    *)
(* packets: time passes, the TC program learns flows, the map evicts them  *)
(* and the administrator blocks hosts.                                     *)
(*                                                                         *)
(* check_conntrack_and_blacklist never returns 0, so an unfragmented TCP   *)
(* or UDP packet is decided there; the fuse is reached by ICMP only, and   *)
(* the PPS bucket and apply_policy by fragments (their ports are read as   *)
(* 0) and by other IPv4 protocols only.  Code behind a condition that no   *)
(* packet meets (the SYN cookie, record_established, whitelist rules) is   *)
(* left out.                                                               *)
(***************************************************************************)
EXTENDS DpiState, RateLimit

CONSTANTS
    Cpus,
    Hosts,          \* remote addresses
    Flows,          \* five-tuples of TCP and UDP flows
    Lens,           \* packet lengths
    Traffic,        \* kinds of packets that arrive
    AllowedPorts,   \* ingress_allowed_ports
    COOLDOWN_BASE,  \* ticks attack mode lasts, 5 s in the code
    SCORE_STEP,     \* fuse trips that add a second to it, 1000 in the code
    COOLDOWN_CAP,   \* its upper limit, 60 s in the code
    TEMP_BLOCK,     \* ticks of an automatic block, 300 s in the code
    MaxClock,       \* bound of the model on the time
    NoEntry         \* a failed map lookup

TrackedProtos == {"tcp", "udp"}

ASSUME FlowsAssumption ==
    Flows \subseteq [host : Hosts, proto : TrackedProtos, service : Services]
\* load_allow_ports_to_map skips port 0
ASSUME PortsAssumption == 0 \notin AllowedPorts
ASSUME LensAssumption  == Lens \subseteq Nat
ASSUME TrafficAssumption == Traffic \subseteq STRING
ASSUME AttackAssumption ==
    /\ COOLDOWN_BASE \in Nat
    /\ SCORE_STEP \in Nat \ {0}
    /\ COOLDOWN_CAP \in Nat
    /\ COOLDOWN_BASE <= COOLDOWN_CAP
ASSUME BlockAssumption == TEMP_BLOCK \in Nat \ {0}
ASSUME MaxClockAssumption == MaxClock \in Nat \ {0}
ASSUME NoEntryAssumption  == NoEntry \notin Nat \cup Flows \cup Hosts

VARIABLES
    clock,      \* bpf_ktime_get_ns()
    perm,       \* keys of permanent_blocklist_map
    temp,       \* temp_blocklist_map: the end of each host's block
    conn,       \* established_connections_map: the dpi_state of each flow
    attack,     \* attack_status_map and attack_score_map
    fuse,       \* fuse_ratelimit_map, per CPU
    gb,         \* global_bucket_map, per CPU
    pps,        \* global_pps_map
    flow,       \* flow_table
    learned,    \* history: flows the TC program has recorded
    limitedAt,  \* history: when each host last exceeded its flow limit, or 0
    last        \* the packet the last step handled and what became of it

maps == <<perm, temp, conn, attack, fuse, gb, pps, flow>>
vars == <<clock, maps, learned, limitedAt, last>>

(***************************************************************************)
(* Packets that do not reach the connection tracker: fragments of TCP, UDP *)
(* and other protocols, and unfragmented packets of other protocols.       *)
(***************************************************************************)
Fragments      == {"frag_tcp", "frag_udp", "frag"}
UntrackedKinds == Fragments \cup {"other"}

\* the protocol in the flow_table key; both ports of the key are 0
FlowKey(h, kind) ==
    <<h, IF kind = "frag_tcp" THEN "tcp" ELSE IF kind = "frag_udp" THEN "udp" ELSE "other">>

FlowKeys == Hosts \X (TrackedProtos \cup {"other"})

\* decided by the parser alone
ParserKinds == {"arp", "ipv6", "ethertype", "bad_l3"}

Kinds == {"none", "bad_l2", "icmp"} \cup ParserKinds \cup TrackedProtos \cup UntrackedKinds

Acts   == {"NONE", "PASS", "DROP", "CHALLENGE"}
Stages == {"NONE", "PARSE", "PERM_BLK", "TEMP_BLK", "ESTABLISHED", "PORT_WHT",
           "GLOBAL_LMT", "FLOW_LMT"}

MAKE_STATUS(act, stg) == [act |-> act, stg |-> stg]
NoStatus == MAKE_STATUS("NONE", "NONE")

resolve_action(status) ==
    CASE status.act = "DROP"      -> "XDP_DROP"
      [] status.act = "CHALLENGE" -> "XDP_TX"
      [] OTHER                    -> "XDP_PASS"

NoPacket == [kind |-> "none", host |-> NoEntry, flow |-> NoEntry, status |-> NoStatus,
             action |-> "XDP_PASS", event |-> "none"]

Init ==
    /\ clock     = 1
    /\ perm      = {}
    /\ temp      = [h \in Hosts |-> NoEntry]
    /\ conn      = [f \in Flows |-> NoEntry]
    /\ attack    = [last |-> 0, score |-> 0]
    /\ fuse      = [c \in Cpus |-> ZeroBucket]
    /\ gb        = [c \in Cpus |-> ZeroBucket]
    /\ pps       = [tokens |-> GLOBAL_PPS_LIMIT, last |-> 0]
    /\ flow      = [k \in FlowKeys |-> NoEntry]
    /\ learned   = {}
    /\ limitedAt = [h \in Hosts |-> 0]
    /\ last      = NoPacket

-----------------------------------------------------------------------------
(***************************************************************************)
(* check_attack_status, called for every packet with a sound L2 header:    *)
(* attack mode lasts a cooldown after the last fuse trip, longer with the  *)
(* score; the score is reset when it has ended.  A score above ScoreCap    *)
(* makes no difference, so it saturates there.                             *)
(***************************************************************************)
ScoreCap == (COOLDOWN_CAP - COOLDOWN_BASE) * SCORE_STEP

Cooldown(score) == AtMost(COOLDOWN_BASE + (score \div SCORE_STEP) * NS_PER_SEC, COOLDOWN_CAP)

UnderAttack == attack.last # 0 /\ clock - attack.last < Cooldown(attack.score)

Calmed == IF attack.last # 0 /\ ~UnderAttack THEN [attack EXCEPT !.score = 0] ELSE attack

Handled(kind, h, f, status, action, event) ==
    last' = [kind |-> kind, host |-> h, flow |-> f, status |-> status,
             action |-> action, event |-> event]

-----------------------------------------------------------------------------
(***************************************************************************)
(* Packets decided by the parser.                                          *)
(***************************************************************************)
BadFrame ==
    /\ LET s == MAKE_STATUS("DROP", "PARSE") IN
          Handled("bad_l2", NoEntry, NoEntry, s, resolve_action(s), "none")
    /\ UNCHANGED <<clock, maps, learned, limitedAt>>

\* ARP passes, IPv6 and malformed IPv4, TCP, UDP and ICMP headers are
\* dropped; another ethertype returns -1 with no status, which passes
ParserStatus(kind) ==
    IF kind \in {"ipv6", "bad_l3"} THEN MAKE_STATUS("DROP", "PARSE") ELSE NoStatus

ParserVerdict(kind) ==
    /\ attack' = Calmed
    /\ Handled(kind, NoEntry, NoEntry, ParserStatus(kind),
               resolve_action(ParserStatus(kind)), "none")
    /\ UNCHANGED <<clock, perm, temp, conn, fuse, gb, pps, flow, learned, limitedAt>>

-----------------------------------------------------------------------------
(***************************************************************************)
(* Unfragmented TCP and UDP: check_conntrack_and_blacklist.                *)
(***************************************************************************)
TempBlocked(h) == temp[h] # NoEntry /\ clock < temp[h]

\* mutant: the permanent blocklist is skipped for an established flow
ConntrackStatusFast(f) ==
    IF conn[f] # NoEntry /\ ConnVerdict(conn[f]) # "DROP" THEN MAKE_STATUS("PASS", "ESTABLISHED")
    ELSE MAKE_STATUS("DROP", "ESTABLISHED")

ConntrackStatus(f) ==
    IF f.host \in perm THEN MAKE_STATUS("DROP", "PERM_BLK")
    ELSE IF TempBlocked(f.host) THEN MAKE_STATUS("DROP", "TEMP_BLK")
    ELSE IF conn[f] = NoEntry \/ ConnVerdict(conn[f]) = "DROP"
         THEN MAKE_STATUS("DROP", "ESTABLISHED")
    ELSE MAKE_STATUS("PASS", "ESTABLISHED")

\* a pending flow is reported over the ring buffer
TrackedPacket(f) ==
    LET s == ConntrackStatus(f) IN
    /\ attack' = Calmed
    /\ Handled(f.proto, f.host, f, s, resolve_action(s),
               IF s.act = "PASS" /\ ConnVerdict(conn[f]) = "DPI_PENDING" THEN "l7" ELSE "none")
    /\ UNCHANGED <<clock, perm, temp, conn, fuse, gb, pps, flow, learned, limitedAt>>

-----------------------------------------------------------------------------
(***************************************************************************)
(* ICMP: enforce_l4_l7_policy_and_dpi with no connection.  Every path of   *)
(* it returns -1, so the packet is dropped; it costs a fuse token, and a   *)
(* blown fuse (re)starts attack mode.                                      *)
(***************************************************************************)
IcmpPacket(c, h) ==
    LET r == FuseToken(fuse[c], clock)
        s == MAKE_STATUS("DROP", "PARSE")
    IN  /\ fuse' = [fuse EXCEPT ![c] = r.bucket]
        /\ attack' = IF r.pass THEN Calmed
                     ELSE [last |-> clock, score |-> AtMost(Calmed.score + 1, ScoreCap)]
        /\ Handled("icmp", h, NoEntry, s, resolve_action(s), "none")
        /\ UNCHANGED <<clock, perm, temp, conn, gb, pps, flow, learned, limitedAt>>

-----------------------------------------------------------------------------
(***************************************************************************)
(* Fragments and other protocols: stages 1-2 to 6 of xdp_fw.  The action   *)
(* returned is the one resolved BEFORE apply_policy, from the parser's     *)
(* status, unless the port was not allowed.                                *)
(***************************************************************************)
ParsedStatus(kind) == IF kind = "other" THEN MAKE_STATUS("PASS", "PARSE") ELSE NoStatus

PpsDrop(h, kind) ==
    LET p == PpsToken(pps, clock) IN
    /\ ~p.pass
    /\ pps' = p.bucket
    /\ attack' = Calmed
    /\ Handled(kind, h, NoEntry, ParsedStatus(kind), "XDP_DROP", "none")
    /\ UNCHANGED <<clock, perm, temp, conn, fuse, gb, flow, learned, limitedAt>>

\* past the PPS bucket
Queued(h, kind) ==
    LET p == PpsToken(pps, clock) IN
    /\ p.pass
    /\ pps' = p.bucket
    /\ attack' = Calmed
    /\ UNCHANGED <<clock, perm, conn, fuse, learned>>

\* verify_broadcast_and_policy: broadcast and multicast, source or
\* destination; port 67 cannot be seen here
GroupDrop(h, kind) ==
    /\ Queued(h, kind)
    /\ Handled(kind, h, NoEntry, ParsedStatus(kind), "XDP_DROP", "none")
    /\ UNCHANGED <<temp, gb, flow, limitedAt>>

\* lookup_or_create_flow: the entry can be lost to another CPU's eviction
\* between the update and the lookup; the packet then passes
FlowLost(h, kind) ==
    /\ Queued(h, kind)
    /\ flow[FlowKey(h, kind)] = NoEntry
    /\ Handled(kind, h, NoEntry, ParsedStatus(kind), "XDP_PASS", "none")
    /\ UNCHANGED <<temp, gb, flow, limitedAt>>

FlowEntry(h, kind) ==
    IF flow[FlowKey(h, kind)] = NoEntry THEN [tokens |-> FLOW_BURST, last |-> clock]
    ELSE flow[FlowKey(h, kind)]

\* ports of a fragment are 0 and only TCP and UDP are asked for one
PortMiss(kind) == kind \in {"frag_tcp", "frag_udp"} /\ 0 \notin AllowedPorts

\* should_emit_event: a drop gives 1, a pass gives 1 in peace and is sampled
\* under attack
ShouldEmit(action) ==
    IF action # "XDP_PASS" \/ ~UnderAttack THEN {1} ELSE {0, 1, 2}

\* apply_policy misses the port: reported only if should_emit_event says 2
PortMissDrop(h, kind) ==
    LET s == MAKE_STATUS("DROP", "PORT_WHT") IN
    /\ PortMiss(kind)
    /\ Queued(h, kind)
    /\ flow' = [flow EXCEPT ![FlowKey(h, kind)] = FlowEntry(h, kind)]
    /\ \E n \in ShouldEmit(resolve_action(s)) :
          Handled(kind, h, NoEntry, s, resolve_action(s), IF n = 2 THEN "basic" ELSE "none")
    /\ UNCHANGED <<temp, gb, limitedAt>>

\* Stage 5 and 6: the status is apply_policy's, the action the parser's
Concluded(h, kind, s) ==
    \E n \in ShouldEmit(resolve_action(ParsedStatus(kind))) :
        Handled(kind, h, NoEntry, s, resolve_action(ParsedStatus(kind)),
                IF n = 1 THEN "basic" ELSE "none")

GlobalLimited(c, h, kind, len) ==
    LET g == GlobalTokens(gb[c], clock, len) IN
    /\ ~PortMiss(kind) /\ ~g.pass
    /\ Queued(h, kind)
    /\ gb' = [gb EXCEPT ![c] = g.bucket]
    /\ flow' = [flow EXCEPT ![FlowKey(h, kind)] = FlowEntry(h, kind)]
    /\ Concluded(h, kind, MAKE_STATUS("DROP", "GLOBAL_LMT"))
    /\ UNCHANGED <<temp, limitedAt>>

\* mutant: the automatic block is one tick short
TempInsertShort(h) ==
    /\ temp' = [temp EXCEPT ![h] = clock + TEMP_BLOCK - 1]
    /\ limitedAt' = [limitedAt EXCEPT ![h] = clock]

TempInsert(h) ==
    /\ temp' = [temp EXCEPT ![h] = clock + TEMP_BLOCK]
    /\ limitedAt' = [limitedAt EXCEPT ![h] = clock]

FlowLimited(c, h, kind, len) ==
    LET g == GlobalTokens(gb[c], clock, len)
        f == FlowTokens(FlowEntry(h, kind), clock, len)
    IN  /\ ~PortMiss(kind) /\ g.pass /\ ~f.pass
        /\ Queued(h, kind)
        /\ gb' = [gb EXCEPT ![c] = g.bucket]
        /\ flow' = [flow EXCEPT ![FlowKey(h, kind)] = f.bucket]
        /\ TempInsert(h)
        /\ Concluded(h, kind, MAKE_STATUS("DROP", "FLOW_LMT"))

WithinLimits(c, h, kind, len) ==
    LET g == GlobalTokens(gb[c], clock, len)
        f == FlowTokens(FlowEntry(h, kind), clock, len)
    IN  /\ ~PortMiss(kind) /\ g.pass /\ f.pass
        /\ Queued(h, kind)
        /\ gb' = [gb EXCEPT ![c] = g.bucket]
        /\ flow' = [flow EXCEPT ![FlowKey(h, kind)] = f.bucket]
        /\ Concluded(h, kind, MAKE_STATUS("PASS", "FLOW_LMT"))
        /\ UNCHANGED <<temp, limitedAt>>

UntrackedPacket(c, h, kind, len) ==
    \/ PpsDrop(h, kind) \/ GroupDrop(h, kind) \/ FlowLost(h, kind) \/ PortMissDrop(h, kind)
    \/ GlobalLimited(c, h, kind, len) \/ FlowLimited(c, h, kind, len)
    \/ WithinLimits(c, h, kind, len)

-----------------------------------------------------------------------------
(***************************************************************************)
(* Between two packets.                                                    *)
(***************************************************************************)
Tick ==
    /\ clock < MaxClock
    /\ clock' = clock + 1
    /\ last' = NoPacket
    /\ UNCHANGED <<maps, learned, limitedAt>>

\* tc_egress_record for one packet, nothing else running; DpiConntrack has
\* the same program step by step on several CPUs
EgressByte(f, b, payload) ==
    IF b = NoEntry THEN Classify(f.service, payload, f.host \in TcBlocklist)
    ELSE IF DPI_ST(b) = DPI_UNKNOWN THEN Classify(f.service, payload, f.host \in TcBlocklist)
    ELSE IF DPI_ST(b) # DPI_TLS_PENDING THEN b
    ELSE IF DPI_ATTEMPTS(b) >= MAX_DPI_ATTEMPTS THEN DPI_MAKE(DPI_TLS_DONE, DPI_ATTEMPTS(b))
    ELSE IF payload = "empty" THEN b
    ELSE DPI_MAKE(DPI_TLS_PENDING, DPI_ATTEMPTS(b) + 1)

EgressPacket(f, payload) ==
    /\ conn' = [conn EXCEPT ![f] = EgressByte(f, @, payload)]
    /\ learned' = learned \cup {f}
    /\ last' = NoPacket
    /\ UNCHANGED <<clock, perm, temp, attack, fuse, gb, pps, flow, limitedAt>>

\* established_connections_map is an LRU hash
ConnEvicted(f) ==
    /\ conn[f] # NoEntry
    /\ conn' = [conn EXCEPT ![f] = NoEntry]
    /\ last' = NoPacket
    /\ UNCHANGED <<clock, perm, temp, attack, fuse, gb, pps, flow, learned, limitedAt>>

\* so is temp_blocklist_map: the block of h is forgotten
TempEvicted(h) ==
    /\ temp[h] # NoEntry
    /\ temp' = [temp EXCEPT ![h] = NoEntry]
    /\ limitedAt' = [limitedAt EXCEPT ![h] = 0]
    /\ last' = NoPacket
    /\ UNCHANGED <<clock, perm, conn, attack, fuse, gb, pps, flow, learned>>

\* and so is flow_table
FlowEvicted(k) ==
    /\ flow[k] # NoEntry
    /\ flow' = [flow EXCEPT ![k] = NoEntry]
    /\ last' = NoPacket
    /\ UNCHANGED <<clock, perm, temp, conn, attack, fuse, gb, pps, learned, limitedAt>>

\* update_blacklist_map on the permanent map; nothing ever removes a key
BlockHost(h) ==
    /\ perm' = perm \cup {h}
    /\ last' = NoPacket
    /\ UNCHANGED <<clock, temp, conn, attack, fuse, gb, pps, flow, learned, limitedAt>>

Next ==
    \/ "bad_l2" \in Traffic /\ BadFrame
    \/ \E kind \in ParserKinds \cap Traffic : ParserVerdict(kind)
    \/ \E f \in Flows : f.proto \in Traffic /\ TrackedPacket(f)
    \/ \E c \in Cpus, h \in Hosts : "icmp" \in Traffic /\ IcmpPacket(c, h)
    \/ \E c \in Cpus, h \in Hosts, kind \in UntrackedKinds \cap Traffic, len \in Lens :
          UntrackedPacket(c, h, kind, len)
    \/ \E f \in Flows, payload \in Payloads : EgressPacket(f, payload)
    \/ \E f \in Flows : ConnEvicted(f)
    \/ \E h \in Hosts : TempEvicted(h)
    \/ \E k \in FlowKeys : FlowEvicted(k)
    \/ \E h \in Hosts : BlockHost(h)
    \/ Tick

Spec == Init /\ [][Next]_vars

-----------------------------------------------------------------------------
(***************************************************************************)
(* Properties that hold.                                                   *)
(***************************************************************************)

FlowBucket == [tokens : 0..FLOW_BURST, last : 1..clock]

\* Every variable keeps its type: no map is stamped in the future (a
\* difference of two times would wrap) and no bucket holds more than its
\* burst.
TypeOK ==
    /\ clock \in 1..MaxClock
    /\ perm \subseteq Hosts
    /\ temp \in [Hosts -> 1..(clock + TEMP_BLOCK) \cup {NoEntry}]
    /\ conn \in [Flows -> Byte \cup {NoEntry}]
    /\ attack \in [last : 0..clock, score : 0..ScoreCap]
    /\ fuse \in [Cpus -> [tokens : 0..FUSE_INIT_TOKEN, last : 0..clock]]
    /\ gb \in [Cpus -> [tokens : 0..GLOBAL_BURST, last : 0..clock]]
    /\ pps \in [tokens : 0..GLOBAL_PPS_LIMIT, last : 0..clock]
    /\ flow \in [FlowKeys -> FlowBucket \cup {NoEntry}]
    /\ learned \subseteq Flows
    /\ limitedAt \in [Hosts -> 0..clock]
    /\ last \in [kind : Kinds, host : Hosts \cup {NoEntry}, flow : Flows \cup {NoEntry},
                 status : [act : Acts, stg : Stages],
                 action : {"XDP_PASS", "XDP_DROP", "XDP_TX"}, event : {"none", "l7", "basic"}]

\* A fragmentless TCP or UDP packet comes in only on a flow this host opened
\* before, and never from a host on the permanent blocklist, whatever was
\* evicted, reclassified or blocked in between (policy.h:340-394).
InboundNeedsOutbound ==
    last.kind \in TrackedProtos /\ last.action = "XDP_PASS" =>
        last.flow \in learned /\ last.host \notin perm

\* A host that exceeded the limit of any of its flows gets no TCP or UDP
\* packet in for TEMP_BLOCK, unless the map evicted its entry; packets of
\* protocols that are not tracked trigger the block, tracked ones feel it
\* (policy.h:304-317, 353-364).
EscalationHolds ==
    last.kind \in TrackedProtos /\ last.action = "XDP_PASS" =>
        limitedAt[last.host] = 0 \/ clock >= limitedAt[last.host] + TEMP_BLOCK

(***************************************************************************)
(* A statement of the documentation that the code does not keep; a run of  *)
(* its own exhibits the case.                                              *)
(***************************************************************************)

\* A packet over the global or its flow's byte limit is dropped
\* (docs/dataplane.md:75-78).
LimitsDrop ==
    last.status.act = "DROP" /\ last.status.stg \in {"GLOBAL_LMT", "FLOW_LMT"} =>
        last.action = "XDP_DROP"
=============================================================================
