SPECIFICATION Spec
CONSTANTS
    NS_PER_SEC = 2
    U64 = 32
    GLOBAL_RATE = 1
    GLOBAL_BURST = 1
    FLOW_RATE = 3
    FLOW_BURST = 3
    GLOBAL_PPS_LIMIT = 1
    FUSE_INIT_TOKEN = 1
    REFILL_INTERVAL = 1
    TOKENS_TO_ADD = 1
    Cpus = {c1, c2}
    Lens = {1, 2}
    MaxClock = 3
    MaxPackets = 4
INVARIANTS FlowLimit
