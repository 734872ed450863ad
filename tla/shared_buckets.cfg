SPECIFICATION SharedSpec
CONSTANTS
    NS_PER_SEC = 2
    U64 = 32
    GLOBAL_RATE = 1
    GLOBAL_BURST = 1
    FLOW_RATE = 3
    FLOW_BURST = 3
    GLOBAL_PPS_LIMIT = 2
    FUSE_INIT_TOKEN = 1
    REFILL_INTERVAL = 1
    TOKENS_TO_ADD = 1
    Cpus = {c1, c2}
    Scenarios <- MCScenarios
    Lens = {1, 2}
    MaxClock = 5
    MaxPackets = 6
INVARIANTS FlowLimitSerial PpsLimitSerial NoLostUpdate PpsNeverWraps
PROPERTIES AtomicWhenSerial
SYMMETRY MCSymmetry
