SPECIFICATION Spec
CONSTANTS
    NS_PER_SEC = 3
    U64 = 8
    GLOBAL_RATE = 2
    GLOBAL_BURST = 4
    FLOW_RATE = 1
    FLOW_BURST = 1
    GLOBAL_PPS_LIMIT = 1
    FUSE_INIT_TOKEN = 3
    REFILL_INTERVAL = 2
    TOKENS_TO_ADD = 1
    Cpus = {c1}
    Lens = {1, 3}
    MaxClock = 9
INVARIANTS TypeOK GlobalAdmission FuseAdmission

