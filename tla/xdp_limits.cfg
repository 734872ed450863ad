SPECIFICATION Spec
CONSTANTS
    server = server
    Hosts <- MCHosts
    Flows <- MCFlows
    Traffic <- MixedTraffic
    Cpus = {c1}
    Lens = {2}
    AllowedPorts = {443}
    MAX_DPI_ATTEMPTS = 1
    NS_PER_SEC = 2
    U64 = 1048576
    GLOBAL_RATE = 4
    GLOBAL_BURST = 4
    FLOW_RATE = 1
    FLOW_BURST = 2
    GLOBAL_PPS_LIMIT = 2
    FUSE_INIT_TOKEN = 1
    REFILL_INTERVAL = 2
    TOKENS_TO_ADD = 1
    COOLDOWN_BASE = 1
    SCORE_STEP = 1
    COOLDOWN_CAP = 2
    TEMP_BLOCK = 2
    MaxClock = 3
    NoEntry = NoEntry
INVARIANTS LimitsDrop
