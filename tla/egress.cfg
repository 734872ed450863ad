SPECIFICATION HistorySpec
CONSTANTS
    tls = tls
    dns = dns
    Flows <- MCFlows
    Service <- MCService
    Cpus = {c1, c2}
    Elems = {e1, e2}
    MAX_DPI_ATTEMPTS = 2
    RingSize = 1
    NoFlow = NoFlow
    NoElem = NoElem
INVARIANTS TypeOK DpiBytes PassOnlyLearned BudgetKept SystemFlowsKept
PROPERTIES FinalKept
SYMMETRY MCSymmetry
