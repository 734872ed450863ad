SPECIFICATION Spec
CONSTANTS
    domain = domain
    flow1 = flow1
    flow2 = flow2
    file = file
    Domains = {domain}
    RiskKeys <- MCRiskKeys
    DomainOf <- MCDomainOf
    FileKeys = {file}
    Backlog = 2
    Buffer = 1
    Budgets <- MCBudgets
    MaxVisits = 2
    MaxCount = 3
INVARIANTS FramesAligned GaugeFaithful FileEventsOnce NoStuckAccept
PROPERTIES EventuallyShown BothExit
