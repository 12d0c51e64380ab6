SPECIFICATION Spec
CONSTANTS
    transit = transit  buyer = buyer
    first = first  second = second  bargain = bargain  foreign = foreign
    Workers = {w1}
    Loop = Loop
    AgentList <- MCAgentList
    Buyers = {buyer}
    TemplateList <- MCTemplateList
    Bargain = bargain
    Cosigners <- MCCosigners
    Foreign = foreign
    PreSeed = 1
    ReSeed = 1
    ClaimMax = 1
    Scenarios = {"reset", "cloud"}
    MaxSLAs = 3
    MaxTicks = 1
    MaxRequests = 1
    MaxFaults = 0
INVARIANT TicksOn
CHECK_DEADLOCK FALSE
