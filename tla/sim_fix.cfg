SPECIFICATION Spec
CONSTANTS
    transit = transit  buyer = buyer
    first = first  second = second  bargain = bargain  foreign = foreign
    Workers = {w1}
    Loop = Loop
    AgentList <- MCAgentList
    Buyers = {buyer}
    TemplateList <- MCTemplateList
    Bargain = bargain
    Cosigners <- MCCosigners
    Foreign = foreign
    PreSeed = 1
    ReSeed = 1
    ClaimMax = 1
    Scenarios = {"cloud", "degrade", "fix"}
    MaxSLAs = 3
    MaxTicks = 1
    MaxRequests = 3
    MaxFaults = 0
INVARIANT FixRestores
CHECK_DEADLOCK FALSE
