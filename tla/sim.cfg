SPECIFICATION Spec
CONSTANTS
    transit = transit  buyer = buyer
    first = first  second = second  bargain = bargain  foreign = foreign
    Workers = {w1}
    Loop = Loop
    AgentList <- MCAgentList
    Buyers = {buyer}
    TemplateList <- MCTemplateList
    Bargain = bargain
    Cosigners <- MCCosigners
    Foreign = foreign
    PreSeed = 1
    ReSeed = 1
    ClaimMax = 1
    Scenarios = {"reset", "hospital", "cloud", "degrade", "fix"}
    MaxSLAs = 3
    MaxTicks = 2
    MaxRequests = 2
    MaxFaults = 1
INVARIANTS
    TypeOK
    OneComplaintPerTick
    LoopSurvivesScenarios
    CleanReset
    PortfolioIsStored
    FixRestoresTemplates
CHECK_DEADLOCK FALSE
