SPECIFICATION FairSpec
CONSTANTS
    Workers = {w1}
    Tick = Tick
    Main = Main
    SLAs = {s1}
    Barred = {}
    Seconds = {0}
    Policies = {p1, p2}
    DefaultPolicy = p1
    Destinations = {d}
    MaxClaims = 1
    MaxEdits = 1
    MaxBoots = 2
    MaxFaults = 1
    Covering <- MCCovering
INVARIANTS
    TypeOK
    CopiesArePrefixes
PROPERTIES
    FinallySaved
    FileLagsPortfolio
CHECK_DEADLOCK FALSE
