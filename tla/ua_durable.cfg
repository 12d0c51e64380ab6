SPECIFICATION Spec
CONSTANTS
    Workers = {w1}
    Tick = Tick
    Main = Main
    SLAs = {s1}
    Barred = {}
    Seconds = {0}
    Policies = {p1}
    DefaultPolicy = p1
    Destinations = {d}
    MaxClaims = 1
    MaxEdits = 0
    MaxBoots = 1
    MaxFaults = 0
    Covering <- MCCovering
INVARIANT AnsweredIsSaved
CHECK_DEADLOCK FALSE
