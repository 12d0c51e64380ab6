SPECIFICATION Spec
CONSTANTS
    Workers = {w1}
    Tick = Tick
    Main = Main
    SLAs = {s1}
    Barred = {}
    Seconds = {0}
    Policies = {p1}
    DefaultPolicy = p1
    Destinations = {d}
    MaxClaims = 1
    MaxEdits = 1
    MaxBoots = 2
    MaxFaults = 0
    Covering <- MCCovering
INVARIANT RoutedIsHeld
CHECK_DEADLOCK FALSE
