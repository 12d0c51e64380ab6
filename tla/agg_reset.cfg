SPECIFICATION Spec
CONSTANTS
    asA = asA  asB = asB  asC = asC  asX = asX  asY = asY  asZ = asZ
    s1 = s1  s2 = s2  s3 = s3
    SLAs = {s1, s2, s3}
    Offered = {s1, s2, s3}
    Observed = {0}
    Complainants = {asX}
    Metrics = {"latency_ms", "bandwidth_kbps"}
    Bandwidth = "bandwidth_kbps"
    Claimants = {asB}
    AlsoHarmless = FALSE
    K = 1
    W = 1
    DedupWindow = 1
    TickerMax = 1
    MaxTime = 0
    MaxClaims = 1
    MaxComplaints = 2
    MaxResets = 1
    MaxReads = 1
    ASes <- MCASes
    Cosigners <- MCCosigners
    Path <- MCPath
    ValidFrom <- MCValidFrom
    ValidUntil <- MCValidUntil
    Bound <- MCBound
    PricePerGB <- MCPricePerGB
    Penalty <- MCPenalty
    SLABodies <- MCSLABodies
    ClaimBodies <- MCClaimBodies
    ComplaintBodies <- MCComplaintBodies
INVARIANTS
    TypeOK
    ReferencesHold
    AtMostOneSurvivor
PROPERTY ScoresOfAMoment
CHECK_DEADLOCK FALSE
