SPECIFICATION Spec
CONSTANTS
    asA = asA  asB = asB  asC = asC  asX = asX  asY = asY  asZ = asZ
    s1 = s1  s2 = s2  s3 = s3
    SLAs = {s1, s2, s3}
    Offered = {s1, s3}
    Observed = {0, 1, 2, 3, 4}
    Complainants = {asX, asY, asZ}
    Metrics = {"latency_ms", "bandwidth_kbps"}
    Bandwidth = "bandwidth_kbps"
    Claimants = {asA, asB, asX}
    AlsoHarmless = TRUE
    K = 2
    W = 1
    DedupWindow = 1
    TickerMax = 1
    MaxTime = 1
    MaxClaims = 0
    MaxComplaints = 4
    MaxResets = 0
    MaxReads = 0
    ASes <- MCASes
    Cosigners <- MCCosigners
    Path <- MCPath
    ValidFrom <- MCValidFrom
    ValidUntil <- MCValidUntil
    Bound <- MCBound
    PricePerGB <- MCPricePerGB
    Penalty <- MCPenalty
    SLABodies <- MCSLABodies
    ClaimBodies <- MCClaimBodies
    ComplaintBodies <- MCComplaintBodies
INVARIANTS
    DedupApart
    ScoreEndpointsAgree
    OneVoicePerWindow
PROPERTY InOrderNeverRetracts
SYMMETRY Symmetry
CHECK_DEADLOCK FALSE
