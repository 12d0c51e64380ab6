SPECIFICATION Spec
CONSTANTS
    SLAs = {1, 2, 3, 4, 5, 6, 7}
    Metrics = {"latency_ms", "loss_ppm", "bandwidth_kbps"}
    Bandwidth = "bandwidth_kbps"
    ASes = {"A", "B", "C", "D", "E"}
    LocalAS = "A"
    ClaimIds = {1, 2}
    Claimable = {1, 2, 4, 6}
    Expirable = {3, 5, 7}
    Reposted = {1}
    MaxClaims = 3
    MaxSchemes = 3
    Cosigners <- MCCosigners
    Bound <- MCBound
    PricePerGB <- MCPricePerGB
    RealPaths <- MCRealPaths
    PathOf <- MCPathOf
    Policies <- MCPolicies
    ScoreTables <- MCScoreTables
INVARIANTS
    TypeOK
    PathsParsed
    OffersInOrder
    AggregatesCompose
    ReputationOfChain
    RefusalsAreResets
    ChoiceIsBest
