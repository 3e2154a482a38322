SPECIFICATION MCSpec
CONSTANTS
    Bootstrap = 50
    Maximum = 120
    Samples = 2
    HealthyReports = 2
    SevereEvents = 2
    Cooldown = 2
    Attribution = 2
    FastAttribution = 1
    ProbeInterval = 2
    MaxProbeInterval = 4
    BestHold = 2
    ProvenHold = 4
    ReturnRetry = 2
    MaxReturnRetry = 4
    Channels = {"video", "audio"}
    Absolute = 10
    Variation = 2
    BaselineSamples = 3
    Settle = 1
    FailureTime = 2
    ProbeTime = 2
    IncidentTime = 3
    CutSpacing = 2
    ReportGap = 3
    Retry = 2
    MaxRetry = 4
    Measured = {120}
    Links <- MCLinks
    Good <- MCGood
    PathCapacities = {60, 1000}
    MaxTroubles = 2
INVARIANTS
    FailureJustified
PROPERTIES
    OneCutPerReport
    RiseEarned
    Recovers
CHECK_DEADLOCK FALSE
