\* Four requests with sessions, two at a time; three requests to a pool of two connections;
\* two deploys under a tab; four items of telemetry; one fault, two outages.
SPECIFICATION SettlingSpec
CONSTANTS
    Cards = {a, b, c, d}
    SearchedLinks <- SearchLinks
    N = 4
    GivenLinks <- SortLinks
    Connections = 2
    DrainTimeout = 4
    FlushTimeout = 3
    ExportTimeout = 30
    RuntimeTimeout = 1
    Grace = 15
    MaxItems = 2
    MaxBytes = 3
    MaxItemBytes = 2
    BatchBytes = 3
    KeepaliveBytes = 2
    MaxAttempts = 2
    GiveUpAfter = 2
    Sizes = {1, 2, 3}
    MaxRequests = 4
    MaxFaults = 1
    MaxDeploys = 2
    MaxOutages = 2
    MaxRecorded = 4
INVARIANTS
    SettlingTypeOK NoReplay RefusedForCause LogoutHolds ExitsInTime EveryLossCounted
    SearchRight SortRight
PROPERTY PartsSettle
CHECK_DEADLOCK FALSE
