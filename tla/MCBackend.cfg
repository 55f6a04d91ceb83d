\* Two requests for a card or a column at a time, one fault; three edits of the settings, of
\* a card; two deploys, one of them rolled back; one rotation of the keys.
SPECIFICATION BackendSpec
CONSTANTS
    Handlers = {p, q}
    Editors = {ann, bob}
    Sessions = {session}
    Stores <- StartStores
    Tabs = {t, u}
    Bearers = {bearer}
    Tokens <- BearerTokens
    Paths <- ForeignPaths
    NotRsa = {3}
    DiscoveryAttempts = 1
    Calls = {c, d}
    Kinds <- ToolCalls
    Lifetimes = {1, 3}
    Margin = 1
    Skew = 0
    Transit = 1
    Signals = {"traces", "logs"}
    Shaped <- HeaderNames
    Said <- SaidLists
    First <- FirstSettings
    Edits <- SingleEdits
    MaxRequests = 2
    MaxFaults = 1
    MaxEdits = 3
    MaxChanges = 2
    MaxCards = 2
    MaxDeploys = 2
    MaxRollbacks = 1
    MaxRotations = 1
    MaxLogins = 2
    MaxTime = 5
INVARIANTS
    BackendTypeOK PlacedWhereAsked ReorderedAsAsked TabShowsTheColumn HistoryReads
    CutOverKeepsCards SignInsFailForCause OneEditNeverSilences CallsTellTheTruth
CHECK_DEADLOCK FALSE
