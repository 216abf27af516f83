SPECIFICATION Spec
CONSTANTS
    Venues = {"a", "b"}
    MaxIntents = 3
    GroupLots <- TwoLots
    StreamFills = FALSE
    LateEvents = FALSE
    MaxCrashes = 1
    EventLots = 2
    MaxDrops = 1
    MaxRepeats = 1
    Refreshing = TRUE
    Platforms = {"a", "b"}
    LegA = "a"
    OldLots = 2
    Probes = {"p", "q"}
    Makers = {"q"}
    LeastQuantity = 1
    CrashAtSubmit = FALSE
    Expiring = {"q"}
    MaxFailures = 1
    Runs = {"r", "s"}
    RunQuantity = 2
    PoolTime = 5
    Concurrent = TRUE
    ConnectorKinds = {"binance", "hyperliquid", "paper", "mt5"}
    MaxUnits = 5
    Step = 2
    FillingModes = 3
    MaxReports = 4
    StreamFaults = 2
    Prices = {1, 3}
    ClosePrice = 2
    RawFee = 1
    Mt5Charge = 1
    LateAnswers = FALSE
    Batched = {"market_a", "close_a", "close_b"}
    Envs = {"live"}
    Payloads = {"full", "reader"}
    Powers <- RightsOf
    Shown <- Alike
    Callers = {"s", "t"}
    ApiCallers = {"s", "t"}
    MaxSaves = 2
    Overlap = FALSE
    HeldKinds = {"polled", "snapshot", "delta"}
    Positions = {"x", "y"}
    OwnPosition = "x"
    MaxSize = 2
    MaxMoves = 3
    MaxUpsets = 2
    EarlyUpdates = FALSE
    SilentErrors = FALSE
    Jobs = {"scan", "execution"}
    Flagged = {"execution"}
    MaxStarts = 2
INVARIANT TypeOK
 
 
 
 
INVARIANT LoadRepairs
 
INVARIANT NoSilentLoss
INVARIANT RealizedIsCash
CHECK_DEADLOCK FALSE
