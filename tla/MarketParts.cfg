SPECIFICATION Spec
CONSTANTS
    Signals = {"long"}
    Rows = {1, 2}
    Users = {11}
    MaxGroups = 1
    Ways = {"long", "short"}
    Spreads = {0, 1}
    Detection = 1
    Cooldown = 1
    InitialThreshold = 45
    Multiplier = 2
    BaselineSamples = 4
    BaselineCap = 5
    MaxUpdates = 6
    Templates = {"always", "fx", "stock_us_close_only", "index_us_jp", "xauusd", "energy"}
    Own <- OwnWindows
    Sides = {"buy"}
    Modes = {"full", "close_only"}
    Calendars = {"none", "reduce_only"}
    SessionTTL = 1
    StateTTL = 1
    Quarantine = 2
    MaxTime = 2
    MaxLosses = 1
    MaxChanges = 1
    SymbolKinds = {"mt5", "exchange", "readonly"}
    Prices = {0, 1, 3}
    Levels = {0, 1}
    MinSamples = 2
    MinEdge = 1
    MinEntry = 1
    MaxClose = 1
    MaxAge = 1
    MaxDiff = 0
    Target = 4
    Fee = 1
    HistoryTime = 8
    Bucket = 3
    Interval = 2
    MaxSamples = 3
    MaxFaults = 1
    BookLevels = {1, 2}
    Sizes = {0, 1}
    Updates = 4
    MaxFailures = 1
    StaleAge = 2
    Strict = 1
    Delay = 1
INVARIANT TypeOK
INVARIANT OverrunIsBounded
INVARIANT TripIsWarranted
 
INVARIANT ScanIsSound
INVARIANT BucketsAreWhole
INVARIANT MarketDataIsTrue
CHECK_DEADLOCK FALSE
