SPECIFICATION Spec
CONSTANTS
    Kind = "OPEN"
    Target = 2
    MarketFallback = TRUE
    AutoFlatten = FALSE
    MaxCrashes = 0
    MaxDrops = 0
    MaxUnanswered = 0
    MaxUnread = 2
CHECK_DEADLOCK FALSE
INVARIANTS TypeOK HedgeFollowsMaker FallbackAfterMaker NoOverfill
PROPERTY FillsAreRecorded
