SPECIFICATION FairSpec
CONSTANTS
    Kind = "OPEN"
    Target = 2
    MarketFallback = FALSE
    AutoFlatten = FALSE
    MaxCrashes = 0
    MaxDrops = 0
    MaxUnanswered = 0
    MaxUnread = 2
CHECK_DEADLOCK FALSE
PROPERTY FillsAreHedged
