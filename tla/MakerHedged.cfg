SPECIFICATION FairSpec
CONSTANTS
    Kind = "OPEN"
    Target = 1
    MarketFallback = TRUE
    AutoFlatten = FALSE
    MaxCrashes = 1
    MaxDrops = 0
    MaxUnanswered = 0
    MaxUnread = 2
CHECK_DEADLOCK FALSE
PROPERTY FillsAreHedged
