SPECIFICATION Spec
CONSTANTS
    Kind = "CLOSE"
    Target = 1
    MarketFallback = FALSE
    AutoFlatten = TRUE
    MaxCrashes = 1
    MaxDrops = 1
    MaxUnanswered = 1
    MaxUnread = 2
CHECK_DEADLOCK FALSE
INVARIANTS SubmittedOnce OverMeansMatched WholeMeansWhole
