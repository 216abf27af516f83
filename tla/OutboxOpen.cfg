SPECIFICATION Spec
CONSTANTS
    Intents = {1}
    LegKeys = {"a", "b"}
    Mt5Keys = {"b"}
    Groups = {"g"}
    Kind <- OneOpen
    GroupOf <- OneGroup1
    Lots = 2
    Plans <- TwoLots
    LegacySent = {1}
    LegacyRefused <- MtLegOfFirst
    MaxCrashes = 1
    MaxDrops = 1
CHECK_DEADLOCK FALSE
INVARIANTS
    TypeOK AtMostOnceSubmission CompletionIsReal FailedHasNoLiveOrder RecordedFillIsReal
PROPERTIES
    FilledNeverDecreases KeepsPromise
