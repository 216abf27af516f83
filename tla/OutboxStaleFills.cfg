SPECIFICATION Spec
CONSTANTS
    Intents = {1}
    LegKeys = {"a", "b"}
    Mt5Keys = {"b"}
    Groups = {"g"}
    Kind <- OneOpen
    GroupOf <- OneGroup1
    Lots = 1
    Plans <- OneLot
    LegacySent = {}
    LegacyRefused <- NoLegs
    MaxCrashes = 0
    MaxDrops = 0
CHECK_DEADLOCK FALSE
INVARIANT FailedMeansUnfilled
