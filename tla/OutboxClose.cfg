SPECIFICATION Spec
CONSTANTS
    Intents = {1, 2}
    LegKeys = {"a", "b"}
    Mt5Keys = {"b"}
    Groups = {"g"}
    Kind <- OpenClose
    GroupOf <- OneGroup2
    Lots = 1
    Plans <- OneLot
    LegacySent = {}
    LegacyRefused <- NoLegs
    MaxCrashes = 1
    MaxDrops = 0
CHECK_DEADLOCK FALSE
INVARIANTS
    UnsentMeansUntouched ClosedMeansFilled
