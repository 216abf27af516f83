SPECIFICATION FairSpec
CONSTANTS
    Intents = {1}
    LegKeys = {"a", "b"}
    Mt5Keys = {"b"}
    Groups = {"g"}
    Kind <- OneOpen
    GroupOf <- OneGroup1
    Lots = 1
    Plans <- OneLot
    LegacySent = {}
    LegacyRefused <- NoLegs
    MaxCrashes = 1
    MaxDrops = 1
CHECK_DEADLOCK FALSE
PROPERTY CommandSettles
