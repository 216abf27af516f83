CONSTANTS
    Requests = {1}
    Keys = {"order"}
    NoKey = "no key"
    KeyOf <- MCSingle
    Modes = 2
    MaxCrashes = 0
    MaxFaults = 1
    MaxLostReplies = 0
    MaxExpiries = 0
SPECIFICATION Spec
INVARIANT RejectedMeansNoOrder
CHECK_DEADLOCK FALSE
