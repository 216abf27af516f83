CONSTANTS
    Requests = {1, 2, 3}
    Keys = {"order"}
    NoKey = "no key"
    KeyOf <- MCTwice
    Modes = 2
    MaxCrashes = 1
    MaxFaults = 1
    MaxLostReplies = 1
    MaxExpiries = 1
SPECIFICATION Spec
INVARIANTS TypeOK RepeatsAreCounted AnswersAgree AcceptedIsReal AnsweredBeforeAck
CHECK_DEADLOCK FALSE
