SPECIFICATION AgentsSpec
CONSTANTS
    Runs = {1, 2}
    Orders = {1, 2}
    Watched = {1}
    InputChoices <- MCInputChoices
    MaxTools = 2
    MaxCancels = 1
    MaxFaults = 1
    u1 = u1
    Users = {u1}
    Threads = {1, 2}
    Messages = {1, 2, 3, 4}
    OwnerOf <- MCOwnerOf
    Unit = 2
    Offsets <- MCOffsets
    Limit = 1
    MaxClock = 1
INVARIANTS OneActiveRun RefundsApproved EndsAgree ListedOnce
PROPERTIES RunsEnd StreamsEnd
CHECK_DEADLOCK FALSE
