SPECIFICATION FairSpec
CONSTANTS
    OpenTimes = {1, 2}
    ShowTimes = {1, 2}
    StartOf <- Starts
    Users = {u1}
    InitialOpen = 1
    InitialShowTimes = {1}
    InitialSeats = 1
    MaxEvents = 2
    MaxSeats = 2
    MaxAttempts = 2
INVARIANTS   OpensBeforeShows
PROPERTY PreheatCompletes
CHECK_DEADLOCK FALSE
