SPECIFICATION FairSpec
CONSTANTS
    Instances = {i1, i2}
    Readers = {i2}
    Writers = {i1, i2}
    Flaky = {i2}
    Rows = {"program", "show", "category"}
    Missing <- MissingSets
    MaxEdits = 1
    MaxMarks = 1
    MaxFaults = 2
INVARIANT ViewsCurrent
PROPERTY CachesConverge
CHECK_DEADLOCK FALSE
