SPECIFICATION FairSpec
CONSTANTS
    m1 = m1
    e1 = e1
    p1 = p1
    First <- FirstRow
    Ids = {1, 2}
    Mobiles = {m1, m2}
    Emails = {e1}
    Passwords = {p1, p2}
    People = {x1}
    Handlers = {h1, h2}
    FailLimit = 1
    None = None
    MaxCalls = 3
    MaxFaults = 1
INVARIANTS MappingsAgree AcknowledgedKept GuessesBounded
PROPERTY LockEnds
CHECK_DEADLOCK FALSE
