SPECIFICATION FairSpec
CHECK_DEADLOCK FALSE
CONSTANTS
    a = a
    b = b
    p1 = p1
    p2 = p2
    p3 = p3
    Instance = {a, b}
    Modes <- SomeModes
    Service = {"web"}
    IdleTimeout = 1
    Timed = {a}
    Password = {p1, p2, p3}
    None = None
    Malformed = Malformed
    UserSecrets = {None, Malformed}
    Faults = {"call", "lag", "crash", "outage"}
    MaxFaults = 1
INVARIANTS
    TypeOK
    ClaimerNeverRefused
    NothingLeft
PROPERTIES
    FinalizerReleases
    DeletionEnds
    RunProgresses
    UntimedStreamRuns
