SPECIFICATION Spec
CHECK_DEADLOCK FALSE
CONSTANTS
    a = a
    b = b
    p1 = p1
    p2 = p2
    p3 = p3
    Instance = {a}
    Modes <- OneStream
    Service = {"web"}
    IdleTimeout = 2
    Timed = {a}
    Password = {p1}
    None = None
    Malformed = Malformed
    UserSecrets = {None}
    Faults = {}
    MaxFaults = 0
PROPERTIES
    IdleMeansIdle
