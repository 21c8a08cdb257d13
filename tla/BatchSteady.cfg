SPECIFICATION Spec
SYMMETRY Symmetry
CONSTANTS
    f1 = f1
    f2 = f2
    p1 = p1
    p2 = p2
    p3 = p3
    File = {f1, f2}
    Pod = {p1, p2, p3}
    NoOne = NoOne
    Reclaimer = Reclaimer
    Flusher = Flusher
    Parallelism = 2
    MaxAttempts = 2
    BackoffLimit = 1
    MaxJobs = 1
    PodFaults = {"fail", "crash", "stick", "evict"}
    Faults = {"claim"}
    MaxFaults = 1
INVARIANTS
    TypeOK
    OneLiveMessage
    SucceededMeansProcessed
PROPERTIES
    NoRetryOfSuccess
    EndedStaysEnded
