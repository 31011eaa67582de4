\* Three requests of one model: a concurrency limit that comes and goes between
\* the steps of admission, a queue that runs two and lets one wait, two requests
\* in a race for the backend's only slot.
SPECIFICATION Spec
SYMMETRY RequestSymmetry
CONSTANTS
    Requests = {r1, r2, r3}
    MaxArrivals = 0
    Keys = {k1}
    NoKey = NoKey
    Models = {m1}
    Backends = {b1}
    NoBackend = NoBackend
    Kinds = {"json"}
    ReqLimit <- Unlimited
    TokLimit <- Unlimited
    Elapsing = {}
    Usages = {}
    Estimate = 1
    Delayed = {}
    ConcLimits = {0, 1, 2}
    SlotLimits = {1}
    QueueEnabled = TRUE
    MaxConc = 2
    MaxSize = 1
    Switchable = {m1}
    Flapping = {}
INVARIANTS ConcAccounting QueueIsExact LimitsReadHold
