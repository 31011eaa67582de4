\* A stream and an upload, or two of a kind, pass every wait of the pipeline and
\* race for a slot of a backend that comes and goes and whose limit is patched,
\* under the fairness of the Go scheduler and of the deadlines the code sets.
SPECIFICATION FairSpec
CONSTANTS
    Requests = {r1, r2}
    MaxArrivals = 0
    Keys = {k1}
    NoKey = NoKey
    Models = {m1}
    Backends = {b1}
    NoBackend = NoBackend
    Kinds = {"stream", "multipart"}
    ReqLimit <- Unlimited
    TokLimit <- Unlimited
    Elapsing = {}
    Usages = {}
    Estimate = 1
    Delayed = {k1}
    ConcLimits = {1}
    SlotLimits = {1, 2}
    QueueEnabled = TRUE
    MaxConc = 2
    MaxSize = 1
    Switchable = {}
    Flapping = {b1}
INVARIANTS SlotAccounting
PROPERTIES SlotsImplementPools RequestsEnd
