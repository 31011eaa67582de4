\* Two handlers serve up to four requests with caps on requests and tokens,
\* usage reports and estimates, while the minute and the month may expire and the
\* backend's limit is patched.
SPECIFICATION Spec
SYMMETRY RequestSymmetry
CONSTANTS
    Requests = {r1, r2}
    MaxArrivals = 2
    Keys = {k1}
    NoKey = NoKey
    Models = {m1}
    Backends = {b1}
    NoBackend = NoBackend
    Kinds = {"json"}
    ReqLimit <- Caps
    TokLimit <- TwoTokens
    Elapsing = {"minute", "month"}
    Usages = {0, 2}
    Estimate = 1
    Delayed = {}
    ConcLimits = {0}
    SlotLimits = {1, 2}
    QueueEnabled = FALSE
    MaxConc = 1
    MaxSize = 1
    Switchable = {}
    Flapping = {}
INVARIANTS TokenAccounting RateWindowHolds QuotaOvershootBounded
\* The run ends when the last request is answered.
CHECK_DEADLOCK FALSE
