\* One backend that flaps for longer than a cooldown and a shutdown of the
\* notifier, or three requests and a shutdown of the process.
SPECIFICATION MCSpec
CONSTANTS
    Backends = {b1}
    NotifyOn = {"backend_unhealthy", "backend_recovered"}
    Cap = 2
    Cooldown = 2
    MaxTime = 3
    MaxDoubtful = 1
    None = None
    Requests = {r1, r2, r3}
    MaxQueue = 2
INVARIANTS MailIsLimited SpansAreAccounted
PROPERTIES SilencedOnlyByMail ShutdownReturns
