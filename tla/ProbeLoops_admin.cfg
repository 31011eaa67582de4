\* Two admin requests at a time, or one, under the fairness of the scheduler.
SPECIFICATION LoopsSpec
CONSTANTS
    Admins = {a1, a2}
    Objects = {o1, o2}
    Loops = {g1, g2}
    KeyObjects = {k1}
    Hashes = {h1}
    Recreate = TRUE
    None = None
    Loop = loop
    Visitors = {}
    FailThr = 2
    SuccThr = 2
    AllowDegraded = TRUE
    Maintainable = TRUE
    Toggleable = TRUE
INVARIANTS EveryLoopCanBeStopped ChannelsAreClosedOnce DeleteEndsProbing
PROPERTIES EveryLoopEnds
