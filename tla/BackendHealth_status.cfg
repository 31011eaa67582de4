\* The loop and an admin check probe one backend while it is disabled,
\* enabled and put into maintenance, under the fairness of the ticker.
SPECIFICATION HealthSpec
CONSTANTS
    Admins = {}
    Objects = {b1}
    Loops = {g1}
    KeyObjects = {k1}
    Hashes = {h1}
    Recreate = TRUE
    None = None
    Loop = loop
    Visitors = {v1}
    FailThr = 2
    SuccThr = 2
    AllowDegraded = TRUE
    Maintainable = TRUE
    Toggleable = TRUE
INVARIANTS StatusFollowsStreaks ObserversFollow
PROPERTIES StatusConverges
