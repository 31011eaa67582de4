\* Three admin requests at a time on one key ID, or one.  A request that needs a
\* new hash waits if stale index entries hold them all, so the model may stop.
SPECIFICATION KeysSpec
SYMMETRY Symmetry
CONSTANTS
    Admins = {a1, a2, a3}
    KeyObjects = {o1, o2, o3}
    Hashes = {h1, h2, h3, h4}
    Objects = {b1}
    Loops = {g1}
    None = None
    Recreate = TRUE
    Loop = loop
    Visitors = {}
    FailThr = 2
    SuccThr = 2
    AllowDegraded = TRUE
    Maintainable = TRUE
    Toggleable = TRUE
INVARIANTS ListedKeyIsIndexed SequentialIndexIsExact
CHECK_DEADLOCK FALSE
