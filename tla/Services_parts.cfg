\* The balancer, the catalog and the log stores, each on its own: eight turns
\* and four sticky calls on three backends, chains of three aliases, one backend's
\* model beside an alias and a virtual model, and six records through a store of
\* three, read in pages.
SPECIFICATION MCSpec
CONSTANTS
    Backends = {"b1", "b2", "b3"}
    Keys = {"k1", "k2"}
    None = None
    MaxRecs = 3
    DefaultLimit = 2
    MaxLimit = 3
    Limits <- SomeLimits
    Wanted = {1, 2, 4, 5, 6}
    MaxCreated = 6
INVARIANTS ChoicesFollowPolicy NamesMeanWhatTheySay LogsAreKept
PROPERTIES StickyStays
