\* Two handlers and the collector over two midnights, two gateways that share
\* counters in Redis, two requests of one admin user, or a request behind proxies.
SPECIFICATION MCSpec
CONSTANTS
    Clients = {"c1", "c2"}
    Configured <- Bob
    Bodies = {"super_admin", "root"}
    BindToken = TRUE
    Legacy = TRUE
    Ttl = 1
    MaxHold = 1
    MaxTokens = 1
    MaxTime = 3
    MaxRestarts = 1
    Buckets = {"o1", "o2", "o3"}
    Rpm = 2
    DailyReq = 3
    DailyTok = 2
    Minute = 2
    Day = 5
    Idle = 2
    MaxClock = 11
    Machines = {"x1", "x2", "p1", "p2"}
    Trusted = {"p1", "p2"}
    Junk = "junk"
    Absent = "absent"
    ApiKeys <- KeyKinds
    MaxEntries = 2
    MaxRelays = 2
    Callers = {"c1", "c2"}
    Slots = {n1, n2}
    Setups <- Limited
    MinuteTicks = 2
    DayMinutes = 2
    MaxLate = 2
    MaxMinute = 2
    NoOne = NoOne
    None = None
SYMMETRY Alike
INVARIANTS SharedCapsHold BucketKeepsTheDay RolesAreRecent SendersAreKnown
PROPERTIES RefusedOnlyAtLimit LogoutIsFinal
