----------------------------- MODULE Admission -----------------------------
(***************************************************************************)
(* What lets requests in, within one process: the users and sessions of    *)
(* the admin API (AdminAccess), the limiter of an API key, for whose       *)
(* bucket handlers and the collector compete (RateBuckets), and the        *)
(* address and key of a request (ClientAddress).  They share no state.     *)
(***************************************************************************)
EXTENDS AdminAccess

CONSTANTS Buckets, Rpm, DailyReq, DailyTok, Minute, Day, Idle, MaxClock   \* of RateBuckets
CONSTANTS Machines, Trusted, Junk, Absent, ApiKeys, MaxEntries, MaxRelays   \* of ClientAddress

VARIABLES clock, map, fields, lpc, bucket, admits, spent, lost   \* of RateBuckets
VARIABLES sender, at, xff, inFirst, real, relays, verdict        \* of ClientAddress

limiter == <<clock, map, fields, lpc, bucket, admits, spent, lost>>

Limiter == INSTANCE RateBuckets WITH
    Callers <- Clients, MaxTime <- MaxClock,
    now <- clock, b <- fields, pc <- lpc, held <- bucket, tokens <- spent

Arrivals == INSTANCE ClientAddress WITH Keys <- ApiKeys

ASSUME LimiterAssumption == Limiter!WellFormed
ASSUME AddressAssumption == Arrivals!WellFormed

\* The in-process limiter keeps the day's count and the day's tokens of a key
\* across handlers, rolls of the window and collections of its bucket.
BucketKeepsTheDay == Limiter!DayIsCounted /\ Limiter!TokensAreRemembered

\* The address that is logged and matched with a key's lists is the sender's,
\* behind trusted proxies that append to one line and whatever the headers
\* say, and the key decides by it (ClientIP, Middleware).
SendersAreKnown == Arrivals!AddressIsTheSenders /\ Arrivals!KeyAdmitsSender

=============================================================================
