----------------------------- MODULE RateBuckets -----------------------------
(***************************************************************************)
(* The in-process limiter of one key: its bucket is looked up under the    *)
(* map's lock and used under its own, and a collector removes buckets that *)
(* have been idle.  Gateway.tla has the limiter's verdicts as one step;    *)
(* here are the steps between the two locks.                               *)
(***************************************************************************)
EXTENDS Integers, FiniteSets

CONSTANTS
    Callers,      \* handlers that use the limiter
    Buckets,      \* bucket objects
    Rpm, DailyReq, DailyTok,
    Minute, Day,  \* in ticks
    Idle,         \* the collector's five minutes, in ticks
    MaxTime,      \* bound on the clock
    None

\* What the results below ask of the constants.
WellFormed ==
    /\ {Rpm, DailyReq, DailyTok, Minute, Day, Idle} \subseteq Nat \ {0}
    /\ None \notin Buckets /\ IsFiniteSet(Callers)

VARIABLES
    now,
    map,      \* the key's bucket in the map, or None
    b,        \* [Buckets -> the bucket's fields]
    pc,       \* [Callers -> {"idle", "reserve", "add"}]
    held,     \* [Callers -> the bucket that get returned, or None]
    admits,   \* requests admitted since midnight
    tokens,   \* tokens added since midnight
    lost      \* a bucket was collected today while a handler held it

vars == <<now, map, b, pc, held, admits, tokens, lost>>

DayOf(t) == t \div Day

Fresh == [window |-> now, day |-> DayOf(now), count |-> 0, dayCount |-> 0, dayTokens |-> 0]

Init ==
    /\ now = 0 /\ map = None
    /\ b = [o \in Buckets |-> [window |-> 0, day |-> 0, count |-> 0, dayCount |-> 0, dayTokens |-> 0]]
    /\ pc = [c \in Callers |-> "idle"]
    /\ held = [c \in Callers |-> None]
    /\ admits = 0 /\ tokens = 0 /\ lost = FALSE

\* get: the bucket in the map, or a new one.
Get(c, op) ==
    /\ pc[c] = "idle"
    /\ pc' = [pc EXCEPT ![c] = op]
    /\ \/ /\ map # None
          /\ held' = [held EXCEPT ![c] = map]
          /\ UNCHANGED <<map, b>>
       \/ /\ map = None
          /\ \E o \in Buckets \ {held[d] : d \in Callers} :
                /\ map' = o
                /\ b' = [b EXCEPT ![o] = Fresh]
                /\ held' = [held EXCEPT ![c] = o]
    /\ UNCHANGED <<now, admits, tokens, lost>>

\* rollLocked
Roll(x) ==
    LET y == IF now - x.window >= Minute THEN [x EXCEPT !.window = now, !.count = 0] ELSE x
    IN  IF x.day # DayOf(now) THEN [y EXCEPT !.day = DayOf(now), !.dayCount = 0, !.dayTokens = 0] ELSE y

Return(c) == pc' = [pc EXCEPT ![c] = "idle"] /\ held' = [held EXCEPT ![c] = None]

\* CheckAndReserve, after get.
Reserve(c) ==
    /\ pc[c] = "reserve"
    /\ LET x  == Roll(b[held[c]])
           ok == x.count < Rpm /\ x.dayCount < DailyReq /\ x.dayTokens < DailyTok
       IN  /\ b' = [b EXCEPT ![held[c]] =
                       IF ok THEN [x EXCEPT !.count = @ + 1, !.dayCount = @ + 1] ELSE x]
           /\ admits' = IF ok THEN admits + 1 ELSE admits
    /\ Return(c)
    /\ UNCHANGED <<now, map, tokens, lost>>

\* AddTokens, after get.
AddTokens(c) ==
    /\ pc[c] = "add"
    /\ LET x == Roll(b[held[c]])
       IN  b' = [b EXCEPT ![held[c]] = [x EXCEPT !.dayTokens = x.dayTokens + 1]]
    /\ tokens' = tokens + 1
    /\ Return(c)
    /\ UNCHANGED <<now, map, admits, lost>>

\* Mutant: any idle bucket goes.
CollectAll ==
    /\ map # None
    /\ now - b[map].window > Idle
    /\ map' = None
    /\ lost' = (lost \/ \E c \in Callers : held[c] = map)
    /\ UNCHANGED <<now, b, pc, held, admits, tokens>>

\* gcLoop: drop a bucket that is idle and whose counters of the day are zero.
Collect ==
    /\ map # None
    /\ now - b[map].window > Idle /\ b[map].dayCount = 0 /\ b[map].dayTokens = 0
    /\ map' = None
    /\ lost' = (lost \/ \E c \in Callers : held[c] = map)
    /\ UNCHANGED <<now, b, pc, held, admits, tokens>>

\* The clock; at midnight the day's totals begin anew.  A handler is between
\* its two locks for much less than a tick.
Tick ==
    /\ now < MaxTime /\ now' = now + 1
    /\ \A c \in Callers : pc[c] = "idle"
    /\ \/ DayOf(now') = DayOf(now) /\ UNCHANGED <<admits, tokens, lost>>
       \/ DayOf(now') # DayOf(now) /\ admits' = 0 /\ tokens' = 0 /\ lost' = FALSE
    /\ UNCHANGED <<map, b, pc, held>>

\* Tokens are added up to the day's limit: a bound.
Next ==
    \/ \E c \in Callers : Get(c, "reserve") \/ Reserve(c)
    \/ \E c \in Callers : (tokens < DailyTok /\ Get(c, "add")) \/ AddTokens(c)
    \/ Collect \/ Tick

Spec == Init /\ [][Next]_vars

-----------------------------------------------------------------------------
(* Properties *)

\* Counters stay within the limits they are checked against, and a bucket is
\* held exactly between its two locks.
TypeOK ==
    /\ map \in Buckets \cup {None}
    /\ \A c \in Callers : (pc[c] = "idle") = (held[c] = None)
    /\ \A o \in Buckets : b[o].count \in 0 .. Rpm /\ b[o].dayCount \in 0 .. DailyReq
                       /\ b[o].day <= DayOf(now)

\* At most DailyReq requests are admitted between two midnights; if the
\* collector dropped a bucket between a handler's two locks, at most one more
\* per handler.
DailyLimitHolds == admits <= DailyReq + IF lost THEN Cardinality(Callers) ELSE 0

\* The key's bucket knows all tokens added since midnight, once it is used
\* today, unless the collector dropped a bucket between a handler's two locks.
TokensAreRemembered ==
    ~lost /\ map # None /\ b[map].day = DayOf(now) => b[map].dayTokens = tokens

\* The day's requests are counted across handlers, rolls and collections.
DayIsCounted == TypeOK /\ DailyLimitHolds

=============================================================================
