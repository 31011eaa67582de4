---------------------------- MODULE RedisLimiter ----------------------------
(***************************************************************************)
(* The limiter in Redis, shared by several gateways.  Its counters of one  *)
(* API key carry the minute or the day in their name, which the gateway    *)
(* computes from its own clock before it sends; a script checks and counts *)
(* a request in one step, a pipeline adds tokens in four.  Commands and    *)
(* answers may be lost or late, the client library sends a command again,  *)
(* and a gateway that gets no answer in time lets the request pass.        *)
(***************************************************************************)
EXTENDS Integers, Sequences, FiniteSets

CONSTANTS
    Callers,       \* handlers, each in a gateway of its own
    Slots,         \* connections: each has at most one command under way
    Setups,        \* the limits of the key and what else may differ: see Setup
    MinuteTicks,   \* the ticks of a minute
    DayMinutes,    \* the minutes of a day
    MaxLate,       \* a command runs at most so long after its minute
    MaxMinute,     \* bound: the last minute named
    NoOne

DayTicks == DayMinutes * MinuteTicks
Minutes  == 0 .. MaxMinute
DayOf(m) == m \div DayMinutes
Days     == {DayOf(m) : m \in Minutes}

Ops   == {"reserve", "add"}
Never == -1   \* no expiry

\* The limits, where zero is no limit; by how much each gateway's clock is ahead;
\* how often the client library sends again; bounds on the clock and on reports.
Setup == [rpm : Nat, tpm : Nat, dayReq : Nat, dayTok : Nat, lead : [Callers -> Nat],
          retries : Nat, horizon : Nat, reports : Nat]

\* What the results below ask of the constants.  The lead of a clock and the delay
\* of a command are together at most a day.
RedisWellFormed ==
    /\ IsFiniteSet(Callers) /\ IsFiniteSet(Slots) /\ NoOne \notin Callers
    /\ MinuteTicks \in Nat \ {0} /\ DayMinutes \in Nat \ {0} /\ MaxLate \in Nat /\ MaxMinute \in Nat
    /\ Setups \subseteq Setup
    /\ \A u \in Setups, c \in Callers :
           /\ u.lead[c] + MaxLate <= DayTicks
           /\ u.horizon + u.lead[c] < (MaxMinute + 1) * MinuteTicks

ASSUME RedisAssumption == RedisWellFormed

VARIABLES
    setup,     \* a member of Setups
    time,
    doing,     \* [Callers -> {"idle"} \cup Ops]
    min,       \* [Callers -> the minute in the names of its call]
    tries,     \* [Callers -> commands sent again in this call]
    net,       \* [Slots -> the command under way: [op, min, to, step], or Free]
    cMin, cTokMin,   \* [Minutes -> [n, exp]]
    cDay, cTokDay,   \* [Days -> [n, exp]]
    granted,   \* history: [Minutes -> when the script admitted a request, in order]
    unheard,   \* history: [Minutes -> requests counted whose answer was lost]
    adds,      \* history: [Minutes -> tokens charged to the minute]
    grantedOn, unheardOn, addsOn,   \* the same histories, by day: how many
    charged,   \* history: tokens charged to any minute
    reports    \* history: tokens that handlers reported

counters == <<cMin, cTokMin, cDay, cTokDay>>
admitted == <<granted, unheard, grantedOn, unheardOn>>
history  == <<admitted, adds, addsOn, charged, reports>>
calls    == <<doing, min, tries>>
redis    == <<setup, time, calls, net, counters, history>>

Unset == [n |-> 0, exp |-> 0]
Free  == [op |-> "none", min |-> 0, to |-> NoOne, step |-> 0]

RedisInit ==
    /\ setup \in Setups /\ time = 0
    /\ doing = [c \in Callers |-> "idle"] /\ min = [c \in Callers |-> 0]
    /\ tries = [c \in Callers |-> 0]
    /\ net = [s \in Slots |-> Free]
    /\ cMin = [m \in Minutes |-> Unset] /\ cTokMin = [m \in Minutes |-> Unset]
    /\ cDay = [d \in Days |-> Unset] /\ cTokDay = [d \in Days |-> Unset]
    /\ granted = [m \in Minutes |-> << >>]
    /\ unheard = [m \in Minutes |-> 0] /\ adds = [m \in Minutes |-> 0]
    /\ grantedOn = [d \in Days |-> 0] /\ unheardOn = [d \in Days |-> 0] /\ addsOn = [d \in Days |-> 0]
    /\ charged = 0 /\ reports = 0

-----------------------------------------------------------------------------
(* The gateway *)

\* keys: the minute of the gateway's clock; the day follows from it.
MinuteAt(c) == (time + setup.lead[c]) \div MinuteTicks

Send(s, c, op, m) ==
    /\ net[s] = Free
    /\ net' = [net EXCEPT ![s] = [op |-> op, min |-> m, to |-> c, step |-> 1]]

\* CheckAndReserve and AddTokens compute the names and send.
Call(c, op, s) ==
    /\ doing[c] = "idle"
    /\ reports' = IF op = "add" THEN reports + 1 ELSE reports
    /\ reports' <= setup.reports
    /\ doing' = [doing EXCEPT ![c] = op] /\ min' = [min EXCEPT ![c] = MinuteAt(c)]
    /\ tries' = [tries EXCEPT ![c] = 0]
    /\ Send(s, c, op, MinuteAt(c))
    /\ UNCHANGED <<setup, time, counters, admitted, adds, addsOn, charged>>

\* The client library sees the connection fail and sends the command again.
Retry(c, s) ==
    /\ doing[c] # "idle" /\ tries[c] < setup.retries
    /\ tries' = [tries EXCEPT ![c] = @ + 1]
    /\ Send(s, c, doing[c], min[c])
    /\ UNCHANGED <<setup, time, doing, min, counters, history>>

\* What is left of c's commands has nobody to answer to.
Orphaned(q, c) == [s \in Slots |-> IF q[s].to = c THEN [q[s] EXCEPT !.to = NoOne] ELSE q[s]]

\* The call of c is over.
Return(c, q) ==
    /\ doing' = [doing EXCEPT ![c] = "idle"]
    /\ min' = [min EXCEPT ![c] = 0] /\ tries' = [tries EXCEPT ![c] = 0]
    /\ net' = Orphaned(q, c)

\* 500 ms have passed or no retry is left: the request passes unchecked, and the
\* tokens are not reported again.
GiveUp(c) ==
    /\ doing[c] # "idle"
    /\ Return(c, net)
    /\ UNCHANGED <<setup, time, counters, history>>

-----------------------------------------------------------------------------
(* The server *)

\* The command of slot s is over, and its answer reaches the handler, or nobody.
Done(s) == [net EXCEPT ![s] = Free]
Heard(s) == net[s].to # NoOne /\ Return(net[s].to, Done(s))
Unanswered(s) == net' = Done(s) /\ UNCHANGED calls

Bump(counter, ttl) == [n |-> counter.n + 1, exp |-> time + ttl]

\* Mutant: the day's counters live as long as the day.
OneDay == DayTicks

\* The day's counters live 48 hours after they were last counted up.
DayTtl == 2 * DayTicks

\* Mutant: a limit is reached one too early.
OverEarly(limit, counter) == limit > 0 /\ counter.n + 1 >= limit

\* A limit is set and reached.
Over(limit, counter) == limit > 0 /\ counter.n >= limit

\* reserveScript: which limit refuses.
Rejects(m) ==
    \/ Over(setup.rpm, cMin[m])           \/ Over(setup.tpm, cTokMin[m])
    \/ Over(setup.dayReq, cDay[DayOf(m)]) \/ Over(setup.dayTok, cTokDay[DayOf(m)])

\* reserveScript: what is counted.
Count(m) ==
    /\ cMin' = [cMin EXCEPT ![m] = Bump(@, MinuteTicks)]
    /\ cDay' = [cDay EXCEPT ![DayOf(m)] = Bump(@, DayTtl)]

\* The script refuses.
Refuse(s) ==
    /\ Rejects(net[s].min)
    /\ Heard(s) \/ Unanswered(s)
    /\ UNCHANGED <<cMin, cDay, admitted>>

\* The script admits, and the handler hears of it.
Admit(s) ==
    LET m == net[s].min IN
    /\ ~Rejects(m) /\ Count(m)
    /\ Heard(s)
    /\ granted' = [granted EXCEPT ![m] = Append(@, time)]
    /\ grantedOn' = [grantedOn EXCEPT ![DayOf(m)] = @ + 1]
    /\ UNCHANGED <<unheard, unheardOn>>

\* The script admits, and nobody hears of it.
AdmitUnheard(s) ==
    LET m == net[s].min IN
    /\ ~Rejects(m) /\ Count(m)
    /\ Unanswered(s)
    /\ unheard' = [unheard EXCEPT ![m] = @ + 1]
    /\ unheardOn' = [unheardOn EXCEPT ![DayOf(m)] = @ + 1]
    /\ UNCHANGED <<granted, grantedOn>>

\* The script runs.
Reserve(s) ==
    /\ net[s].op = "reserve"
    /\ Refuse(s) \/ Admit(s) \/ AdmitUnheard(s)
    /\ UNCHANGED <<setup, time, cTokMin, cTokDay, adds, addsOn, charged, reports>>

\* INCRBY keeps the expiry of a counter and gives a new one none.
Incr(counter) == [n |-> counter.n + 1, exp |-> IF counter.n = 0 THEN Never ELSE counter.exp]

\* EXPIRE of a counter that is there.
Expire(counter, ttl) == IF counter.n = 0 THEN counter ELSE [counter EXCEPT !.exp = time + ttl]

\* One command of the pipeline of AddTokens.
ChargeMinute(m) ==
    /\ cTokMin' = [cTokMin EXCEPT ![m] = Incr(@)]
    /\ adds' = [adds EXCEPT ![m] = @ + 1]
    /\ addsOn' = [addsOn EXCEPT ![DayOf(m)] = @ + 1]
    /\ charged' = charged + 1
    /\ UNCHANGED cTokDay

Command(step, m) ==
    \/ step = 1 /\ ChargeMinute(m)
    \/ step = 2 /\ cTokMin' = [cTokMin EXCEPT ![m] = Expire(@, MinuteTicks)]
                /\ UNCHANGED <<cTokDay, adds, addsOn, charged>>
    \/ step = 3 /\ cTokDay' = [cTokDay EXCEPT ![DayOf(m)] = Incr(@)]
                /\ UNCHANGED <<cTokMin, adds, addsOn, charged>>
    \/ step = 4 /\ cTokDay' = [cTokDay EXCEPT ![DayOf(m)] = Expire(@, DayTtl)]
                /\ UNCHANGED <<cTokMin, adds, addsOn, charged>>

\* Other commands run between those of a pipeline; the last one answers it.
Pipeline(s) ==
    /\ net[s].op = "add"
    /\ Command(net[s].step, net[s].min)
    /\ \/ /\ net[s].step < 4
          /\ net' = [net EXCEPT ![s].step = @ + 1] /\ UNCHANGED calls
       \/ net[s].step = 4 /\ (Heard(s) \/ Unanswered(s))
    /\ UNCHANGED <<setup, time, cMin, cDay, admitted, reports>>

\* A connection breaks: the commands not yet run are lost.
Lose(s) ==
    /\ net[s] # Free
    /\ Unanswered(s)
    /\ UNCHANGED <<setup, time, counters, history>>

Kept(f) == [k \in DOMAIN f |-> IF f[k].exp \in 0 .. time + 1 THEN Unset ELSE f[k]]

\* A command that names minute m may run at the time t.
InTime(m, t) == t < (m + 1) * MinuteTicks + MaxLate

\* Time passes and counters expire; calls and commands last 500 ms and not longer.
RedisTick ==
    /\ time < setup.horizon /\ time' = time + 1
    /\ \A c \in Callers : doing[c] # "idle" => InTime(min[c], time + 1)
    /\ \A s \in Slots : net[s] # Free => InTime(net[s].min, time + 1)
    /\ cMin' = Kept(cMin) /\ cTokMin' = Kept(cTokMin)
    /\ cDay' = Kept(cDay) /\ cTokDay' = Kept(cTokDay)
    /\ UNCHANGED <<setup, calls, net, history>>

RedisNext ==
    \/ \E c \in Callers, op \in Ops, s \in Slots : Call(c, op, s)
    \/ \E c \in Callers, s \in Slots : Retry(c, s)
    \/ \E c \in Callers : GiveUp(c)
    \/ \E s \in Slots : Reserve(s) \/ Pipeline(s) \/ Lose(s)
    \/ RedisTick

RedisSpec == RedisInit /\ [][RedisNext]_redis

-----------------------------------------------------------------------------
(* Properties *)

Counter == [n : Nat, exp : Nat \cup {Never}]
Sent    == [op : Ops \cup {"none"}, min : Minutes, to : Callers \cup {NoOne}, step : 0 .. 4]

\* The values of the variables.
RedisTypes ==
    /\ setup \in Setups /\ time \in Nat
    /\ doing \in [Callers -> {"idle"} \cup Ops] /\ min \in [Callers -> Minutes]
    /\ tries \in [Callers -> Nat]
    /\ net \in [Slots -> Sent]
    /\ cMin \in [Minutes -> Counter] /\ cTokMin \in [Minutes -> Counter]
    /\ cDay \in [Days -> Counter] /\ cTokDay \in [Days -> Counter]
    /\ granted \in [Minutes -> Seq(Nat)]
    /\ unheard \in [Minutes -> Nat] /\ adds \in [Minutes -> Nat]
    /\ grantedOn \in [Days -> Nat] /\ unheardOn \in [Days -> Nat] /\ addsOn \in [Days -> Nat]
    /\ charged \in Nat /\ reports \in Nat

\* Within any sixty seconds the script admits at most rpm requests under one
\* minute's name, although the counter expires sixty seconds after its last
\* request and late commands name a minute that is over: rpm admissions after
\* another one, sixty seconds have passed.
MinuteCapHolds ==
    setup.rpm > 0 => \A m \in Minutes : \A i \in 1 .. Len(granted[m]) :
        i + setup.rpm <= Len(granted[m]) =>
            granted[m][i + setup.rpm] >= granted[m][i] + MinuteTicks

\* Under one day's name the script admits at most requests_per_day requests, by
\* whichever gateway and however late: the counter outlives its commands.
DayCapHolds ==
    setup.dayReq > 0 => \A d \in Days : grantedOn[d] <= setup.dayReq

\* The day's counter is the number of requests the script admitted and of those
\* it counted for nobody, as long as it exists.
DayIsExact ==
    \A d \in Days : cDay[d].n > 0 => cDay[d].n = grantedOn[d] + unheardOn[d]

\* A pipeline that is cut charges the minute and not the day, never the reverse.
MinuteIsChargedFirst ==
    \A d \in Days : cTokDay[d].n <= addsOn[d]

\* Reported tokens are charged at most once for each time they were sent.
ChargedPerSending == charged <= (1 + setup.retries) * reports

\* The caps that several gateways share through Redis hold for what the script
\* admits, within any sixty seconds under each minute's name and over each
\* day, and the counters are exact, whatever is lost, sent again or late
\* (reserveScript, AddTokens).
SharedCapsHold ==
    /\ RedisTypes /\ MinuteCapHolds /\ DayCapHolds /\ DayIsExact
    /\ MinuteIsChargedFirst /\ ChargedPerSending

\* The script's answer to c is a refusal.
Refuses(c) ==
    /\ doing[c] = "reserve" /\ doing'[c] = "idle" /\ granted' = granted
    /\ \E s \in Slots : net[s] # Free /\ net'[s] = Free

\* Requests admitted, requests counted whose answer was lost, or tokens charged
\* make up a limit for the minute m or its day.
AtLimit(m) ==
    \/ setup.rpm > 0 /\ Len(granted[m]) + unheard[m] >= setup.rpm
    \/ setup.tpm > 0 /\ adds[m] >= setup.tpm
    \/ setup.dayReq > 0 /\ grantedOn[DayOf(m)] + unheardOn[DayOf(m)] >= setup.dayReq
    \/ setup.dayTok > 0 /\ addsOn[DayOf(m)] >= setup.dayTok

\* A request is refused only at a limit.
RefusalIsDue == \A c \in Callers : Refuses(c) => AtLimit(min[c])

\* The script refuses a request only if admitted requests, requests it counted
\* whose answer was lost, and charged tokens make up a limit.
RefusedOnlyAtLimit == [][RefusalIsDue]_redis

=============================================================================
