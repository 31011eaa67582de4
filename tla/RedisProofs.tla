---------------------------- MODULE RedisProofs ----------------------------
(***************************************************************************)
(* Proofs about the limiter in Redis: the caps that gateways share hold    *)
(* for what the script admits, tokens are charged at most once for each    *)
(* time they are sent, and refusals are due, for any gateways,             *)
(* connections, limits and retries, and whatever is lost or late.          *)
(***************************************************************************)
EXTENDS RedisLimiter, FiniteSetTheorems, TLAPS

-----------------------------------------------------------------------------
(* Minutes and days *)

\* Products grow with their factors.
LEMMA TimesGrows == ASSUME NEW a \in Nat, NEW b \in Nat, NEW k \in Nat, a <= b PROVE a * k <= b * k
  <1>1. b * k = a * k + (b - a) * k
    BY SMT
  <1>2. (b - a) \in Nat /\ a * k \in Nat /\ b * k \in Nat
    BY SMT
  <1>3. (b - a) * k \in Nat
    BY <1>2, SMT
  <1> QED
    BY <1>1, <1>2, <1>3, SMT

\* The quotient is a number between its neighbours.
LEMMA Quotient ==
    ASSUME NEW x \in Nat, NEW k \in Nat \ {0}
    PROVE  /\ x \div k \in Nat
           /\ (x \div k) * k <= x
           /\ x < ((x \div k) + 1) * k
  BY SMT

LEMMA TicksType == /\ MinuteTicks \in Nat \ {0} /\ DayMinutes \in Nat \ {0} /\ MaxLate \in Nat /\ MaxMinute \in Nat
                   /\ DayTicks \in Nat
  BY RedisAssumption DEF RedisWellFormed, DayTicks

LEMMA TtlType == MinuteTicks \in Nat /\ DayTtl \in Nat
  BY TicksType DEF DayTtl

\* A day has its minutes: it starts with the first and ends with the last.
LEMMA DayHasMinutes ==
    ASSUME NEW m \in Nat
    PROVE  /\ DayOf(m) \in Nat
           /\ DayOf(m) * DayTicks <= m * MinuteTicks
           /\ (m + 1) * MinuteTicks <= (DayOf(m) + 1) * DayTicks
  <1> DEFINE q == m \div DayMinutes
  <1>1. q \in Nat /\ q * DayMinutes <= m /\ m + 1 <= (q + 1) * DayMinutes
    BY TicksType, Quotient
  <1> HIDE DEF q
  <1>2. q * DayMinutes \in Nat /\ (q + 1) * DayMinutes \in Nat
    BY <1>1, TicksType
  <1>3. (q * DayMinutes) * MinuteTicks <= m * MinuteTicks
    BY <1>1, <1>2, TicksType, TimesGrows
  <1>4. (m + 1) * MinuteTicks <= ((q + 1) * DayMinutes) * MinuteTicks
    BY <1>1, <1>2, TicksType, TimesGrows
  <1>5. (q * DayMinutes) * MinuteTicks = q * DayTicks
    BY <1>1, TicksType DEF DayTicks
  <1>6. ((q + 1) * DayMinutes) * MinuteTicks = (q + 1) * DayTicks
    BY <1>1, TicksType DEF DayTicks
  <1>7. DayOf(m) = q
    BY DEF DayOf, q
  <1> QED
    BY <1>1, <1>3, <1>4, <1>5, <1>6, <1>7

\* The time t is before the end of the day d and of the commands that name it.
Open(d, t) == t < (d + 1) * DayTicks + MaxLate

\* The minute m has begun at t by some clock, and late commands have time.
Begun(m, t) == m * MinuteTicks + MaxLate <= t + DayTicks

\* A command that may run names a day that is open.
LEMMA OpenInTime == ASSUME NEW m \in Minutes, NEW t \in Nat, InTime(m, t) PROVE Open(DayOf(m), t)
  <1>1. m \in Nat
    BY TicksType DEF Minutes
  <1>2. (m + 1) * MinuteTicks \in Nat /\ DayOf(m) \in Nat /\ (DayOf(m) + 1) * DayTicks \in Nat
    BY <1>1, TicksType, DayHasMinutes
  <1> QED
    BY <1>1, <1>2, TicksType, DayHasMinutes DEF Open, InTime

\* What a command counts lives until its day is closed.
LEMMA OutlivesDay ==
    ASSUME NEW m \in Minutes, NEW t \in Nat, Begun(m, t)
    PROVE  (DayOf(m) + 1) * DayTicks + MaxLate <= t + DayTtl
  <1>1. m \in Nat
    BY TicksType DEF Minutes
  <1>2. m * MinuteTicks \in Nat /\ DayOf(m) \in Nat /\ DayOf(m) * DayTicks \in Nat
    BY <1>1, TicksType, DayHasMinutes
  <1>3. (DayOf(m) + 1) * DayTicks = DayOf(m) * DayTicks + DayTicks
    BY <1>2, TicksType
  <1>4. DayOf(m) * DayTicks <= m * MinuteTicks
    BY <1>1, DayHasMinutes
  <1>5. DayTtl = DayTicks + DayTicks
    BY TicksType DEF DayTtl
  <1> QED
    BY <1>2, <1>3, <1>4, <1>5, TicksType DEF Begun

\* A day that is closed stays closed, and a minute that has begun has begun.
LEMMA TimePasses ==
    ASSUME NEW d \in Nat, NEW m \in Nat, NEW t \in Nat
    PROVE  /\ Open(d, t + 1) => Open(d, t)
           /\ Begun(m, t) => Begun(m, t + 1)
  <1>1. m * MinuteTicks \in Nat /\ (d + 1) * DayTicks \in Nat
    BY TicksType
  <1> QED
    BY <1>1, TicksType DEF Open, Begun

\* keys: the minute that a gateway names has begun, and its commands may run.
LEMMA NamedMinute ==
    ASSUME NEW c \in Callers, setup \in Setups, time \in Nat, time <= setup.horizon
    PROVE  /\ MinuteAt(c) \in Minutes
           /\ InTime(MinuteAt(c), time)
           /\ Begun(MinuteAt(c), time)
  <1>1. /\ setup.lead[c] \in Nat /\ setup.horizon \in Nat
        /\ setup.lead[c] + MaxLate <= DayTicks
        /\ setup.horizon + setup.lead[c] < (MaxMinute + 1) * MinuteTicks
    BY RedisAssumption DEF RedisWellFormed, Setup
  <1> DEFINE x == time + setup.lead[c]
             q == x \div MinuteTicks
  <1>2. x \in Nat /\ x < (MaxMinute + 1) * MinuteTicks
    BY <1>1, TicksType
  <1>3. q \in Nat /\ q * MinuteTicks <= x /\ x < (q + 1) * MinuteTicks
    BY <1>2, TicksType, Quotient, Zenon
  <1>4. MinuteAt(c) = q
    BY DEF MinuteAt
  <1>5. x = time + setup.lead[c]
    OBVIOUS
  <1> HIDE DEF x, q
  <1>6. q * MinuteTicks \in Nat /\ (q + 1) * MinuteTicks \in Nat /\ (MaxMinute + 1) * MinuteTicks \in Nat
    BY <1>3, TicksType
  <1>7. ~(MaxMinute + 1 <= q)
    <2> SUFFICES ASSUME MaxMinute + 1 <= q PROVE FALSE
      OBVIOUS
    <2>1. (MaxMinute + 1) * MinuteTicks <= q * MinuteTicks
      BY <1>3, TicksType, TimesGrows
    <2> QED
      BY <2>1, <1>2, <1>3, <1>6
  <1>8. q \in Minutes
    BY <1>3, <1>7, TicksType DEF Minutes
  <1>9. InTime(q, time)
    BY <1>1, <1>3, <1>5, <1>6, TicksType DEF InTime
  <1>10. Begun(q, time)
    BY <1>1, <1>3, <1>5, <1>6, TicksType DEF Begun
  <1> QED
    BY <1>4, <1>8, <1>9, <1>10

-----------------------------------------------------------------------------
(* Calls and commands *)

\* A command x is of the call it answers to, and may run; a slot without a
\* command is free.
Proper(x) ==
    /\ x.op = "none" => x = Free
    /\ x.op # "none" => x.step \in 1 .. 4 /\ InTime(x.min, time) /\ Begun(x.min, time)
    /\ x.to # NoOne => x.op = doing[x.to] /\ x.min = min[x.to]

\* The inductive invariant of calls and commands.
CallInv ==
    /\ setup \in Setups /\ time \in Nat /\ time <= setup.horizon
    /\ doing \in [Callers -> {"idle"} \cup Ops] /\ min \in [Callers -> Minutes]
    /\ tries \in [Callers -> Nat]
    /\ net \in [Slots -> Sent]
    /\ \A c \in Callers : doing[c] # "idle" => InTime(min[c], time) /\ Begun(min[c], time)
    /\ \A s \in Slots : Proper(net[s])

\* A free slot, and a command that has lost its caller.
LEMMA FreeType == Free \in Sent /\ Free.op = "none" /\ Free.to = NoOne /\ Free.min = 0 /\ Free.step = 0
  BY TicksType DEF Free, Sent, Minutes

LEMMA OrphanType ==
    ASSUME NEW x \in Sent
    PROVE  /\ [x EXCEPT !.to = NoOne] \in Sent
           /\ [x EXCEPT !.to = NoOne].op = x.op /\ [x EXCEPT !.to = NoOne].min = x.min
           /\ [x EXCEPT !.to = NoOne].step = x.step /\ [x EXCEPT !.to = NoOne].to = NoOne
           /\ x.to = NoOne => [x EXCEPT !.to = NoOne] = x
  BY DEF Sent

LEMMA CallInit == RedisInit => CallInv
  <1> SUFFICES ASSUME RedisInit PROVE CallInv
    OBVIOUS
  <1>1. 0 \in Minutes
    BY TicksType DEF Minutes
  <1>2. setup.horizon \in Nat
    BY RedisAssumption DEF RedisWellFormed, RedisInit, Setup
  <1>3. \A s \in Slots : Proper(net[s])
    BY FreeType DEF RedisInit, Proper
  <1> QED
    BY <1>1, <1>2, <1>3, FreeType DEF RedisInit, CallInv, Ops

\* A command is sent: those under way stay as they are.
LEMMA SendStep ==
    ASSUME CallInv, NEW c \in Callers, NEW s \in Slots, NEW op \in Ops, NEW m \in Minutes,
           Send(s, c, op, m), InTime(m, time), Begun(m, time),
           doing[c] = "idle" \/ (doing[c] = op /\ min[c] = m),
           doing' = [doing EXCEPT ![c] = op], min' = [min EXCEPT ![c] = m],
           tries' \in [Callers -> Nat], UNCHANGED <<setup, time>>
    PROVE  CallInv'
  <1> DEFINE x == [op |-> op, min |-> m, to |-> c, step |-> 1]
  <1>1. x \in Sent /\ x.op = op /\ x.min = m /\ x.to = c /\ x.step = 1
    BY DEF Sent
  <1>2. net' = [net EXCEPT ![s] = x]
    BY DEF Send
  <1> HIDE DEF x
  <1>3. net' \in [Slots -> Sent] /\ net'[s] = x /\ \A r \in Slots : r # s => net'[r] = net[r]
    BY <1>1, <1>2 DEF CallInv
  <1>4. doing' \in [Callers -> {"idle"} \cup Ops] /\ min' \in [Callers -> Minutes]
    BY DEF CallInv
  <1>5. doing'[c] = op /\ min'[c] = m /\ op # "none" /\ op # "idle" /\ c # NoOne
    BY RedisAssumption DEF CallInv, Ops, RedisWellFormed
  <1>6. \A o \in Callers : o # c => doing'[o] = doing[o] /\ min'[o] = min[o]
    BY DEF CallInv
  <1>7. \A o \in Callers : doing'[o] # "idle" => InTime(min'[o], time) /\ Begun(min'[o], time)
    BY <1>5, <1>6 DEF CallInv
  <1>8. Proper(x)'
    BY <1>1, <1>5 DEF Proper, InTime, Begun, CallInv
  <1>9. ASSUME NEW r \in Slots, r # s PROVE Proper(net[r])'
    <2>1. Proper(net[r]) /\ net[r] \in Sent /\ net'[r] = net[r]
      BY <1>3, <1>9 DEF CallInv
    <2>2. CASE net[r].to = c
      <3>1. net[r].op = doing[c] /\ net[r].min = min[c]
        BY <2>1, <2>2, <1>5 DEF Proper
      <3>2. doing[c] # "idle"
        BY <3>1, <2>1 DEF Sent, Ops
      <3>3. net[r].op = doing'[c] /\ net[r].min = min'[c]
        BY <3>1, <3>2, <1>5
      <3> QED
        BY <2>1, <2>2, <3>3 DEF Proper, InTime, Begun
    <2>3. CASE net[r].to # c
      <3>1. net[r].to # NoOne => net[r].to \in Callers
        BY <2>1 DEF Sent
      <3> QED
        BY <2>1, <2>3, <3>1, <1>6 DEF Proper, InTime, Begun
    <2> QED
      BY <2>2, <2>3
  <1>10. \A r \in Slots : Proper(net[r])'
    BY <1>3, <1>8, <1>9
  <1> QED
    BY <1>3, <1>4, <1>7, <1>10 DEF CallInv, InTime, Begun

\* A command is over, or was not there.
LEMMA DoneProper ==
    ASSUME CallInv, NEW s \in Slots
    PROVE  /\ Done(s) \in [Slots -> Sent]
           /\ Done(s)[s] = Free
           /\ \A r \in Slots : r # s => Done(s)[r] = net[r]
           /\ \A r \in Slots : Proper(Done(s)[r])
  <1>1. net \in [Slots -> Sent] /\ Proper(Free)
    BY FreeType DEF CallInv, Proper
  <1>2. Done(s) \in [Slots -> Sent] /\ Done(s)[s] = Free /\ \A r \in Slots : r # s => Done(s)[r] = net[r]
    BY <1>1, FreeType DEF Done
  <1> QED
    BY <1>1, <1>2 DEF CallInv

\* A call returns: its commands that are left answer to nobody.
LEMMA ReturnStep ==
    ASSUME CallInv, NEW c \in Callers, NEW q \in [Slots -> Sent], \A r \in Slots : Proper(q[r]),
           Return(c, q), UNCHANGED <<setup, time>>
    PROVE  CallInv'
  <1>1. 0 \in Minutes /\ c # NoOne
    BY TicksType, RedisAssumption DEF Minutes, RedisWellFormed
  <1>2. /\ doing' \in [Callers -> {"idle"} \cup Ops] /\ min' \in [Callers -> Minutes] /\ tries' \in [Callers -> Nat]
        /\ doing'[c] = "idle" /\ \A o \in Callers : o # c => doing'[o] = doing[o] /\ min'[o] = min[o]
    BY <1>1 DEF Return, CallInv
  <1>3. ASSUME NEW r \in Slots
        PROVE  net'[r] \in Sent /\ Proper(net[r])'
    <2>1. q[r] \in Sent /\ Proper(q[r])
      OBVIOUS
    <2>2. CASE q[r].to = c
      <3>1. net'[r] = [q[r] EXCEPT !.to = NoOne]
        BY <2>2 DEF Return, Orphaned
      <3>2. /\ net'[r] \in Sent /\ net'[r].op = q[r].op /\ net'[r].min = q[r].min
            /\ net'[r].step = q[r].step /\ net'[r].to = NoOne
        BY <2>1, <3>1, OrphanType, Zenon
      <3>3. q[r].op # "none"
        BY <2>1, <2>2, <1>1, FreeType, Zenon DEF Proper
      <3> QED
        BY <2>1, <3>2, <3>3 DEF Proper, InTime, Begun
    <2>3. CASE q[r].to # c
      <3>1. net'[r] = q[r]
        BY <2>3 DEF Return, Orphaned
      <3>2. q[r].to # NoOne => q[r].to \in Callers
        BY <2>1 DEF Sent
      <3> QED
        BY <2>1, <2>3, <3>1, <3>2, <1>2, Zenon DEF Proper, InTime, Begun
    <2> QED
      BY <2>2, <2>3
  <1>4. net' \in [Slots -> Sent]
    BY <1>3 DEF Return, Orphaned
  <1>5. \A o \in Callers : doing'[o] # "idle" => InTime(min'[o], time) /\ Begun(min'[o], time)
    BY <1>2 DEF CallInv
  <1> QED
    BY <1>2, <1>3, <1>4, <1>5 DEF CallInv, InTime, Begun

\* Commands change, and calls do not.
LEMMA NetStep ==
    ASSUME CallInv, net' \in [Slots -> Sent], \A r \in Slots : Proper(net'[r]),
           UNCHANGED <<setup, time, calls>>
    PROVE  CallInv'
  <1>1. \A r \in Slots : Proper(net[r])'
    BY DEF Proper, InTime, Begun, calls
  <1> QED
    BY <1>1 DEF CallInv, InTime, Begun, calls

\* The answer of a command is heard or not.
LEMMA AnswerStep ==
    ASSUME CallInv, NEW s \in Slots, Heard(s) \/ Unanswered(s), UNCHANGED <<setup, time>>
    PROVE  CallInv'
  <1>1. CASE Heard(s)
    <2>1. net[s].to \in Callers
      BY <1>1 DEF Heard, CallInv, Sent
    <2> QED
      BY <1>1, <2>1, DoneProper, ReturnStep DEF Heard
  <1>2. CASE Unanswered(s)
    BY <1>2, DoneProper, NetStep DEF Unanswered
  <1> QED
    BY <1>1, <1>2

\* The next command of a pipeline.
LEMMA AdvanceStep ==
    ASSUME CallInv, NEW s \in Slots, net[s].op = "add", net[s].step < 4,
           net' = [net EXCEPT ![s].step = @ + 1], UNCHANGED <<setup, time, calls>>
    PROVE  CallInv' /\ net'[s] = [net[s] EXCEPT !.step = net[s].step + 1]
  <1> DEFINE x == net[s]
             y == [x EXCEPT !.step = x.step + 1]
  <1>1. x \in Sent /\ Proper(x) /\ x.op = "add" /\ x.step \in 1 .. 3
    BY DEF CallInv, Proper, Sent
  <1>2. y \in Sent /\ y.op = x.op /\ y.min = x.min /\ y.to = x.to /\ y.step = x.step + 1
    BY <1>1 DEF Sent
  <1>3. net' = [net EXCEPT ![s] = y]
    BY DEF CallInv
  <1> HIDE DEF y
  <1>4. net' \in [Slots -> Sent] /\ net'[s] = y /\ \A r \in Slots : r # s => net'[r] = net[r]
    BY <1>2, <1>3 DEF CallInv
  <1>5. Proper(y)
    BY <1>1, <1>2 DEF Proper
  <1>6. \A r \in Slots : Proper(net'[r])
    BY <1>4, <1>5 DEF CallInv
  <1>7. CallInv'
    BY <1>4, <1>6, NetStep
  <1> QED
    BY <1>4, <1>7 DEF y

\* Time passes: commands and calls are over before they are late.
LEMMA CallTick == ASSUME CallInv, RedisTick PROVE CallInv'
  <1>1. time' = time + 1 /\ time \in Nat /\ setup' = setup /\ setup.horizon \in Nat /\ time < setup.horizon
    BY RedisAssumption DEF CallInv, RedisTick, RedisWellFormed, Setup
  <1>2. time' \in Nat /\ time' <= setup'.horizon
    BY <1>1
  <1>3. UNCHANGED <<doing, min, tries, net>>
    BY DEF RedisTick, calls
  <1>4. \A m \in Minutes : Begun(m, time) => Begun(m, time')
    BY <1>1, TimePasses DEF Minutes
  <1>5. \A c \in Callers : doing[c] # "idle" => InTime(min[c], time') /\ Begun(min[c], time')
    BY <1>1, <1>4 DEF RedisTick, CallInv
  <1>6. ASSUME NEW s \in Slots PROVE Proper(net[s])'
    <2>1. Proper(net[s]) /\ net[s].min \in Minutes
      BY DEF CallInv, Sent
    <2>2. net[s].op # "none" => InTime(net[s].min, time') /\ Begun(net[s].min, time')
      <3> SUFFICES ASSUME net[s].op # "none" PROVE InTime(net[s].min, time') /\ Begun(net[s].min, time')
        OBVIOUS
      <3>1. net[s] # Free
        BY FreeType
      <3> QED
        BY <1>1, <1>4, <2>1, <3>1, Zenon DEF RedisTick, Proper
    <2> QED
      BY <2>1, <2>2, <1>3, Zenon DEF Proper, InTime, Begun
  <1>7. \A c \in Callers : (doing[c] # "idle" => InTime(min[c], time) /\ Begun(min[c], time))'
    BY <1>3, <1>5 DEF InTime, Begun
  <1> QED
    BY <1>1, <1>2, <1>3, <1>6, <1>7 DEF CallInv

LEMMA CallStep == ASSUME CallInv, [RedisNext]_redis PROVE CallInv'
  <1>1. ASSUME NEW c \in Callers, NEW op \in Ops, NEW s \in Slots, Call(c, op, s) PROVE CallInv'
    <2>1. MinuteAt(c) \in Minutes /\ InTime(MinuteAt(c), time) /\ Begun(MinuteAt(c), time)
      BY NamedMinute DEF CallInv
    <2>2. tries' \in [Callers -> Nat]
      BY <1>1 DEF Call, CallInv
    <2> QED
      BY <1>1, <2>1, <2>2, SendStep, Zenon DEF Call
  <1>2. ASSUME NEW c \in Callers, NEW s \in Slots, Retry(c, s) PROVE CallInv'
    <2>1. doing[c] \in Ops /\ min[c] \in Minutes /\ InTime(min[c], time) /\ Begun(min[c], time)
      BY <1>2 DEF Retry, CallInv
    <2>2. doing' = [doing EXCEPT ![c] = doing[c]] /\ min' = [min EXCEPT ![c] = min[c]]
      BY <1>2 DEF Retry, CallInv
    <2>3. tries' \in [Callers -> Nat]
      BY <1>2 DEF Retry, CallInv
    <2> QED
      BY <1>2, <2>1, <2>2, <2>3, SendStep, Zenon DEF Retry
  <1>3. ASSUME NEW c \in Callers, GiveUp(c) PROVE CallInv'
    <2>1. net \in [Slots -> Sent] /\ \A s \in Slots : Proper(net[s])
      BY DEF CallInv
    <2> QED
      BY <1>3, <2>1, ReturnStep DEF GiveUp
  <1>4. ASSUME NEW s \in Slots, Reserve(s) PROVE CallInv'
    BY <1>4, AnswerStep, Zenon DEF Reserve, Refuse, Admit, AdmitUnheard
  <1>5. ASSUME NEW s \in Slots, Pipeline(s) PROVE CallInv'
    BY <1>5, AnswerStep, AdvanceStep, Zenon DEF Pipeline
  <1>6. ASSUME NEW s \in Slots, Lose(s) PROVE CallInv'
    BY <1>6, AnswerStep DEF Lose
  <1>7. CASE RedisTick
    BY <1>7, CallTick
  <1>8. CASE UNCHANGED redis
    <2>1. UNCHANGED <<setup, time, calls, net>>
      BY <1>8 DEF redis
    <2> QED
      BY <2>1, NetStep DEF CallInv
  <1> QED
    BY <1>1, <1>2, <1>3, <1>4, <1>5, <1>6, <1>7, <1>8 DEF RedisNext

-----------------------------------------------------------------------------
(* Requests *)

\* What is true of a minute with the counter c at the time t, when requests were
\* admitted at the times g and u more were counted.  Those that the counter has
\* forgotten are sixty seconds old, and the counter outlives the others.
MinuteKept(g, c, u, t) ==
    /\ \A i \in 1 .. Len(g) : i <= Len(g) - c.n => g[i] + MinuteTicks <= t
    /\ \A i \in 1 .. Len(g) : g[i] <= t /\ (c.n > 0 => g[i] + MinuteTicks <= c.exp)
    /\ c.n <= Len(g) + u
    /\ setup.rpm > 0 => \A i \in 1 .. Len(g) : i + setup.rpm <= Len(g) => g[i + setup.rpm] >= g[i] + MinuteTicks

\* What is true of the day d with the counter c at the time t, when g requests
\* were admitted and u more were counted.  The counter is exact until no command
\* names the day.
DayKept(d, g, c, u, t) ==
    /\ c.n = g + u \/ (c.n = 0 /\ ~Open(d, t))
    /\ c.n > 0 => (d + 1) * DayTicks + MaxLate <= c.exp
    /\ setup.dayReq > 0 => g <= setup.dayReq

\* A counter is a number and an expiry.
LEMMA CounterType == \A c \in Counter : c.n \in Nat /\ c.n <= c.n
  BY DEF Counter

LEMMA LimitsType ==
    ASSUME setup \in Setups
    PROVE  /\ setup.rpm \in Nat /\ setup.tpm \in Nat /\ setup.dayReq \in Nat /\ setup.dayTok \in Nat
           /\ setup.retries \in Nat /\ setup.reports \in Nat
  BY RedisAssumption DEF RedisWellFormed, Setup

LEMMA LastOrBefore == \A k \in Nat, n \in Nat : k <= n + 1 => k = n + 1 \/ k <= n
  OBVIOUS

LEMMA Forgotten ==
    \A n \in Nat, k \in Nat :
        /\ \A i \in 1 .. n + 1 : i <= (n + 1) - (k + 1) => i \in 1 .. n /\ i <= n - k
        /\ \A i \in 1 .. n, r \in Nat : i + r = n + 1 /\ k < r => i <= n - k
  OBVIOUS

LEMMA LengthType == \A g \in Seq(Nat) : Len(g) \in Nat
  OBVIOUS

LEMMA NextNumber == \A n \in Nat : n + 1 \in Nat
  OBVIOUS

\* What a counter at a limit says of a number it does not exceed.
LEMMA AtLeast == \A a \in Nat, b \in Nat, c \in Nat : a <= b /\ a >= c => b >= c
  OBVIOUS

LEMMA AtMost == \A a \in Nat, b \in Nat, c \in Nat : a <= b /\ b <= c => a <= c
  OBVIOUS

LEMMA NoMore == \A a \in Nat, b \in Nat : a + b \in Nat /\ a <= a /\ 0 <= a + b /\ a <= a + b
  OBVIOUS

\* One more request of the minute, and the time of its admission.
LEMMA MinuteAdmits ==
    ASSUME setup \in Setups, NEW g \in Seq(Nat), NEW c \in Counter, NEW u \in Nat, time \in Nat,
           MinuteKept(g, c, u, time), ~Over(setup.rpm, c)
    PROVE  /\ Bump(c, MinuteTicks) \in Counter /\ Append(g, time) \in Seq(Nat)
           /\ MinuteKept(Append(g, time), Bump(c, MinuteTicks), u, time)
           /\ MinuteKept(g, Bump(c, MinuteTicks), u + 1, time)
  <1> DEFINE b == Bump(c, MinuteTicks)
             h == Append(g, time)
             n == Len(g)
  <1>1. c.n \in Nat /\ b \in Counter /\ b.n = c.n + 1 /\ b.exp = time + MinuteTicks
    BY TicksType DEF Counter, Bump
  <1>2. n \in Nat /\ h \in Seq(Nat) /\ Len(h) = n + 1 /\ h[n + 1] = time
    OBVIOUS
  <1>3. \A i \in 1 .. n : h[i] = g[i] /\ g[i] \in Nat
    OBVIOUS
  <1>4. MinuteTicks \in Nat \ {0} /\ setup.rpm \in Nat
    BY TicksType, LimitsType
  <1>5. /\ \A i \in 1 .. n : i <= n - c.n => g[i] + MinuteTicks <= time
        /\ \A i \in 1 .. n : g[i] <= time
        /\ c.n <= n + u
        /\ setup.rpm > 0 => \A i \in 1 .. n : i + setup.rpm <= n => g[i + setup.rpm] >= g[i] + MinuteTicks
    BY DEF MinuteKept
  <1>6. setup.rpm > 0 => c.n < setup.rpm
    BY <1>1, <1>4 DEF Over
  <1> HIDE DEF b, h, n
  <1>7. \A i \in 1 .. n : i <= n - b.n => g[i] + MinuteTicks <= time
    BY <1>1, <1>2, <1>5
  <1>8. \A i \in 1 .. n : g[i] <= time /\ g[i] + MinuteTicks <= b.exp
    BY <1>1, <1>3, <1>4, <1>5
  <1>9. ASSUME NEW i \in 1 .. n + 1, i <= (n + 1) - b.n PROVE h[i] + MinuteTicks <= time
    <2>1. i \in 1 .. n /\ i <= n - c.n
      BY <1>1, <1>2, <1>9, Forgotten, Zenon
    <2> QED
      BY <2>1, <1>3, <1>5, Zenon
  <1>10. ASSUME NEW i \in 1 .. n + 1 PROVE h[i] <= time /\ h[i] + MinuteTicks <= b.exp
    <2>1. i \in 1 .. n \/ i = n + 1
      BY <1>2
    <2>2. CASE i \in 1 .. n
      BY <2>2, <1>3, <1>8, Zenon
    <2>3. CASE i = n + 1
      <3>1. h[i] = time
        BY <2>3, <1>2, Zenon
      <3> QED
        BY <3>1, <1>1, <1>4
    <2> QED
      BY <2>1, <2>2, <2>3
  <1>11. ASSUME setup.rpm > 0, NEW i \in 1 .. n + 1, i + setup.rpm <= n + 1
         PROVE  h[i + setup.rpm] >= h[i] + MinuteTicks
    <2>1. i \in 1 .. n
      BY <1>2, <1>4, <1>11
    <2>2. CASE i + setup.rpm = n + 1
      <3>1. i <= n - c.n
        BY <2>1, <2>2, <1>1, <1>2, <1>4, <1>6, <1>11, Forgotten, Zenon
      <3>2. h[i + setup.rpm] = time /\ h[i] = g[i] /\ g[i] \in Nat /\ g[i] + MinuteTicks <= time
        BY <2>1, <2>2, <3>1, <1>2, <1>3, <1>5, Zenon
      <3> QED
        BY <3>2, <1>4
    <2>3. CASE i + setup.rpm <= n
      <3>1. i + setup.rpm \in 1 .. n
        BY <2>1, <2>3, <1>2, <1>4
      <3> QED
        BY <2>1, <2>3, <3>1, <1>3, <1>5, <1>11, Zenon
    <2>4. i + setup.rpm = n + 1 \/ i + setup.rpm <= n
      <3>1. i + setup.rpm \in Nat
        BY <2>1, <1>4
      <3> QED
        BY <3>1, <1>2, <1>11, LastOrBefore, Zenon
    <2> QED
      BY <2>2, <2>3, <2>4
  <1>12. b.n <= n + (u + 1) /\ b.n <= (n + 1) + u
    BY <1>1, <1>2, <1>5
  <1>13. MinuteKept(h, b, u, time)
    BY <1>2, <1>9, <1>10, <1>11, <1>12 DEF MinuteKept
  <1>14. MinuteKept(g, b, u + 1, time)
    BY <1>5, <1>7, <1>8, <1>12 DEF MinuteKept, n
  <1> QED
    BY <1>1, <1>2, <1>13, <1>14 DEF b, h

\* A counter after a tick.
Left(c) == IF c.exp \in 0 .. time + 1 THEN Unset ELSE c

LEMMA LeftType ==
    ASSUME time \in Nat, NEW c \in Counter
    PROVE  /\ Left(c) \in Counter /\ Left(c).n <= c.n
           /\ Left(c) = c \/ (Left(c).n = 0 /\ c.exp <= time + 1)
  <1>1. Unset \in Counter /\ Unset.n = 0 /\ c.n \in Nat
    BY DEF Unset, Counter
  <1>2. c.exp \in Nat \/ c.exp = -1
    BY DEF Counter, Never
  <1> QED
    BY <1>1, <1>2 DEF Left

\* The counter of a minute expires when the requests it counts are old.
LEMMA MinuteTick ==
    ASSUME setup \in Setups, NEW g \in Seq(Nat), NEW c \in Counter, NEW u \in Nat, time \in Nat,
           MinuteKept(g, c, u, time)
    PROVE  MinuteKept(g, Left(c), u, time + 1)
  <1> DEFINE n == Len(g)
             b == Left(c)
  <1>1. c.n \in Nat /\ n \in Nat /\ MinuteTicks \in Nat /\ b.n \in Nat /\ b.n <= c.n
    BY TicksType, LeftType DEF Counter
  <1>2. \A i \in 1 .. n : g[i] \in Nat
    OBVIOUS
  <1>3. /\ \A i \in 1 .. n : i <= n - c.n => g[i] + MinuteTicks <= time
        /\ \A i \in 1 .. n : g[i] <= time /\ (c.n > 0 => g[i] + MinuteTicks <= c.exp)
        /\ c.n <= n + u
    BY DEF MinuteKept
  <1>4. setup.rpm > 0 => \A i \in 1 .. n : i + setup.rpm <= n => g[i + setup.rpm] >= g[i] + MinuteTicks
    BY DEF MinuteKept
  <1>5. b = c \/ (b.n = 0 /\ c.exp <= time + 1)
    BY LeftType
  <1>6. c.exp \in Int
    BY DEF Counter, Never
  <1> HIDE DEF n, b
  <1>7. ASSUME NEW i \in 1 .. n
        PROVE  /\ i <= n - b.n => g[i] + MinuteTicks <= time + 1
               /\ g[i] <= time + 1
               /\ b.n > 0 => g[i] + MinuteTicks <= b.exp
    <2>1. g[i] \in Nat /\ g[i] <= time
      BY <1>2, <1>3, Zenon
    <2>2. CASE b = c
      BY <2>1, <2>2, <1>1, <1>3
    <2>3. CASE b.n = 0 /\ c.exp <= time + 1
      <3>1. CASE c.n > 0
        <4>1. g[i] + MinuteTicks <= c.exp
          BY <3>1, <1>3, Zenon
        <4> QED
          BY <2>1, <2>3, <4>1, <1>1, <1>6
      <3>2. CASE c.n = 0
        BY <2>1, <2>3, <3>2, <1>1, <1>3
      <3> QED
        BY <3>1, <3>2, <1>1
    <2> QED
      BY <2>2, <2>3, <1>5
  <1>8. b.n <= n + u
    BY <1>1, <1>3
  <1> QED
    BY <1>4, <1>7, <1>8 DEF MinuteKept, n, b

\* One more request of a day that is open.
LEMMA DayAdmits ==
    ASSUME setup \in Setups, time \in Nat, NEW d \in Nat, NEW g \in Nat, NEW c \in Counter, NEW u \in Nat,
           DayKept(d, g, c, u, time), ~Over(setup.dayReq, c), Open(d, time),
           (d + 1) * DayTicks + MaxLate <= time + DayTtl
    PROVE  /\ Bump(c, DayTtl) \in Counter
           /\ DayKept(d, g + 1, Bump(c, DayTtl), u, time)
           /\ DayKept(d, g, Bump(c, DayTtl), u + 1, time)
  <1>1. DayTtl \in Nat /\ c.n \in Nat /\ setup.dayReq \in Nat
    BY TicksType, LimitsType DEF DayTtl, Counter
  <1>2. c.n = g + u
    BY DEF DayKept
  <1> DEFINE b == Bump(c, DayTtl)
  <1>3. b \in Counter /\ b.n = c.n + 1 /\ b.exp = time + DayTtl
    BY <1>1 DEF Bump, Counter
  <1>4. setup.dayReq > 0 => g + 1 <= setup.dayReq
    BY <1>1, <1>2 DEF Over
  <1> HIDE DEF b
  <1>5. setup.dayReq > 0 => g <= setup.dayReq
    BY DEF DayKept
  <1>6. b.n = (g + 1) + u /\ b.n = g + (u + 1)
    BY <1>1, <1>2, <1>3
  <1>7. DayKept(d, g + 1, b, u, time)
    BY <1>3, <1>4, <1>6, Zenon DEF DayKept
  <1>8. DayKept(d, g, b, u + 1, time)
    BY <1>3, <1>5, <1>6, Zenon DEF DayKept
  <1> QED
    BY <1>3, <1>7, <1>8 DEF b

\* The counter of a day expires when the day is closed.
LEMMA DayTick ==
    ASSUME time \in Nat, NEW d \in Nat, NEW g \in Nat, NEW c \in Counter, NEW u \in Nat,
           DayKept(d, g, c, u, time)
    PROVE  DayKept(d, g, Left(c), u, time + 1)
  <1>1. Left(c) = c \/ (Left(c).n = 0 /\ c.exp <= time + 1)
    BY LeftType
  <1>2. ~Open(d, time) => ~Open(d, time + 1)
    <2>1. 0 \in Nat
      OBVIOUS
    <2> QED
      BY <2>1, TimePasses, Zenon
  <1>3. CASE Left(c) = c
    BY <1>2, <1>3, Zenon DEF DayKept
  <1>4. CASE Left(c).n = 0 /\ c.exp <= time + 1
    <2>1. c.n \in Nat /\ c.exp \in Int /\ (d + 1) * DayTicks \in Nat /\ MaxLate \in Nat
      BY TicksType DEF Counter, Never
    <2>2. CASE c.n = 0
      BY <1>2, <1>4, <2>2 DEF DayKept
    <2>3. CASE c.n > 0
      <3>1. (d + 1) * DayTicks + MaxLate <= c.exp
        BY <2>3 DEF DayKept
      <3>2. ~Open(d, time + 1)
        BY <2>1, <3>1, <1>4 DEF Open
      <3> QED
        BY <1>4, <3>2 DEF DayKept
    <2> QED
      BY <2>1, <2>2, <2>3
  <1> QED
    BY <1>1, <1>3, <1>4

\* The inductive invariant of the requests.
AdmitInv ==
    /\ cMin \in [Minutes -> Counter] /\ cDay \in [Days -> Counter]
    /\ granted \in [Minutes -> Seq(Nat)] /\ unheard \in [Minutes -> Nat]
    /\ grantedOn \in [Days -> Nat] /\ unheardOn \in [Days -> Nat]
    /\ \A m \in Minutes : MinuteKept(granted[m], cMin[m], unheard[m], time)
    /\ \A d \in Days : DayKept(d, grantedOn[d], cDay[d], unheardOn[d], time)

LEMMA DaysType == /\ \A m \in Minutes : m \in Nat /\ DayOf(m) \in Days
                  /\ \A d \in Days : d \in Nat
  BY TicksType, DayHasMinutes DEF Minutes, Days

LEMMA AdmitInit == ASSUME CallInv, RedisInit PROVE AdmitInv
  <1>1. Unset \in Counter /\ Unset.n = 0 /\ << >> \in Seq(Nat) /\ Len(<< >>) = 0
    BY DEF Unset, Counter
  <1>2. setup.rpm \in Nat /\ setup.dayReq \in Nat
    BY LimitsType DEF RedisInit
  <1>3. MinuteKept(<< >>, Unset, 0, time)
    BY <1>1, <1>2 DEF MinuteKept
  <1>4. \A d \in Days : DayKept(d, 0, Unset, 0, time)
    BY <1>1, <1>2 DEF DayKept
  <1> QED
    BY <1>1, <1>3, <1>4 DEF RedisInit, AdmitInv

\* Steps that leave the counters of requests and the clock alone.
LEMMA AdmitStays ==
    ASSUME AdmitInv, UNCHANGED <<setup, time, cMin, cDay, granted, unheard, grantedOn, unheardOn>>
    PROVE  AdmitInv'
  BY Zenon DEF AdmitInv, MinuteKept, DayKept, Open

\* The script admits a request: what it counts and finds to be within the limits.
LEMMA CountStep ==
    ASSUME CallInv, AdmitInv, NEW s \in Slots, net[s].op = "reserve",
           ~Rejects(net[s].min), Count(net[s].min), UNCHANGED <<setup, time>>,
           \/ /\ granted' = [granted EXCEPT ![net[s].min] = Append(@, time)]
              /\ grantedOn' = [grantedOn EXCEPT ![DayOf(net[s].min)] = @ + 1]
              /\ UNCHANGED <<unheard, unheardOn>>
           \/ /\ unheard' = [unheard EXCEPT ![net[s].min] = @ + 1]
              /\ unheardOn' = [unheardOn EXCEPT ![DayOf(net[s].min)] = @ + 1]
              /\ UNCHANGED <<granted, grantedOn>>
    PROVE  AdmitInv'
  <1> DEFINE m == net[s].min
             d == DayOf(m)
  <1>1. m \in Minutes /\ InTime(m, time) /\ Begun(m, time) /\ setup \in Setups /\ time \in Nat
    BY Zenon DEF CallInv, Proper, Sent
  <1>2. d \in Days /\ d \in Nat
    BY <1>1, DaysType, Zenon
  <1>3. Open(d, time) /\ (d + 1) * DayTicks + MaxLate <= time + DayTtl
    BY <1>1, OpenInTime, OutlivesDay, Zenon
  <1>4. ~Over(setup.rpm, cMin[m]) /\ ~Over(setup.dayReq, cDay[d])
    BY Zenon DEF Rejects
  <1>5. cMin' = [cMin EXCEPT ![m] = Bump(cMin[m], MinuteTicks)] /\ cDay' = [cDay EXCEPT ![d] = Bump(cDay[d], DayTtl)]
    BY <1>1, <1>2, Zenon DEF Count, AdmitInv
  <1> HIDE DEF m, d
  <1>6. /\ cMin[m] \in Counter /\ cDay[d] \in Counter /\ granted[m] \in Seq(Nat) /\ unheard[m] \in Nat
        /\ grantedOn[d] \in Nat /\ unheardOn[d] \in Nat
        /\ MinuteKept(granted[m], cMin[m], unheard[m], time)
        /\ DayKept(d, grantedOn[d], cDay[d], unheardOn[d], time)
    BY <1>1, <1>2, Zenon DEF AdmitInv
  <1>7. /\ Bump(cMin[m], MinuteTicks) \in Counter /\ Append(granted[m], time) \in Seq(Nat)
        /\ MinuteKept(Append(granted[m], time), Bump(cMin[m], MinuteTicks), unheard[m], time)
        /\ MinuteKept(granted[m], Bump(cMin[m], MinuteTicks), unheard[m] + 1, time)
    BY <1>1, <1>4, <1>6, MinuteAdmits, Zenon
  <1>8. /\ Bump(cDay[d], DayTtl) \in Counter
        /\ DayKept(d, grantedOn[d] + 1, Bump(cDay[d], DayTtl), unheardOn[d], time)
        /\ DayKept(d, grantedOn[d], Bump(cDay[d], DayTtl), unheardOn[d] + 1, time)
    BY <1>1, <1>2, <1>3, <1>4, <1>6, DayAdmits, Zenon
  <1>9. /\ cMin' \in [Minutes -> Counter] /\ cMin'[m] = Bump(cMin[m], MinuteTicks)
        /\ \A o \in Minutes : o # m => cMin'[o] = cMin[o]
    BY <1>1, <1>5, <1>7, Zenon DEF AdmitInv
  <1>10. /\ cDay' \in [Days -> Counter] /\ cDay'[d] = Bump(cDay[d], DayTtl)
         /\ \A e \in Days : e # d => cDay'[e] = cDay[e]
    BY <1>2, <1>5, <1>8, Zenon DEF AdmitInv
  <1>11. CASE /\ granted' = [granted EXCEPT ![m] = Append(@, time)]
              /\ grantedOn' = [grantedOn EXCEPT ![d] = @ + 1]
              /\ UNCHANGED <<unheard, unheardOn>>
    <2>1. /\ granted' \in [Minutes -> Seq(Nat)] /\ granted'[m] = Append(granted[m], time)
          /\ \A o \in Minutes : o # m => granted'[o] = granted[o]
      BY <1>1, <1>7, <1>11, Zenon DEF AdmitInv
    <2>2. grantedOn[d] + 1 \in Nat
      BY <1>6, NextNumber, Zenon
    <2>3. /\ grantedOn' \in [Days -> Nat] /\ grantedOn'[d] = grantedOn[d] + 1
          /\ \A e \in Days : e # d => grantedOn'[e] = grantedOn[e]
      BY <1>2, <1>11, <2>2, Zenon DEF AdmitInv
    <2>4. \A o \in Minutes : MinuteKept(granted'[o], cMin'[o], unheard'[o], time)
      BY <1>7, <1>9, <1>11, <2>1, Zenon DEF AdmitInv
    <2>5. \A e \in Days : DayKept(e, grantedOn'[e], cDay'[e], unheardOn'[e], time)
      BY <1>8, <1>10, <1>11, <2>3, Zenon DEF AdmitInv
    <2>6. \A o \in Minutes : MinuteKept(granted[o], cMin[o], unheard[o], time)'
      BY <2>4, Zenon DEF MinuteKept
    <2>7. \A e \in Days : DayKept(e, grantedOn[e], cDay[e], unheardOn[e], time)'
      BY <2>5, Zenon DEF DayKept, Open
    <2> QED
      BY <1>9, <1>10, <1>11, <2>1, <2>3, <2>6, <2>7, Zenon DEF AdmitInv
  <1>12. CASE /\ unheard' = [unheard EXCEPT ![m] = @ + 1]
              /\ unheardOn' = [unheardOn EXCEPT ![d] = @ + 1]
              /\ UNCHANGED <<granted, grantedOn>>
    <2>1. unheard[m] + 1 \in Nat /\ unheardOn[d] + 1 \in Nat
      BY <1>6, NextNumber, Zenon
    <2>2. /\ unheard' \in [Minutes -> Nat] /\ unheard'[m] = unheard[m] + 1
          /\ \A o \in Minutes : o # m => unheard'[o] = unheard[o]
      BY <1>1, <1>12, <2>1, Zenon DEF AdmitInv
    <2>3. /\ unheardOn' \in [Days -> Nat] /\ unheardOn'[d] = unheardOn[d] + 1
          /\ \A e \in Days : e # d => unheardOn'[e] = unheardOn[e]
      BY <1>2, <1>12, <2>1, Zenon DEF AdmitInv
    <2>4. \A o \in Minutes : MinuteKept(granted'[o], cMin'[o], unheard'[o], time)
      BY <1>7, <1>9, <1>12, <2>2, Zenon DEF AdmitInv
    <2>5. \A e \in Days : DayKept(e, grantedOn'[e], cDay'[e], unheardOn'[e], time)
      BY <1>8, <1>10, <1>12, <2>3, Zenon DEF AdmitInv
    <2>6. \A o \in Minutes : MinuteKept(granted[o], cMin[o], unheard[o], time)'
      BY <2>4, Zenon DEF MinuteKept
    <2>7. \A e \in Days : DayKept(e, grantedOn[e], cDay[e], unheardOn[e], time)'
      BY <2>5, Zenon DEF DayKept, Open
    <2> QED
      BY <1>9, <1>10, <1>12, <2>2, <2>3, <2>6, <2>7, Zenon DEF AdmitInv
  <1> QED
    BY <1>11, <1>12, Zenon DEF m, d

\* A counter of requests after a tick.
LEMMA AdmitTick == ASSUME CallInv, AdmitInv, RedisTick PROVE AdmitInv'
  <1>1. time \in Nat /\ setup \in Setups /\ time' = time + 1 /\ setup' = setup
    BY DEF CallInv, RedisTick
  <1>2. UNCHANGED <<granted, unheard, grantedOn, unheardOn>>
    BY Zenon DEF RedisTick, history, admitted
  <1>3. cMin' = [m \in Minutes |-> Left(cMin[m])] /\ cDay' = [d \in Days |-> Left(cDay[d])]
    BY Zenon DEF RedisTick, Kept, Left, AdmitInv
  <1>4. cMin' \in [Minutes -> Counter] /\ cDay' \in [Days -> Counter]
    BY <1>1, <1>3, LeftType DEF AdmitInv
  <1>5. ASSUME NEW m \in Minutes PROVE MinuteKept(granted'[m], cMin'[m], unheard'[m], time')
    <2>1. granted[m] \in Seq(Nat) /\ cMin[m] \in Counter /\ unheard[m] \in Nat
          /\ MinuteKept(granted[m], cMin[m], unheard[m], time)
      BY DEF AdmitInv
    <2>2. MinuteKept(granted[m], Left(cMin[m]), unheard[m], time + 1)
      BY <1>1, <2>1, MinuteTick, Zenon
    <2> QED
      BY <1>1, <1>2, <1>3, <2>2, Zenon
  <1>6. ASSUME NEW d \in Days PROVE DayKept(d, grantedOn'[d], cDay'[d], unheardOn'[d], time')
    <2>1. d \in Nat /\ grantedOn[d] \in Nat /\ cDay[d] \in Counter /\ unheardOn[d] \in Nat
          /\ DayKept(d, grantedOn[d], cDay[d], unheardOn[d], time)
      BY DaysType DEF AdmitInv
    <2>2. DayKept(d, grantedOn[d], Left(cDay[d]), unheardOn[d], time + 1)
      BY <1>1, <2>1, DayTick, Zenon
    <2> QED
      BY <1>1, <1>2, <1>3, <2>2, Zenon
  <1>7. \A m \in Minutes : MinuteKept(granted[m], cMin[m], unheard[m], time)'
    BY <1>1, <1>5, Zenon DEF MinuteKept
  <1>8. \A d \in Days : DayKept(d, grantedOn[d], cDay[d], unheardOn[d], time)'
    BY <1>1, <1>6, Zenon DEF DayKept, Open
  <1> QED
    BY <1>2, <1>4, <1>7, <1>8, Zenon DEF AdmitInv

LEMMA AdmitStep == ASSUME CallInv, AdmitInv, [RedisNext]_redis PROVE AdmitInv'
  <1>1. ASSUME NEW s \in Slots, Reserve(s) PROVE AdmitInv'
    <2>1. CASE Refuse(s)
      BY <1>1, <2>1, AdmitStays, Zenon DEF Reserve, Refuse, admitted
    <2>2. CASE Admit(s) \/ AdmitUnheard(s)
      BY <1>1, <2>2, CountStep, Zenon DEF Reserve, Admit, AdmitUnheard
    <2> QED
      BY <1>1, <2>1, <2>2 DEF Reserve
  <1>2. CASE RedisTick
    BY <1>2, AdmitTick
  <1>3. ASSUME NEW c \in Callers, NEW op \in Ops, NEW s \in Slots, Call(c, op, s) PROVE AdmitInv'
    BY <1>3, AdmitStays, Zenon DEF Call, counters, admitted
  <1>4. ASSUME NEW c \in Callers, NEW s \in Slots, Retry(c, s) PROVE AdmitInv'
    BY <1>4, AdmitStays, Zenon DEF Retry, counters, history, admitted
  <1>5. ASSUME NEW c \in Callers, GiveUp(c) PROVE AdmitInv'
    BY <1>5, AdmitStays, Zenon DEF GiveUp, counters, history, admitted
  <1>6. ASSUME NEW s \in Slots, Pipeline(s) PROVE AdmitInv'
    BY <1>6, AdmitStays, Zenon DEF Pipeline, admitted
  <1>7. ASSUME NEW s \in Slots, Lose(s) PROVE AdmitInv'
    BY <1>7, AdmitStays, Zenon DEF Lose, counters, history, admitted
  <1>8. CASE UNCHANGED redis
    BY <1>8, AdmitStays, Zenon DEF redis, counters, history, admitted
  <1> QED
    BY <1>1, <1>2, <1>3, <1>4, <1>5, <1>6, <1>7, <1>8 DEF RedisNext

-----------------------------------------------------------------------------
(* Tokens *)

\* Pipelines that have charged the minute and not yet the day d.
Between(d) == {s \in Slots : net[s].op = "add" /\ net[s].step \in {2, 3} /\ DayOf(net[s].min) = d}

\* Pipelines that have charged nothing.
Fresh == {s \in Slots : net[s].op = "add" /\ net[s].step = 1}

\* How often calls under way may still send their tokens.
Resends == {p \in Callers \X (1 .. setup.retries) : doing[p[1]] = "add" /\ tries[p[1]] < p[2]}

\* The inductive invariant of the tokens.
TokenInv ==
    /\ cTokMin \in [Minutes -> Counter] /\ cTokDay \in [Days -> Counter]
    /\ adds \in [Minutes -> Nat] /\ addsOn \in [Days -> Nat]
    /\ charged \in Nat /\ reports \in Nat
    /\ \A m \in Minutes : cTokMin[m].n <= adds[m]
    /\ \A d \in Days : cTokDay[d].n + Cardinality(Between(d)) <= addsOn[d]
    /\ charged + Cardinality(Fresh) + Cardinality(Resends) <= (1 + setup.retries) * reports

\* Parts of a finite set, and of one with an element more or less.
LEMMA CountParts ==
    ASSUME NEW S, IsFiniteSet(S), NEW T, NEW x
    PROVE  /\ Cardinality(S) \in Nat
           /\ T \subseteq S => Cardinality(T) \in Nat /\ Cardinality(T) <= Cardinality(S)
           /\ T \subseteq S \cup {x} => Cardinality(T) \in Nat /\ Cardinality(T) <= Cardinality(S) + 1
           /\ T \subseteq S \ {x} /\ x \in S => Cardinality(T) \in Nat /\ Cardinality(T) + 1 <= Cardinality(S)
  <1>1. Cardinality(S) \in Nat
    BY FS_CardinalityType
  <1>2. ASSUME NEW U, IsFiniteSet(U), T \subseteq U
        PROVE  Cardinality(T) \in Nat /\ Cardinality(T) <= Cardinality(U)
    <2>1. IsFiniteSet(T) /\ Cardinality(T) <= Cardinality(U)
      BY <1>2, FS_Subset, Zenon
    <2> QED
      BY <2>1, FS_CardinalityType, Zenon
  <1>3. ASSUME T \subseteq S \cup {x}
        PROVE  Cardinality(T) \in Nat /\ Cardinality(T) <= Cardinality(S) + 1
    <2>1. IsFiniteSet(S \cup {x})
      BY FS_AddElement, Zenon
    <2>2. Cardinality(S \cup {x}) = IF x \in S THEN Cardinality(S) ELSE Cardinality(S) + 1
      BY FS_AddElement, Zenon
    <2>3. Cardinality(T) \in Nat /\ Cardinality(T) <= Cardinality(S \cup {x})
      BY <1>2, <1>3, <2>1, Zenon
    <2> QED
      BY <1>1, <2>2, <2>3
  <1>4. ASSUME T \subseteq S \ {x}, x \in S
        PROVE  Cardinality(T) \in Nat /\ Cardinality(T) + 1 <= Cardinality(S)
    <2>1. IsFiniteSet(S \ {x})
      BY FS_RemoveElement, Zenon
    <2>2. Cardinality(S \ {x}) = Cardinality(S) - 1
      BY <1>4, FS_RemoveElement, Zenon
    <2>3. Cardinality(T) \in Nat /\ Cardinality(T) <= Cardinality(S \ {x})
      BY <1>2, <1>4, <2>1, Zenon
    <2> QED
      BY <1>1, <2>2, <2>3
  <1> QED
    BY <1>1, <1>2, <1>3, <1>4, Zenon

LEMMA SmallerSum == \A a \in Nat, b \in Nat, c \in Nat, e \in Nat : a + b <= e /\ c <= b => a + c <= e
  OBVIOUS

LEMMA SmallerSums ==
    \A a \in Nat, b \in Nat, c \in Nat, d \in Nat, e \in Nat, x \in Nat :
        a + b + c <= x /\ d <= b /\ e <= c => a + d + e <= x
  OBVIOUS

LEMMA FirstSmaller == \A a \in Nat, b \in Nat, c \in Nat, x \in Nat, y \in Nat :
    a + b <= x /\ c <= a /\ y <= b => c + y <= x
  OBVIOUS

LEMMA OneMoreSum ==
    \A a \in Nat, b \in Nat, c \in Nat, e \in Nat : a + b <= e =>
        /\ c <= b + 1 => a + c <= e + 1
        /\ c + 1 <= b => (a + 1) + c <= e
  OBVIOUS

LEMMA OneTo == ASSUME NEW n \in Nat PROVE IsFiniteSet(1 .. n) /\ Cardinality(1 .. n) = n
  BY FS_Interval

LEMMA TokensFinite ==
    ASSUME setup \in Setups
    PROVE  IsFiniteSet(Fresh) /\ IsFiniteSet(Resends) /\ \A d : IsFiniteSet(Between(d))
  <1>1. IsFiniteSet(Slots) /\ IsFiniteSet(Callers)
    BY RedisAssumption DEF RedisWellFormed
  <1>2. setup.retries \in Int /\ 1 \in Int
    BY LimitsType
  <1>3. IsFiniteSet(1 .. setup.retries)
    BY <1>2, FS_Interval, Zenon
  <1>4. IsFiniteSet(Callers \X (1 .. setup.retries))
    BY <1>1, <1>3, FS_Product, Zenon
  <1>5. IsFiniteSet(Resends)
    BY <1>4, FS_Subset, Zenon DEF Resends
  <1>6. IsFiniteSet(Fresh)
    BY <1>1, FS_Subset, Zenon DEF Fresh
  <1>7. \A d : IsFiniteSet(Between(d))
    BY <1>1, FS_Subset, Zenon DEF Between
  <1> QED
    BY <1>5, <1>6, <1>7

\* The budget of sendings is a number.
LEMMA BudgetType ==
    ASSUME setup \in Setups, reports \in Nat
    PROVE  /\ (1 + setup.retries) * reports \in Nat
           /\ (1 + setup.retries) * (reports + 1) = (1 + setup.retries) * reports + 1 + setup.retries
  BY LimitsType

\* Steps that charge nothing: pipelines end or are cut, calls return, counters
\* expire.
LEMMA NothingCharged ==
    ASSUME CallInv, TokenInv, UNCHANGED <<setup, adds, addsOn, charged, reports>>,
           cTokMin' \in [Minutes -> Counter], cTokDay' \in [Days -> Counter],
           \A m \in Minutes : cTokMin'[m].n <= cTokMin[m].n,
           \A d \in Days : cTokDay'[d].n <= cTokDay[d].n,
           Fresh' \subseteq Fresh, Resends' \subseteq Resends,
           \A d \in Days : Between(d)' \subseteq Between(d)
    PROVE  TokenInv'
  <1>1. setup \in Setups
    BY Zenon DEF CallInv
  <1>2. /\ IsFiniteSet(Fresh) /\ IsFiniteSet(Resends) /\ \A d : IsFiniteSet(Between(d))
    BY <1>1, TokensFinite, Zenon
  <1>3. /\ Cardinality(Fresh) \in Nat /\ Cardinality(Fresh') \in Nat /\ Cardinality(Fresh') <= Cardinality(Fresh)
    BY <1>2, CountParts, Zenon
  <1>4. /\ Cardinality(Resends) \in Nat /\ Cardinality(Resends') \in Nat /\ Cardinality(Resends') <= Cardinality(Resends)
    BY <1>2, CountParts, Zenon
  <1>5. charged' + Cardinality(Fresh') + Cardinality(Resends') <= (1 + setup'.retries) * reports'
    <2>1. charged \in Nat /\ reports \in Nat
      BY Zenon DEF TokenInv
    <2>2. (1 + setup.retries) * reports \in Nat
      BY <1>1, <2>1, BudgetType, Zenon
    <2>3. charged + Cardinality(Fresh) + Cardinality(Resends) <= (1 + setup.retries) * reports
      BY Zenon DEF TokenInv
    <2>4. charged + Cardinality(Fresh') + Cardinality(Resends') <= (1 + setup.retries) * reports
      BY <1>3, <1>4, <2>1, <2>2, <2>3, SmallerSums, Zenon
    <2> QED
      BY <2>4, Zenon
  <1>6. ASSUME NEW m \in Minutes PROVE cTokMin'[m].n <= adds'[m]
    <2>1. cTokMin'[m] \in Counter /\ cTokMin[m] \in Counter /\ adds[m] \in Nat
      BY Zenon DEF TokenInv
    <2>2. cTokMin'[m].n \in Nat /\ cTokMin[m].n \in Nat
      BY <2>1, CounterType, Zenon
    <2>3. cTokMin[m].n <= adds[m] /\ cTokMin'[m].n <= cTokMin[m].n
      BY Zenon DEF TokenInv
    <2> QED
      BY <2>1, <2>2, <2>3, AtMost, Zenon
  <1>7. ASSUME NEW d \in Days PROVE cTokDay'[d].n + Cardinality(Between(d)') <= addsOn'[d]
    <2>1. /\ Cardinality(Between(d)) \in Nat /\ Cardinality(Between(d)') \in Nat
          /\ Cardinality(Between(d)') <= Cardinality(Between(d))
      BY <1>2, CountParts, Zenon
    <2>2. cTokDay'[d] \in Counter /\ cTokDay[d] \in Counter /\ addsOn[d] \in Nat
      BY Zenon DEF TokenInv
    <2>3. cTokDay'[d].n \in Nat /\ cTokDay[d].n \in Nat
      BY <2>2, CounterType, Zenon
    <2>4. cTokDay[d].n + Cardinality(Between(d)) <= addsOn[d] /\ cTokDay'[d].n <= cTokDay[d].n
      BY Zenon DEF TokenInv
    <2>5. cTokDay'[d].n + Cardinality(Between(d)') <= addsOn[d]
      BY <2>1, <2>2, <2>3, <2>4, FirstSmaller, Zenon
    <2> QED
      BY <2>5, Zenon
  <1> QED
    BY <1>5, <1>6, <1>7, Zenon DEF TokenInv

\* Commands end, or stay where they are.
LEMMA CommandsEnd ==
    ASSUME \A r \in Slots : \/ net'[r].op = "none"
                            \/ net'[r].op = net[r].op /\ net'[r].min = net[r].min /\ net'[r].step = net[r].step
    PROVE  Fresh' \subseteq Fresh /\ \A d \in Days : Between(d)' \subseteq Between(d)
  BY Zenon DEF Fresh, Between

\* A call ends.
LEMMA ReturnEnds ==
    ASSUME CallInv, NEW c \in Callers, NEW q \in [Slots -> Sent],
           \A r \in Slots : q[r] = Free \/ q[r] = net[r], Return(c, q), setup' = setup
    PROVE  /\ Resends' \subseteq Resends /\ Fresh' \subseteq Fresh
           /\ \A d \in Days : Between(d)' \subseteq Between(d)
  <1>1. ASSUME NEW r \in Slots
        PROVE  \/ net'[r].op = "none"
               \/ net'[r].op = net[r].op /\ net'[r].min = net[r].min /\ net'[r].step = net[r].step
    <2>1. q[r] \in Sent
      OBVIOUS
    <2>2. net'[r].op = q[r].op /\ net'[r].min = q[r].min /\ net'[r].step = q[r].step
      BY <2>1, OrphanType, Zenon DEF Return, Orphaned
    <2> QED
      BY <2>2, FreeType, Zenon
  <1>2. doing'[c] = "idle" /\ \A o \in Callers : o # c => doing'[o] = doing[o] /\ tries'[o] = tries[o]
    BY DEF Return, CallInv
  <1>3. Resends' \subseteq Resends
    BY <1>2 DEF Resends
  <1> QED
    BY <1>1, <1>3, CommandsEnd, Zenon

LEMMA AnswerEnds ==
    ASSUME CallInv, NEW s \in Slots, Heard(s) \/ Unanswered(s), setup' = setup
    PROVE  /\ Resends' \subseteq Resends /\ Fresh' \subseteq Fresh
           /\ \A d \in Days : Between(d)' \subseteq Between(d)
  <1>1. Done(s) \in [Slots -> Sent] /\ \A r \in Slots : Done(s)[r] = Free \/ Done(s)[r] = net[r]
    BY DoneProper, Zenon
  <1>2. CASE Heard(s)
    <2>1. net[s].to \in Callers
      BY <1>2 DEF Heard, CallInv, Sent
    <2> QED
      BY <1>1, <1>2, <2>1, ReturnEnds, Zenon DEF Heard
  <1>3. CASE Unanswered(s)
    <2>1. Fresh' \subseteq Fresh /\ \A d \in Days : Between(d)' \subseteq Between(d)
      BY <1>1, <1>3, FreeType, CommandsEnd, Zenon DEF Unanswered
    <2>2. Resends' = Resends
      BY <1>3, Zenon DEF Unanswered, calls, Resends
    <2> QED
      BY <2>1, <2>2, Zenon
  <1> QED
    BY <1>2, <1>3

\* Nothing is charged, and the counters stay.
LEMMA TokensSame ==
    ASSUME CallInv, TokenInv, UNCHANGED <<setup, cTokMin, cTokDay, adds, addsOn, charged, reports>>,
           Fresh' \subseteq Fresh, Resends' \subseteq Resends,
           \A d \in Days : Between(d)' \subseteq Between(d)
    PROVE  TokenInv'
  <1>1. cTokMin \in [Minutes -> Counter] /\ cTokDay \in [Days -> Counter]
    BY DEF TokenInv
  <1>2. \A m \in Minutes : cTokMin'[m].n <= cTokMin[m].n
    BY <1>1 DEF Counter
  <1>3. \A d \in Days : cTokDay'[d].n <= cTokDay[d].n
    BY <1>1 DEF Counter
  <1> QED
    BY <1>1, <1>2, <1>3, NothingCharged, Zenon

\* A command is sent.
LEMMA SendAdds ==
    ASSUME CallInv, NEW c \in Callers, NEW s \in Slots, NEW op \in Ops, NEW m \in Minutes, Send(s, c, op, m)
    PROVE  /\ op = "add" => Fresh' \subseteq Fresh \cup {s}
           /\ op # "add" => Fresh' \subseteq Fresh
           /\ \A d \in Days : Between(d)' \subseteq Between(d)
  <1> DEFINE x == [op |-> op, min |-> m, to |-> c, step |-> 1]
  <1>1. x.op = op /\ x.step = 1 /\ x.step \notin {2, 3}
    OBVIOUS
  <1>2. net' = [net EXCEPT ![s] = x] /\ net \in [Slots -> Sent]
    BY Zenon DEF Send, CallInv
  <1> HIDE DEF x
  <1>3. net'[s] = x /\ \A r \in Slots : r # s => net'[r] = net[r]
    BY <1>2
  <1> QED
    BY <1>1, <1>3, Zenon DEF Fresh, Between

LEMMA TokenInit == ASSUME RedisInit PROVE TokenInv
  <1>1. Unset \in Counter /\ Unset.n = 0
    BY DEF Unset, Counter
  <1>2. Fresh = {} /\ Resends = {} /\ \A d \in Days : Between(d) = {}
    BY FreeType, Zenon DEF RedisInit, Fresh, Resends, Between
  <1>3. Cardinality({}) = 0
    BY FS_EmptySet
  <1>4. setup.retries \in Nat
    BY LimitsType DEF RedisInit
  <1>5. charged + Cardinality(Fresh) + Cardinality(Resends) <= (1 + setup.retries) * reports
    BY <1>2, <1>3, <1>4 DEF RedisInit
  <1>6. \A d \in Days : cTokDay[d].n + Cardinality(Between(d)) <= addsOn[d]
    <2>1. \A d \in Days : cTokDay[d].n = 0 /\ Cardinality(Between(d)) = 0 /\ addsOn[d] = 0
      BY <1>1, <1>2, <1>3, Zenon DEF RedisInit
    <2>2. 0 + 0 <= 0
      OBVIOUS
    <2> QED
      BY <2>1, <2>2, Zenon
  <1>7. /\ cTokMin \in [Minutes -> Counter] /\ cTokDay \in [Days -> Counter]
        /\ adds \in [Minutes -> Nat] /\ addsOn \in [Days -> Nat]
        /\ charged \in Nat /\ reports \in Nat
        /\ \A m \in Minutes : cTokMin[m].n <= adds[m]
    BY <1>1 DEF RedisInit
  <1> QED
    BY <1>5, <1>6, <1>7, Zenon DEF TokenInv

\* Tokens are reported: one sending, and the retries that it has.
LEMMA ReportStep ==
    ASSUME CallInv, TokenInv, NEW c \in Callers, NEW s \in Slots, Call(c, "add", s)
    PROVE  TokenInv'
  <1> DEFINE R == setup.retries
             N == {c} \X (1 .. R)
  <1>1. setup \in Setups /\ R \in Nat /\ MinuteAt(c) \in Minutes /\ "add" \in Ops
    BY NamedMinute, LimitsType DEF CallInv, Ops
  <1>2. UNCHANGED <<setup, cTokMin, cTokDay, adds, addsOn, charged>> /\ reports' = reports + 1
    BY DEF Call, counters
  <1>3. Fresh' \subseteq Fresh \cup {s} /\ \A d \in Days : Between(d)' \subseteq Between(d)
    BY <1>1, SendAdds, Zenon DEF Call
  <1>4. Resends' \subseteq Resends \cup N
    <2>1. \A o \in Callers : o # c => doing'[o] = doing[o] /\ tries'[o] = tries[o]
      BY DEF Call, CallInv
    <2> QED
      BY <1>2, <2>1 DEF Resends
  <1>5. IsFiniteSet(Fresh) /\ IsFiniteSet(Resends) /\ \A d : IsFiniteSet(Between(d))
    BY <1>1, TokensFinite
  <1>6. IsFiniteSet(N) /\ Cardinality(N) = R
    <2>1. IsFiniteSet({c}) /\ Cardinality({c}) = 1
      BY FS_Singleton, Zenon
    <2>2. IsFiniteSet(1 .. R) /\ Cardinality(1 .. R) = R
      BY <1>1, OneTo, Zenon
    <2>3. IsFiniteSet(N) /\ Cardinality(N) = Cardinality({c}) * Cardinality(1 .. R)
      BY <2>1, <2>2, FS_Product, Zenon
    <2> QED
      BY <1>1, <2>1, <2>2, <2>3
  <1> HIDE DEF N
  <1>7. Cardinality(Fresh) \in Nat /\ Cardinality(Fresh') \in Nat /\ Cardinality(Fresh') <= Cardinality(Fresh) + 1
    BY <1>3, <1>5, CountParts, Zenon
  <1>8. Cardinality(Resends) \in Nat /\ Cardinality(Resends') \in Nat /\ Cardinality(Resends') <= Cardinality(Resends) + R
    <2>1. /\ IsFiniteSet(Resends \cup N)
          /\ Cardinality(Resends \cup N) = Cardinality(Resends) + Cardinality(N) - Cardinality(Resends \cap N)
      BY <1>5, <1>6, FS_Union, Zenon
    <2>2. Cardinality(Resends') \in Nat /\ Cardinality(Resends') <= Cardinality(Resends \cup N)
      BY <1>4, <2>1, CountParts, Zenon
    <2>3. Cardinality(Resends \cap N) \in Nat
      <3>1. IsFiniteSet(Resends \cap N)
        BY <1>5, FS_Intersection, Zenon
      <3> QED
        BY <3>1, FS_CardinalityType, Zenon
    <2>4. Cardinality(Resends) \in Nat
      BY <1>5, FS_CardinalityType, Zenon
    <2> QED
      BY <1>1, <1>6, <2>1, <2>2, <2>3, <2>4
  <1>9. charged' + Cardinality(Fresh') + Cardinality(Resends') <= (1 + setup'.retries) * reports'
    <2>1. charged + Cardinality(Fresh) + Cardinality(Resends) <= (1 + R) * reports
      BY DEF TokenInv
    <2>2. (1 + R) * reports \in Nat /\ (1 + R) * (reports + 1) = (1 + R) * reports + 1 + R
      BY <1>1, BudgetType DEF TokenInv
    <2>3. charged \in Nat
      BY DEF TokenInv
    <2>4. charged + Cardinality(Fresh') + Cardinality(Resends') <= (1 + R) * (reports + 1)
      BY <1>1, <1>7, <1>8, <2>1, <2>2, <2>3
    <2> QED
      BY <1>2, <2>4, Zenon
  <1>10. ASSUME NEW d \in Days PROVE cTokDay'[d].n + Cardinality(Between(d)') <= addsOn'[d]
    <2>1. /\ Cardinality(Between(d)) \in Nat /\ Cardinality(Between(d)') \in Nat
          /\ Cardinality(Between(d)') <= Cardinality(Between(d))
      <3>1. IsFiniteSet(Between(d)) /\ Between(d)' \subseteq Between(d)
        BY <1>3, <1>5, Zenon
      <3> QED
        BY <3>1, CountParts, Zenon
    <2>2. cTokDay[d].n \in Nat /\ addsOn[d] \in Nat /\ cTokDay[d].n + Cardinality(Between(d)) <= addsOn[d]
      BY DEF TokenInv, Counter
    <2>3. cTokDay[d].n + Cardinality(Between(d)') <= addsOn[d]
      BY <2>1, <2>2, SmallerSum, Zenon
    <2> QED
      BY <1>2, <2>3, Zenon
  <1>11. reports' \in Nat
    BY <1>2 DEF TokenInv
  <1> QED
    BY <1>2, <1>9, <1>10, <1>11, Zenon DEF TokenInv

LEMMA OneMoreTry == \A t \in Nat, n \in Nat : t < n => t + 1 \in 1 .. n /\ t < t + 1
  OBVIOUS

\* Tokens are sent again: one retry less.
LEMMA ResendStep ==
    ASSUME CallInv, TokenInv, NEW c \in Callers, NEW s \in Slots, Retry(c, s)
    PROVE  TokenInv'
  <1>1. /\ setup \in Setups /\ doing[c] \in Ops /\ min[c] \in Minutes
        /\ tries[c] \in Nat /\ tries[c] < setup.retries /\ setup.retries \in Nat
    BY LimitsType, Zenon DEF CallInv, Retry
  <1>2. UNCHANGED <<setup, doing, cTokMin, cTokDay, adds, addsOn, charged, reports>>
    BY Zenon DEF Retry, counters, history
  <1>3. tries'[c] = tries[c] + 1 /\ \A o \in Callers : o # c => tries'[o] = tries[o]
    BY DEF Retry, CallInv
  <1>4. /\ doing[c] = "add" => Fresh' \subseteq Fresh \cup {s}
        /\ doing[c] # "add" => Fresh' \subseteq Fresh
        /\ \A d \in Days : Between(d)' \subseteq Between(d)
    BY <1>1, SendAdds, Zenon DEF Retry
  <1>5. CASE doing[c] # "add"
    <2>1. Resends' \subseteq Resends
      BY <1>2, <1>3, <1>5, Zenon DEF Resends
    <2> QED
      BY <1>2, <1>4, <1>5, <2>1, TokensSame, Zenon
  <1>6. CASE doing[c] = "add"
    <2> DEFINE p == <<c, tries[c] + 1>>
    <2>1. tries[c] + 1 \in 1 .. setup.retries /\ tries[c] < tries[c] + 1
      BY <1>1, OneMoreTry, Zenon
    <2>2. p \in Resends
      BY <1>6, <2>1 DEF Resends
    <2>3. Resends' \subseteq Resends \ {p}
      <3> SUFFICES ASSUME NEW o \in Callers, NEW i \in 1 .. setup.retries, doing[o] = "add", tries'[o] < i
                   PROVE  <<o, i>> \in Resends /\ <<o, i>> # p
        BY <1>2 DEF Resends
      <3>1. CASE o = c
        BY <3>1, <1>1, <1>3 DEF Resends
      <3>2. CASE o # c
        BY <3>2, <1>3 DEF Resends
      <3> QED
        BY <3>1, <3>2, Zenon
    <2> HIDE DEF p
    <2>4. IsFiniteSet(Fresh) /\ IsFiniteSet(Resends) /\ \A d : IsFiniteSet(Between(d))
      BY <1>1, TokensFinite
    <2>5. Cardinality(Fresh) \in Nat /\ Cardinality(Fresh') \in Nat /\ Cardinality(Fresh') <= Cardinality(Fresh) + 1
      BY <1>4, <1>6, <2>4, CountParts, Zenon
    <2>6. Cardinality(Resends) \in Nat /\ Cardinality(Resends') \in Nat /\ Cardinality(Resends') + 1 <= Cardinality(Resends)
      BY <2>2, <2>3, <2>4, CountParts, Zenon
    <2>7. charged' + Cardinality(Fresh') + Cardinality(Resends') <= (1 + setup'.retries) * reports'
      <3>1. charged + Cardinality(Fresh) + Cardinality(Resends) <= (1 + setup.retries) * reports
        BY DEF TokenInv
      <3>2. (1 + setup.retries) * reports \in Nat /\ charged \in Nat
        BY <1>1, BudgetType, Zenon DEF TokenInv
      <3>3. charged + Cardinality(Fresh') + Cardinality(Resends') <= (1 + setup.retries) * reports
        BY <2>5, <2>6, <3>1, <3>2
      <3> QED
        BY <1>2, <3>3, Zenon
    <2>8. ASSUME NEW d \in Days PROVE cTokDay'[d].n + Cardinality(Between(d)') <= addsOn'[d]
      <3>1. /\ Cardinality(Between(d)) \in Nat /\ Cardinality(Between(d)') \in Nat
            /\ Cardinality(Between(d)') <= Cardinality(Between(d))
        <4>1. IsFiniteSet(Between(d)) /\ Between(d)' \subseteq Between(d)
          BY <1>4, <2>4, Zenon
        <4> QED
          BY <4>1, CountParts, Zenon
      <3>2. cTokDay[d].n \in Nat /\ addsOn[d] \in Nat /\ cTokDay[d].n + Cardinality(Between(d)) <= addsOn[d]
        BY DEF TokenInv, Counter
      <3>3. cTokDay[d].n + Cardinality(Between(d)') <= addsOn[d]
        BY <3>1, <3>2, SmallerSum, Zenon
      <3> QED
        BY <1>2, <3>3, Zenon
    <2> QED
      BY <1>2, <2>7, <2>8, Zenon DEF TokenInv
  <1> QED
    BY <1>5, <1>6

\* A pipeline goes on to its next command.
LEMMA PipelineMoves ==
    ASSUME CallInv, NEW s \in Slots, net[s].op = "add", net[s].step < 4,
           net' = [net EXCEPT ![s].step = @ + 1]
    PROVE  /\ net[s].step \in 1 .. 3
           /\ net'[s].op = "add" /\ net'[s].min = net[s].min /\ net'[s].step = net[s].step + 1
           /\ \A r \in Slots : r # s => net'[r] = net[r]
  <1>1. net \in [Slots -> Sent] /\ net[s] \in Sent /\ net[s].step \in 1 .. 3
    BY DEF CallInv, Proper, Sent
  <1>2. net'[s].op = "add" /\ net'[s].min = net[s].min /\ net'[s].step = net[s].step + 1
    BY <1>1 DEF Sent
  <1> QED
    BY <1>1, <1>2

\* It goes on from charging the minute, from the minute's expiry to the day, and
\* from charging the day.
LEMMA ChargedMinute ==
    ASSUME NEW s \in Slots, net[s].op = "add", net[s].step = 1, NEW d, d = DayOf(net[s].min),
           net'[s].op = "add", net'[s].min = net[s].min, net'[s].step = 2,
           \A r \in Slots : r # s => net'[r] = net[r]
    PROVE  /\ Fresh' \subseteq Fresh \ {s} /\ s \in Fresh
           /\ \A e : e # d => Between(e)' \subseteq Between(e)
  <1>1. 1 # 2
    OBVIOUS
  <1>2. Fresh' \subseteq Fresh \ {s} /\ s \in Fresh
    BY <1>1, Zenon DEF Fresh
  <1>3. \A e : e # d => Between(e)' \subseteq Between(e)
    BY Zenon DEF Between
  <1> QED
    BY <1>2, <1>3, Zenon

LEMMA MinuteExpires ==
    ASSUME NEW s \in Slots, net[s].op = "add", net[s].step = 2,
           net'[s].op = "add", net'[s].min = net[s].min, net'[s].step = 3,
           \A r \in Slots : r # s => net'[r] = net[r]
    PROVE  Fresh' \subseteq Fresh /\ \A e : Between(e)' \subseteq Between(e)
  <1>1. 3 # 1
    OBVIOUS
  <1> QED
    BY <1>1, Zenon DEF Fresh, Between

LEMMA ChargedDay ==
    ASSUME NEW s \in Slots, net[s].op = "add", net[s].step = 3, NEW d, d = DayOf(net[s].min),
           net'[s].op = "add", net'[s].min = net[s].min, net'[s].step = 4,
           \A r \in Slots : r # s => net'[r] = net[r]
    PROVE  /\ Fresh' \subseteq Fresh
           /\ Between(d)' \subseteq Between(d) \ {s} /\ s \in Between(d)
           /\ \A e : Between(e)' \subseteq Between(e)
  <1>1. 4 # 1 /\ 4 # 2 /\ 4 # 3
    OBVIOUS
  <1>2. Fresh' \subseteq Fresh
    BY <1>1, Zenon DEF Fresh
  <1>3. Between(d)' \subseteq Between(d) \ {s} /\ s \in Between(d)
    BY <1>1, Zenon DEF Between
  <1>4. \A e : Between(e)' \subseteq Between(e)
    BY <1>1, Zenon DEF Between
  <1> QED
    BY <1>2, <1>3, <1>4, Zenon

LEMMA IncrType ==
    ASSUME NEW c \in Counter, NEW ttl \in Nat, time \in Nat
    PROVE  /\ Incr(c) \in Counter /\ Incr(c).n = c.n + 1
           /\ Expire(c, ttl) \in Counter /\ Expire(c, ttl).n = c.n
  BY DEF Counter, Incr, Expire, Never

\* A pipeline charges its minute.
LEMMA ChargeStep ==
    ASSUME CallInv, TokenInv, NEW s \in Slots, net[s].op = "add", net[s].step = 1,
           ChargeMinute(net[s].min), net' = [net EXCEPT ![s].step = @ + 1],
           UNCHANGED <<setup, calls, reports>>
    PROVE  TokenInv'
  <1> DEFINE m == net[s].min
  <1>0. PICK d \in Days : d = DayOf(m)
    BY DaysType DEF CallInv, Sent
  <1>1. setup \in Setups /\ m \in Minutes /\ d \in Days /\ time \in Nat /\ 0 \in Nat /\ net[s].step < 4
    BY DEF CallInv, Sent
  <1>2. /\ Resends' = Resends /\ Fresh' \subseteq Fresh \ {s} /\ s \in Fresh
        /\ Between(d)' \subseteq Between(d) \cup {s}
        /\ \A e \in Days : e # d => Between(e)' \subseteq Between(e)
    <2>1. Resends' = Resends
      BY Zenon DEF calls, Resends
    <2>2. /\ net'[s].op = "add" /\ net'[s].min = net[s].min /\ net'[s].step = net[s].step + 1
          /\ \A r \in Slots : r # s => net'[r] = net[r]
      BY <1>1, PipelineMoves, Zenon
    <2>3. net'[s].step = 2
      BY <2>2
    <2>4. d = DayOf(net[s].min)
      BY <1>0
    <2>5. /\ Fresh' \subseteq Fresh \ {s} /\ s \in Fresh
          /\ \A e : e # d => Between(e)' \subseteq Between(e)
      BY <2>2, <2>3, <2>4, ChargedMinute
    <2>6. Between(d)' \subseteq Between(d) \cup {s}
      <3> SUFFICES ASSUME NEW r \in Between(d)', r # s PROVE r \in Between(d)
        BY Zenon
      <3>1. r \in Slots /\ net'[r].op = "add" /\ net'[r].step \in {2, 3} /\ DayOf(net'[r].min) = d
        BY Zenon DEF Between
      <3>2. net'[r] = net[r]
        BY <2>2, <3>1, Zenon
      <3> QED
        BY <3>1, <3>2, Zenon DEF Between
    <2> QED
      BY <2>1, <2>5, <2>6, Zenon
  <1>3. /\ cTokMin[m] \in Counter /\ cTokMin[m].n \in Nat /\ adds[m] \in Nat /\ addsOn[d] \in Nat
        /\ cTokMin[m].n <= adds[m] /\ charged \in Nat
    BY <1>1 DEF TokenInv, Counter
  <1>4. /\ cTokMin' = [cTokMin EXCEPT ![m] = Incr(@)] /\ adds' = [adds EXCEPT ![m] = @ + 1]
        /\ addsOn' = [addsOn EXCEPT ![d] = @ + 1] /\ charged' = charged + 1 /\ cTokDay' = cTokDay
    BY <1>0 DEF ChargeMinute
  <1> HIDE DEF m
  <1>5. Incr(cTokMin[m]) \in Counter /\ Incr(cTokMin[m]).n = cTokMin[m].n + 1
    BY <1>1, <1>3, IncrType, Zenon
  <1>6. /\ cTokMin' \in [Minutes -> Counter] /\ cTokMin'[m] = Incr(cTokMin[m])
        /\ \A o \in Minutes : o # m => cTokMin'[o] = cTokMin[o]
    BY <1>1, <1>4, <1>5, Zenon DEF TokenInv
  <1>7. adds[m] + 1 \in Nat /\ addsOn[d] + 1 \in Nat /\ charged + 1 \in Nat /\ cTokMin[m].n + 1 <= adds[m] + 1
    BY <1>3
  <1>8. adds' \in [Minutes -> Nat] /\ adds'[m] = adds[m] + 1 /\ \A o \in Minutes : o # m => adds'[o] = adds[o]
    BY <1>1, <1>4, <1>7, Zenon DEF TokenInv
  <1>9. addsOn' \in [Days -> Nat] /\ addsOn'[d] = addsOn[d] + 1 /\ \A e \in Days : e # d => addsOn'[e] = addsOn[e]
    BY <1>1, <1>4, <1>7, Zenon DEF TokenInv
  <1>10. \A o \in Minutes : cTokMin'[o].n <= adds'[o]
    BY <1>5, <1>6, <1>7, <1>8, Zenon DEF TokenInv
  <1>11. IsFiniteSet(Fresh) /\ IsFiniteSet(Resends) /\ \A e : IsFiniteSet(Between(e))
    BY <1>1, TokensFinite
  <1>12. charged' + Cardinality(Fresh') + Cardinality(Resends') <= (1 + setup'.retries) * reports'
    <2>1. Cardinality(Fresh) \in Nat /\ Cardinality(Fresh') \in Nat /\ Cardinality(Fresh') + 1 <= Cardinality(Fresh)
      BY <1>2, <1>11, CountParts, Zenon
    <2>2. Cardinality(Resends) \in Nat
      BY <1>11, FS_CardinalityType, Zenon
    <2>3. charged + Cardinality(Fresh) + Cardinality(Resends) <= (1 + setup.retries) * reports
      BY DEF TokenInv
    <2>4. (1 + setup.retries) * reports \in Nat
      BY <1>1, BudgetType DEF TokenInv
    <2>5. (charged + 1) + Cardinality(Fresh') + Cardinality(Resends) <= (1 + setup.retries) * reports
      BY <1>3, <2>1, <2>2, <2>3, <2>4
    <2> QED
      BY <1>2, <1>4, <2>5, Zenon
  <1>13. ASSUME NEW e \in Days PROVE cTokDay'[e].n + Cardinality(Between(e)') <= addsOn'[e]
    <2>1. cTokDay[e].n \in Nat /\ addsOn[e] \in Nat /\ cTokDay[e].n + Cardinality(Between(e)) <= addsOn[e]
      BY DEF TokenInv, Counter
    <2>2. IsFiniteSet(Between(e))
      BY <1>11, Zenon
    <2>3. CASE e = d
      <3>1. Between(e)' \subseteq Between(e) \cup {s}
        BY <1>2, <2>3, Zenon
      <3>2. /\ Cardinality(Between(e)) \in Nat /\ Cardinality(Between(e)') \in Nat
            /\ Cardinality(Between(e)') <= Cardinality(Between(e)) + 1
        BY <2>2, <3>1, CountParts, Zenon
      <3>3. cTokDay[e].n + Cardinality(Between(e)') <= addsOn[e] + 1
        BY <2>1, <3>2, OneMoreSum, Zenon
      <3> QED
        BY <1>4, <1>9, <2>3, <3>3, Zenon
    <2>4. CASE e # d
      <3>1. Between(e)' \subseteq Between(e)
        BY <1>2, <2>4, Zenon
      <3>2. /\ Cardinality(Between(e)) \in Nat /\ Cardinality(Between(e)') \in Nat
            /\ Cardinality(Between(e)') <= Cardinality(Between(e))
        BY <2>2, <3>1, CountParts, Zenon
      <3>3. cTokDay[e].n + Cardinality(Between(e)') <= addsOn[e]
        BY <2>1, <3>2, SmallerSum, Zenon
      <3> QED
        BY <1>4, <1>9, <2>4, <3>3, Zenon
    <2> QED
      BY <2>3, <2>4
  <1> QED
    BY <1>4, <1>6, <1>7, <1>8, <1>9, <1>10, <1>12, <1>13, Zenon DEF TokenInv

\* A pipeline charges its day.
LEMMA ChargeDayStep ==
    ASSUME CallInv, TokenInv, NEW s \in Slots, net[s].op = "add", net[s].step = 3,
           cTokDay' = [cTokDay EXCEPT ![DayOf(net[s].min)] = Incr(@)],
           net' = [net EXCEPT ![s].step = @ + 1],
           UNCHANGED <<setup, calls, cTokMin, adds, addsOn, charged, reports>>
    PROVE  TokenInv'
  <1>0. PICK d \in Days : d = DayOf(net[s].min)
    BY DaysType DEF CallInv, Sent
  <1>1. setup \in Setups /\ d \in Days /\ time \in Nat /\ 0 \in Nat /\ net[s].step < 4 /\ 3 # 1
    BY DEF CallInv, Sent
  <1>2. /\ Resends' = Resends /\ Fresh' \subseteq Fresh
        /\ Between(d)' \subseteq Between(d) \ {s} /\ s \in Between(d)
        /\ \A e \in Days : Between(e)' \subseteq Between(e)
    <2>1. Resends' = Resends
      BY Zenon DEF calls, Resends
    <2>2. /\ net'[s].op = "add" /\ net'[s].min = net[s].min /\ net'[s].step = net[s].step + 1
          /\ \A r \in Slots : r # s => net'[r] = net[r]
      BY <1>1, PipelineMoves, Zenon
    <2>3. net'[s].step = 4
      BY <2>2
    <2> QED
      BY <1>0, <2>1, <2>2, <2>3, ChargedDay, Zenon
  <1>3. cTokDay' = [cTokDay EXCEPT ![d] = Incr(@)] /\ cTokDay[d] \in Counter
    BY <1>0, <1>1 DEF TokenInv
  <1>4. Incr(cTokDay[d]) \in Counter /\ Incr(cTokDay[d]).n = cTokDay[d].n + 1
    BY <1>1, <1>3, IncrType, Zenon
  <1>5. /\ cTokDay' \in [Days -> Counter] /\ cTokDay'[d] = Incr(cTokDay[d])
        /\ \A e \in Days : e # d => cTokDay'[e] = cTokDay[e]
    BY <1>1, <1>3, <1>4, Zenon DEF TokenInv
  <1>6. IsFiniteSet(Fresh) /\ IsFiniteSet(Resends) /\ \A e : IsFiniteSet(Between(e))
    BY <1>1, TokensFinite
  <1>7. charged' + Cardinality(Fresh') + Cardinality(Resends') <= (1 + setup'.retries) * reports'
    <2>1. Cardinality(Fresh) \in Nat /\ Cardinality(Fresh') \in Nat /\ Cardinality(Fresh') <= Cardinality(Fresh)
      BY <1>2, <1>6, CountParts, Zenon
    <2>2. Cardinality(Resends) \in Nat
      BY <1>6, FS_CardinalityType, Zenon
    <2>3. charged + Cardinality(Fresh) + Cardinality(Resends) <= (1 + setup.retries) * reports /\ charged \in Nat
      BY DEF TokenInv
    <2>4. (1 + setup.retries) * reports \in Nat
      BY <1>1, BudgetType DEF TokenInv
    <2>5. charged + Cardinality(Fresh') + Cardinality(Resends) <= (1 + setup.retries) * reports
      BY <2>1, <2>2, <2>3, <2>4
    <2> QED
      BY <1>2, <2>5, Zenon
  <1>8. ASSUME NEW e \in Days PROVE cTokDay'[e].n + Cardinality(Between(e)') <= addsOn'[e]
    <2>1. cTokDay[e].n \in Nat /\ addsOn[e] \in Nat /\ cTokDay[e].n + Cardinality(Between(e)) <= addsOn[e]
      BY DEF TokenInv, Counter
    <2>2. IsFiniteSet(Between(e))
      BY <1>6, Zenon
    <2>3. CASE e = d
      <3>1. Between(e)' \subseteq Between(e) \ {s} /\ s \in Between(e)
        BY <1>2, <2>3, Zenon
      <3>2. /\ Cardinality(Between(e)) \in Nat /\ Cardinality(Between(e)') \in Nat
            /\ Cardinality(Between(e)') + 1 <= Cardinality(Between(e))
        BY <2>2, <3>1, CountParts, Zenon
      <3>3. (cTokDay[e].n + 1) + Cardinality(Between(e)') <= addsOn[e]
        BY <2>1, <3>2, OneMoreSum, Zenon
      <3> QED
        BY <1>4, <1>5, <2>3, <3>3, Zenon
    <2>4. CASE e # d
      <3>1. Between(e)' \subseteq Between(e)
        BY <1>2, Zenon
      <3>2. /\ Cardinality(Between(e)) \in Nat /\ Cardinality(Between(e)') \in Nat
            /\ Cardinality(Between(e)') <= Cardinality(Between(e))
        BY <2>2, <3>1, CountParts, Zenon
      <3>3. cTokDay[e].n + Cardinality(Between(e)') <= addsOn[e]
        BY <2>1, <3>2, SmallerSum, Zenon
      <3> QED
        BY <1>5, <2>4, <3>3, Zenon
    <2> QED
      BY <2>3, <2>4
  <1> QED
    BY <1>5, <1>7, <1>8, Zenon DEF TokenInv

\* A counter of tokens after a tick.
LEMMA TokenTick == ASSUME CallInv, TokenInv, RedisTick PROVE TokenInv'
  <1>1. time \in Nat /\ UNCHANGED <<setup, doing, tries, net, adds, addsOn, charged, reports>>
    BY Zenon DEF CallInv, RedisTick, calls, history
  <1>2. cTokMin' = [m \in Minutes |-> Left(cTokMin[m])] /\ cTokDay' = [d \in Days |-> Left(cTokDay[d])]
    BY Zenon DEF RedisTick, Kept, Left, TokenInv
  <1>3. cTokMin' \in [Minutes -> Counter] /\ cTokDay' \in [Days -> Counter]
    BY <1>1, <1>2, LeftType DEF TokenInv
  <1>4. \A m \in Minutes : cTokMin'[m].n <= cTokMin[m].n
    BY <1>1, <1>2, LeftType, Zenon DEF TokenInv
  <1>5. \A d \in Days : cTokDay'[d].n <= cTokDay[d].n
    BY <1>1, <1>2, LeftType, Zenon DEF TokenInv
  <1>6. Fresh' = Fresh /\ Resends' = Resends /\ \A d \in Days : Between(d)' = Between(d)
    BY <1>1, Zenon DEF Fresh, Resends, Between
  <1>7. Fresh' \subseteq Fresh /\ Resends' \subseteq Resends /\ \A d \in Days : Between(d)' \subseteq Between(d)
    BY <1>6, Zenon
  <1> QED
    BY <1>1, <1>3, <1>4, <1>5, <1>7, NothingCharged, Zenon

\* The command of a pipeline that sets an expiry.
LEMMA ExpiryStep ==
    ASSUME CallInv, TokenInv, NEW m \in Minutes,
           \/ /\ cTokMin' = [cTokMin EXCEPT ![m] = Expire(@, MinuteTicks)] /\ cTokDay' = cTokDay
           \/ /\ cTokDay' = [cTokDay EXCEPT ![DayOf(m)] = Expire(@, DayTtl)] /\ cTokMin' = cTokMin,
           UNCHANGED <<setup, adds, addsOn, charged, reports>>,
           Fresh' \subseteq Fresh, Resends' \subseteq Resends,
           \A d \in Days : Between(d)' \subseteq Between(d)
    PROVE  TokenInv'
  <1>1. /\ cTokMin \in [Minutes -> Counter] /\ cTokDay \in [Days -> Counter] /\ time \in Nat
        /\ MinuteTicks \in Nat /\ DayTtl \in Nat /\ DayOf(m) \in Days
    BY TtlType, DaysType, Zenon DEF TokenInv, CallInv
  <1>2. cTokMin' \in [Minutes -> Counter] /\ \A o \in Minutes : cTokMin'[o].n = cTokMin[o].n
    <2> DEFINE x == Expire(cTokMin[m], MinuteTicks)
    <2>1. cTokMin[m] \in Counter
      BY <1>1
    <2>2. x \in Counter /\ x.n = cTokMin[m].n
      BY <1>1, <2>1, IncrType, Zenon
    <2>3. cTokMin' = [cTokMin EXCEPT ![m] = x] \/ cTokMin' = cTokMin
      OBVIOUS
    <2> HIDE DEF x
    <2> QED
      BY <1>1, <2>2, <2>3
  <1>3. cTokDay' \in [Days -> Counter] /\ \A d \in Days : cTokDay'[d].n = cTokDay[d].n
    <2> DEFINE e == DayOf(m)
               x == Expire(cTokDay[e], DayTtl)
    <2>1. cTokDay[e] \in Counter /\ e \in Days
      BY <1>1
    <2>2. x \in Counter /\ x.n = cTokDay[e].n
      BY <1>1, <2>1, IncrType, Zenon
    <2>3. cTokDay' = [cTokDay EXCEPT ![e] = x] \/ cTokDay' = cTokDay
      OBVIOUS
    <2> HIDE DEF x, e
    <2> QED
      BY <1>1, <2>1, <2>2, <2>3
  <1>4. \A o \in Minutes : cTokMin'[o].n <= cTokMin[o].n
    BY <1>1, <1>2, CounterType, Zenon
  <1>5. \A d \in Days : cTokDay'[d].n <= cTokDay[d].n
    BY <1>1, <1>3, CounterType, Zenon
  <1> QED
    BY <1>2, <1>3, <1>4, <1>5, NothingCharged, Zenon

LEMMA BeforeLast == \A i \in 1 .. 4 : i < 4 => i # 4
  OBVIOUS

\* Each command of a pipeline, and its end.
LEMMA PipelineStep ==
    ASSUME CallInv, TokenInv, NEW s \in Slots, Pipeline(s)
    PROVE  TokenInv'
  <1>1. net[s].op = "add" /\ net[s].min \in Minutes /\ net[s].step \in 1 .. 4
    BY DEF Pipeline, CallInv, Proper, Sent
  <1>2. UNCHANGED <<setup, reports>>
    BY DEF Pipeline
  <1>3. CASE net[s].step < 4
    <2>1. net' = [net EXCEPT ![s].step = @ + 1] /\ UNCHANGED calls
      <3>1. net[s].step # 4
        BY <1>1, <1>3, BeforeLast, Zenon
      <3> QED
        BY <3>1, Zenon DEF Pipeline
    <2>2. /\ net'[s].op = "add" /\ net'[s].min = net[s].min /\ net'[s].step = net[s].step + 1
          /\ \A r \in Slots : r # s => net'[r] = net[r]
      BY <1>1, <1>3, <2>1, PipelineMoves, Zenon
    <2>3. CASE net[s].step = 1
      <3>1. ChargeMinute(net[s].min)
        BY <2>3 DEF Pipeline, Command
      <3> QED
        BY <1>1, <1>2, <2>1, <2>3, <3>1, ChargeStep, Zenon
    <2>4. CASE net[s].step = 2
      <3>1. /\ cTokMin' = [cTokMin EXCEPT ![net[s].min] = Expire(@, MinuteTicks)]
            /\ UNCHANGED <<cTokDay, adds, addsOn, charged>>
        BY <2>4 DEF Pipeline, Command
      <3>2. net'[s].step = 3
        BY <2>2, <2>4
      <3>3. Fresh' \subseteq Fresh /\ \A d \in Days : Between(d)' \subseteq Between(d)
        BY <1>1, <2>2, <2>4, <3>2, MinuteExpires, Zenon
      <3>4. Resends' \subseteq Resends
        BY <1>2, <2>1, Zenon DEF calls, Resends
      <3> QED
        BY <1>1, <1>2, <3>1, <3>3, <3>4, ExpiryStep, Zenon
    <2>5. CASE net[s].step = 3
      <3>1. /\ cTokDay' = [cTokDay EXCEPT ![DayOf(net[s].min)] = Incr(@)]
            /\ UNCHANGED <<cTokMin, adds, addsOn, charged>>
        BY <2>5 DEF Pipeline, Command
      <3> QED
        BY <1>1, <1>2, <2>1, <2>5, <3>1, ChargeDayStep, Zenon
    <2> QED
      BY <1>1, <1>3, <2>3, <2>4, <2>5
  <1>4. CASE net[s].step = 4
    <2>1. /\ cTokDay' = [cTokDay EXCEPT ![DayOf(net[s].min)] = Expire(@, DayTtl)]
          /\ UNCHANGED <<cTokMin, adds, addsOn, charged>>
      BY <1>4 DEF Pipeline, Command
    <2>2. Heard(s) \/ Unanswered(s)
      BY <1>4 DEF Pipeline
    <2>3. /\ Resends' \subseteq Resends /\ Fresh' \subseteq Fresh
          /\ \A d \in Days : Between(d)' \subseteq Between(d)
      BY <1>2, <2>2, AnswerEnds, Zenon
    <2> QED
      BY <1>1, <1>2, <2>1, <2>3, ExpiryStep, Zenon
  <1> QED
    BY <1>1, <1>3, <1>4

LEMMA TokenStep == ASSUME CallInv, TokenInv, [RedisNext]_redis PROVE TokenInv'
  <1>1. ASSUME NEW c \in Callers, NEW op \in Ops, NEW s \in Slots, Call(c, op, s) PROVE TokenInv'
    <2>1. CASE op = "add"
      BY <1>1, <2>1, ReportStep, Zenon
    <2>2. CASE op # "add"
      <3>1. UNCHANGED <<setup, cTokMin, cTokDay, adds, addsOn, charged, reports>>
        BY <1>1, <2>2 DEF Call, counters
      <3>2. MinuteAt(c) \in Minutes
        BY NamedMinute DEF CallInv
      <3>3. Fresh' \subseteq Fresh /\ \A d \in Days : Between(d)' \subseteq Between(d)
        BY <1>1, <2>2, <3>2, SendAdds, Zenon DEF Call
      <3>4. doing'[c] = op /\ \A o \in Callers : o # c => doing'[o] = doing[o] /\ tries'[o] = tries[o]
        BY <1>1, Zenon DEF Call, CallInv
      <3>5. Resends' \subseteq Resends
        BY <2>2, <3>1, <3>4 DEF Resends
      <3> QED
        BY <3>1, <3>3, <3>5, TokensSame, Zenon
    <2> QED
      BY <2>1, <2>2
  <1>2. ASSUME NEW c \in Callers, NEW s \in Slots, Retry(c, s) PROVE TokenInv'
    BY <1>2, ResendStep
  <1>3. ASSUME NEW c \in Callers, GiveUp(c) PROVE TokenInv'
    <2>1. net \in [Slots -> Sent] /\ \A r \in Slots : net[r] = Free \/ net[r] = net[r]
      BY DEF CallInv
    <2>2. /\ Resends' \subseteq Resends /\ Fresh' \subseteq Fresh
          /\ \A d \in Days : Between(d)' \subseteq Between(d)
      BY <1>3, <2>1, ReturnEnds, Zenon DEF GiveUp
    <2> QED
      BY <1>3, <2>2, TokensSame, Zenon DEF GiveUp, counters, history
  <1>4. ASSUME NEW s \in Slots, Reserve(s) PROVE TokenInv'
    <2>1. setup' = setup /\ (Heard(s) \/ Unanswered(s))
      BY <1>4, Zenon DEF Reserve, Refuse, Admit, AdmitUnheard
    <2>2. /\ Resends' \subseteq Resends /\ Fresh' \subseteq Fresh
          /\ \A d \in Days : Between(d)' \subseteq Between(d)
      BY <2>1, AnswerEnds, Zenon
    <2> QED
      BY <1>4, <2>2, TokensSame, Zenon DEF Reserve
  <1>5. ASSUME NEW s \in Slots, Pipeline(s) PROVE TokenInv'
    BY <1>5, PipelineStep
  <1>6. ASSUME NEW s \in Slots, Lose(s) PROVE TokenInv'
    <2>1. setup' = setup /\ Unanswered(s)
      BY <1>6 DEF Lose
    <2>2. /\ Resends' \subseteq Resends /\ Fresh' \subseteq Fresh
          /\ \A d \in Days : Between(d)' \subseteq Between(d)
      BY <2>1, AnswerEnds, Zenon
    <2> QED
      BY <1>6, <2>2, TokensSame, Zenon DEF Lose, counters, history
  <1>7. CASE RedisTick
    BY <1>7, TokenTick
  <1>8. CASE UNCHANGED redis
    <2>1. Fresh' = Fresh /\ Resends' = Resends /\ \A d \in Days : Between(d)' = Between(d)
      BY <1>8, Zenon DEF redis, calls, Fresh, Resends, Between
    <2>2. Fresh' \subseteq Fresh /\ Resends' \subseteq Resends /\ \A d \in Days : Between(d)' \subseteq Between(d)
      BY <2>1, Zenon
    <2> QED
      BY <1>8, <2>2, TokensSame, Zenon DEF redis, counters, history
  <1> QED
    BY <1>1, <1>2, <1>3, <1>4, <1>5, <1>6, <1>7, <1>8 DEF RedisNext

-----------------------------------------------------------------------------
(* The theorems *)

\* The limiter in Redis: calls and commands, requests and tokens.
RedisInv == CallInv /\ AdmitInv /\ TokenInv

\* The inductive invariant holds, whatever the limits, the lengths of minutes
\* and days and the number of gateways and connections.
THEOREM RedisInvariance == RedisSpec => []RedisInv
  <1>1. RedisInit => RedisInv
    BY CallInit, AdmitInit, TokenInit DEF RedisInv
  <1>2. RedisInv /\ [RedisNext]_redis => RedisInv'
    BY CallStep, AdmitStep, TokenStep DEF RedisInv
  <1> QED
    BY <1>1, <1>2, PTL DEF RedisSpec

\* The shared caps hold (reserveScript, AddTokens).
THEOREM SharedCaps == RedisSpec => []SharedCapsHold
  <1>1. RedisInv => SharedCapsHold
    <2> SUFFICES ASSUME RedisInv PROVE SharedCapsHold
      OBVIOUS
    <2>1. setup \in Setups /\ setup.retries \in Nat
      BY LimitsType DEF RedisInv, CallInv
    <2>2. RedisTypes
      BY Zenon DEF RedisInv, CallInv, AdmitInv, TokenInv, RedisTypes
    <2>3. MinuteCapHolds
      BY Zenon DEF RedisInv, AdmitInv, MinuteKept, MinuteCapHolds
    <2>4. DayCapHolds
      BY DEF RedisInv, AdmitInv, DayKept, DayCapHolds
    <2>5. DayIsExact
      <3>1. \A d \in Days : cDay[d].n = 0 => ~(cDay[d].n > 0)
        OBVIOUS
      <3> QED
        BY <3>1, Zenon DEF RedisInv, AdmitInv, DayKept, DayIsExact
    <2>6. IsFiniteSet(Fresh) /\ IsFiniteSet(Resends) /\ \A d : IsFiniteSet(Between(d))
      BY <2>1, TokensFinite
    <2>7. MinuteIsChargedFirst
      <3> SUFFICES ASSUME NEW d \in Days PROVE cTokDay[d].n <= addsOn[d]
        BY DEF MinuteIsChargedFirst
      <3>1. cTokDay[d].n \in Nat /\ addsOn[d] \in Nat /\ cTokDay[d].n + Cardinality(Between(d)) <= addsOn[d]
        BY DEF RedisInv, TokenInv, Counter
      <3>2. Cardinality(Between(d)) \in Nat
        BY <2>6, FS_CardinalityType, Zenon
      <3> QED
        BY <3>1, <3>2
    <2>8. ChargedPerSending
      <3>1. Cardinality(Fresh) \in Nat /\ Cardinality(Resends) \in Nat
        BY <2>6, FS_CardinalityType, Zenon
      <3>2. (1 + setup.retries) * reports \in Nat /\ charged \in Nat
        BY <2>1, BudgetType DEF RedisInv, TokenInv
      <3>3. charged + Cardinality(Fresh) + Cardinality(Resends) <= (1 + setup.retries) * reports
        BY DEF RedisInv, TokenInv
      <3> QED
        BY <3>1, <3>2, <3>3 DEF ChargedPerSending
    <2> QED
      BY <2>2, <2>3, <2>4, <2>5, <2>7, <2>8 DEF SharedCapsHold
  <1> QED
    BY <1>1, RedisInvariance, PTL

\* A limit that the script finds reached is made up.
LEMMA RejectsAtLimit ==
    ASSUME RedisInv, NEW m \in Minutes, Rejects(m)
    PROVE  AtLimit(m)
  <1> DEFINE d == DayOf(m)
  <1>1. setup \in Setups /\ d \in Days
    BY DaysType, Zenon DEF RedisInv, CallInv
  <1>2. /\ setup.rpm \in Nat /\ setup.tpm \in Nat /\ setup.dayReq \in Nat /\ setup.dayTok \in Nat
    BY <1>1, LimitsType, Zenon
  <1>3. /\ cMin[m] \in Counter /\ cDay[d] \in Counter /\ granted[m] \in Seq(Nat)
        /\ unheard[m] \in Nat /\ grantedOn[d] \in Nat /\ unheardOn[d] \in Nat
    BY <1>1, Zenon DEF RedisInv, AdmitInv
  <1>4. cTokMin[m] \in Counter /\ cTokDay[d] \in Counter /\ adds[m] \in Nat /\ addsOn[d] \in Nat
    BY <1>1, Zenon DEF RedisInv, TokenInv
  <1>5. /\ cMin[m].n \in Nat /\ cDay[d].n \in Nat /\ cTokMin[m].n \in Nat /\ cTokDay[d].n \in Nat
        /\ Len(granted[m]) \in Nat
    BY <1>3, <1>4, CounterType, LengthType, Zenon
  <1>6. Len(granted[m]) + unheard[m] \in Nat /\ grantedOn[d] + unheardOn[d] \in Nat
    BY <1>3, <1>5, NoMore, Zenon
  <1>7. cMin[m].n <= Len(granted[m]) + unheard[m]
    BY Zenon DEF RedisInv, AdmitInv, MinuteKept
  <1>8. cTokMin[m].n <= adds[m]
    BY Zenon DEF RedisInv, TokenInv
  <1>9. cDay[d].n <= grantedOn[d] + unheardOn[d]
    <2>1. cDay[d].n = grantedOn[d] + unheardOn[d] \/ cDay[d].n = 0
      BY <1>1, Zenon DEF RedisInv, AdmitInv, DayKept
    <2> QED
      BY <1>3, <1>5, <2>1, NoMore, Zenon
  <1>10. cTokDay[d].n <= addsOn[d]
    <2>1. Cardinality(Between(d)) \in Nat
      BY <1>1, TokensFinite, FS_CardinalityType, Zenon
    <2>2. cTokDay[d].n + Cardinality(Between(d)) <= addsOn[d]
      BY <1>1, Zenon DEF RedisInv, TokenInv
    <2>3. cTokDay[d].n <= cTokDay[d].n + Cardinality(Between(d)) /\ cTokDay[d].n + Cardinality(Between(d)) \in Nat
      BY <1>5, <2>1, NoMore, Zenon
    <2> QED
      BY <1>4, <1>5, <2>2, <2>3, AtMost, Zenon
  <1>11. \/ Over(setup.rpm, cMin[m])    \/ Over(setup.tpm, cTokMin[m])
         \/ Over(setup.dayReq, cDay[d]) \/ Over(setup.dayTok, cTokDay[d])
    BY Zenon DEF Rejects
  <1>12. Over(setup.rpm, cMin[m]) => setup.rpm > 0 /\ Len(granted[m]) + unheard[m] >= setup.rpm
    BY <1>2, <1>5, <1>6, <1>7, AtLeast, Zenon DEF Over
  <1>13. Over(setup.tpm, cTokMin[m]) => setup.tpm > 0 /\ adds[m] >= setup.tpm
    BY <1>2, <1>4, <1>5, <1>8, AtLeast, Zenon DEF Over
  <1>14. Over(setup.dayReq, cDay[d]) => setup.dayReq > 0 /\ grantedOn[d] + unheardOn[d] >= setup.dayReq
    BY <1>2, <1>5, <1>6, <1>9, AtLeast, Zenon DEF Over
  <1>15. Over(setup.dayTok, cTokDay[d]) => setup.dayTok > 0 /\ addsOn[d] >= setup.dayTok
    BY <1>2, <1>4, <1>5, <1>10, AtLeast, Zenon DEF Over
  <1> QED
    BY <1>11, <1>12, <1>13, <1>14, <1>15, Zenon DEF AtLimit

\* Only the script ends a call of CheckAndReserve with a refusal.
LEMMA RefusalStep == ASSUME RedisInv, RedisNext PROVE RefusalIsDue
  <1> SUFFICES ASSUME NEW c \in Callers, Refuses(c) PROVE AtLimit(min[c])
    BY DEF RefusalIsDue
  <1>1. /\ doing[c] = "reserve" /\ doing'[c] = "idle" /\ granted' = granted
        /\ "reserve" # "idle" /\ "reserve" # "add"
    BY DEF Refuses
  <1>2. CallInv /\ AdmitInv /\ doing \in [Callers -> {"idle"} \cup Ops] /\ net \in [Slots -> Sent]
    BY Zenon DEF RedisInv, CallInv
  <1>3. ASSUME NEW o \in Callers, NEW op \in Ops, NEW s \in Slots, Call(o, op, s) PROVE FALSE
    <2>1. doing' = [doing EXCEPT ![o] = op] /\ op # "idle"
      BY <1>3 DEF Call, Ops
    <2> QED
      BY <1>1, <1>2, <2>1
  <1>4. ASSUME NEW o \in Callers, NEW s \in Slots, Retry(o, s) PROVE FALSE
    BY <1>1, <1>4, Zenon DEF Retry
  <1>5. ASSUME NEW o \in Callers, GiveUp(o) PROVE FALSE
    <2>1. PICK s \in Slots : net[s] # Free /\ net'[s] = Free
      BY Zenon DEF Refuses
    <2>2. net[s] \in Sent /\ net[s].op # "none"
      BY <1>2, <2>1, Zenon DEF CallInv, Proper
    <2>3. net'[s].op = net[s].op
      BY <1>5, <2>2, OrphanType, Zenon DEF GiveUp, Return, Orphaned
    <2> QED
      BY <2>1, <2>2, <2>3, FreeType, Zenon
  <1>6. ASSUME NEW s \in Slots, Heard(s) PROVE c = net[s].to /\ net[s].op = "reserve" /\ net[s].min = min[c]
    <2>1. net[s].to \in Callers /\ net[s].to # NoOne
      BY <1>2, <1>6 DEF Heard, Sent
    <2>2. doing' = [doing EXCEPT ![net[s].to] = "idle"]
      BY <1>6 DEF Heard, Return
    <2>3. c = net[s].to
      BY <1>1, <1>2, <2>1, <2>2
    <2>4. Proper(net[s])
      BY <1>2 DEF CallInv
    <2> QED
      BY <1>1, <2>1, <2>3, <2>4, Zenon DEF Proper
  <1>7. ASSUME NEW s \in Slots, Reserve(s) PROVE AtLimit(min[c])
    <2>1. ~Unanswered(s)
      BY <1>1 DEF Unanswered, calls
    <2>2. ~Admit(s)
      <3> SUFFICES ASSUME Admit(s) PROVE FALSE
        OBVIOUS
      <3> DEFINE m == net[s].min
      <3>1. m \in Minutes
        BY <1>2 DEF Sent
      <3>2. granted' = [granted EXCEPT ![m] = Append(@, time)]
        BY Zenon DEF Admit
      <3> HIDE DEF m
      <3>3. granted \in [Minutes -> Seq(Nat)] /\ time \in Nat
        BY <1>2, Zenon DEF AdmitInv, CallInv
      <3>4. granted'[m] = Append(granted[m], time)
        BY <3>1, <3>2, <3>3
      <3>5. Len(Append(granted[m], time)) # Len(granted[m])
        BY <3>1, <3>3
      <3> QED
        BY <1>1, <3>4, <3>5, Zenon
    <2>3. Refuse(s) /\ Heard(s)
      BY <1>7, <2>1, <2>2, Zenon DEF Reserve, Refuse, AdmitUnheard
    <2>4. Rejects(min[c]) /\ min[c] \in Minutes
      BY <1>2, <1>6, <2>3, Zenon DEF Refuse, CallInv
    <2> QED
      BY <2>4, RejectsAtLimit
  <1>8. ASSUME NEW s \in Slots, Pipeline(s) PROVE FALSE
    <2>1. doing' = doing \/ Heard(s)
      BY <1>8, Zenon DEF Pipeline, Unanswered, calls
    <2>2. net[s].op # "reserve"
      BY <1>1, <1>8 DEF Pipeline
    <2> QED
      BY <1>1, <1>6, <2>1, <2>2, Zenon
  <1>9. ASSUME NEW s \in Slots, Lose(s) PROVE FALSE
    BY <1>1, <1>9 DEF Lose, Unanswered, calls
  <1>10. ~RedisTick
    BY <1>1, Zenon DEF RedisTick, calls
  <1> QED
    BY <1>3, <1>4, <1>5, <1>7, <1>8, <1>9, <1>10 DEF RedisNext

\* A refusal of the script is due (reserveScript).
THEOREM RefusalsAreDue == RedisSpec => RefusedOnlyAtLimit
  <1>1. RedisInv /\ [RedisNext]_redis => [RefusalIsDue]_redis
    BY RefusalStep
  <1> QED
    BY <1>1, RedisInvariance, PTL DEF RedisSpec, RefusedOnlyAtLimit


=============================================================================
