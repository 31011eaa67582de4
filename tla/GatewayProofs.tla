-------------------------- MODULE GatewayProofs ---------------------------
(***************************************************************************)
(* What one step of Gateway does, and who holds what after it, for every   *)
(* value of its constants.  A step keeps the types and the shape of the    *)
(* handlers and moves one handler from a known step to a known step; the   *)
(* counters of the slots, of the keys and of the queues are exact.         *)
(***************************************************************************)
EXTENDS Gateway, FiniteSetTheorems, TLAPS

\* At most is an order, and nothing is added by 0.
LEMMA OrderFacts ==
    /\ \A a \in Nat : a <= a /\ a + 0 = a
    /\ \A a, b, c \in Nat : a <= b /\ b <= c => a <= c
    OBVIOUS

(***************************************************************************)
(* Literals of the two enumerations.                                       *)
(***************************************************************************)

\* Every step a handler can move to is a step.
LEMMA StepFacts ==
    {"idle", "lookup", "reserve", "quota", "limit", "concurrency", "delay",
     "queue", "waiting", "dequeue", "refused", "account", "route", "acquire",
     "reroute", "reacquire", "rebuild", "forward", "settle", "relqueue", "relconc", "done",
     QueueStep, ReleaseStep} \subseteq Steps
    BY Zenon DEF Steps, QueueStep, ReleaseStep

\* Every code a handler can answer is a code.
LEMMA CodeFacts ==
    /\ EarlyErrors \cup QuotaCodes \cup
       {"", "model_not_found", "concurrent_limit", "client_canceled",
        "queue_full", "queue_timeout", "no_healthy_backend",
        "backend_at_capacity", "ok", "backend_error", "invalid_request"} \subseteq Codes
    /\ \A rs, ts : LimiterVerdict(rs, ts) \in Codes /\ QuotaVerdict(rs, ts) \in Codes
    BY Zenon DEF Codes, EarlyErrors, QuotaCodes, LimiterVerdict, QuotaVerdict

(***************************************************************************)
(* How a handler moves on.                                                 *)
(***************************************************************************)

\* Goto moves r and nobody else.
LEMMA GotoEffect ==
    ASSUME pc \in [Requests -> Steps], NEW r \in Requests, NEW step \in Steps,
           Goto(r, step)
    PROVE  /\ pc' \in [Requests -> Steps]
           /\ pc'[r] = step
           /\ \A q \in Requests \ {r} : pc'[q] = pc[q]
    BY Zenon DEF Goto

\* Answer moves r, sets its code and changes no other local.
LEMMA AnswerEffect ==
    ASSUME pc \in [Requests -> Steps], rq \in [Requests -> LocalType],
           NEW r \in Requests, NEW step \in Steps, NEW c \in Codes,
           Answer(r, step, c)
    PROVE  /\ pc' \in [Requests -> Steps]
           /\ rq' \in [Requests -> LocalType]
           /\ pc'[r] = step
           /\ \A q \in Requests \ {r} : pc'[q] = pc[q] /\ rq'[q] = rq[q]
           /\ rq'[r].key = rq[r].key
           /\ rq'[r].model = rq[r].model
           /\ rq'[r].pick = rq[r].pick
           /\ rq'[r].limit = rq[r].limit
    BY DEF Goto, Answer, LocalType

\* Setting the candidates of r.
LEMMA CandEffect ==
    ASSUME rq \in [Requests -> LocalType], NEW r \in Requests,
           NEW S \in SUBSET Backends, rq' = [rq EXCEPT ![r].cand = S]
    PROVE  /\ rq' \in [Requests -> LocalType]
           /\ \A q \in Requests \ {r} : rq'[q] = rq[q]
           /\ rq'[r].key = rq[r].key
           /\ rq'[r].model = rq[r].model
           /\ rq'[r].pick = rq[r].pick
           /\ rq'[r].limit = rq[r].limit
    BY DEF LocalType

\* Setting the backend r picked.
LEMMA PickEffect ==
    ASSUME rq \in [Requests -> LocalType], NEW r \in Requests,
           NEW b \in Backends, rq' = [rq EXCEPT ![r].pick = b]
    PROVE  /\ rq' \in [Requests -> LocalType]
           /\ \A q \in Requests \ {r} : rq'[q] = rq[q]
           /\ rq'[r].key = rq[r].key
           /\ rq'[r].model = rq[r].model
           /\ rq'[r].pick = b
           /\ rq'[r].limit = rq[r].limit
    BY DEF LocalType

\* Setting the limit r read.
LEMMA LimitEffect ==
    ASSUME rq \in [Requests -> LocalType], NEW r \in Requests,
           NEW n \in Nat, rq' = [rq EXCEPT ![r].limit = n]
    PROVE  /\ rq' \in [Requests -> LocalType]
           /\ \A q \in Requests \ {r} : rq'[q] = rq[q]
           /\ rq'[r].key = rq[r].key
           /\ rq'[r].model = rq[r].model
           /\ rq'[r].pick = rq[r].pick
           /\ rq'[r].limit = n
    BY DEF LocalType

\* Setting the usage reported for r.
LEMMA UsageEffect ==
    ASSUME rq \in [Requests -> LocalType], NEW r \in Requests,
           NEW n \in Nat, rq' = [rq EXCEPT ![r].usage = n]
    PROVE  /\ rq' \in [Requests -> LocalType]
           /\ \A q \in Requests \ {r} : rq'[q] = rq[q]
           /\ rq'[r].key = rq[r].key
           /\ rq'[r].model = rq[r].model
           /\ rq'[r].pick = rq[r].pick
           /\ rq'[r].limit = rq[r].limit
    BY DEF LocalType

\* The locals a handler starts with.
LEMMA IncomingType ==
    ASSUME NEW i \in Incoming
    PROVE  i \in LocalType /\ i.limit = 0
  <1>1. /\ i.key \in Keys \cup {NoKey} /\ i.model \in Models
        /\ i.cand = {} /\ i.pick = NoBackend /\ i.limit = 0 /\ i.usage = NoUsage
        /\ i = [key |-> i.key, model |-> i.model, kind |-> i.kind, cand |-> i.cand,
                pick |-> i.pick, limit |-> i.limit, usage |-> i.usage, code |-> i.code]
    BY Zenon DEF Incoming
  <1>2. i.kind \in Kinds /\ i.code = ""
    BY Zenon DEF Incoming
  <1>3. i.kind \in AllKinds
    BY <1>2, SetsAssumption, Zenon
  <1>4. i.code \in Codes
    BY <1>2, CodeFacts, Zenon
  <1> QED
    BY <1>1, <1>3, <1>4 DEF LocalType

\* A new request.
LEMMA IncomingEffect ==
    ASSUME rq \in [Requests -> LocalType], NEW r \in Requests,
           NEW i \in Incoming, rq' = [rq EXCEPT ![r] = i]
    PROVE  /\ rq' \in [Requests -> LocalType]
           /\ \A q \in Requests \ {r} : rq'[q] = rq[q]
           /\ rq'[r].limit = 0
    BY IncomingType, Zenon

\* The types of single locals.
LEMMA LocalFields ==
    ASSUME rq \in [Requests -> LocalType], NEW r \in Requests
    PROVE  /\ rq[r].key \in Keys \cup {NoKey}
           /\ rq[r].model \in Models
           /\ rq[r].cand \subseteq Backends
           /\ rq[r].pick \in Backends \cup {NoBackend}
           /\ rq[r].limit \in Nat
    BY Zenon DEF LocalType

\* Rolling a bucket keeps its type and never raises a counter.
LEMMA RollType ==
    ASSUME NEW f \in [Windows -> Nat], NEW S
    PROVE  /\ Roll(f, S) \in [Windows -> Nat]
           /\ \A w \in Windows : Roll(f, S)[w] <= f[w]
    BY DEF Roll

\* Charging tokens keeps the types of the meters and never raises a request
\* counter.
LEMMA ChargeEffect ==
    ASSUME reqs \in [Keys -> [Windows -> Nat]], toks \in [Keys -> [Windows -> Nat]],
           NEW k \in Keys \cup {NoKey}, NEW n \in Nat, Charge(k, n)
    PROVE  /\ reqs' \in [Keys -> [Windows -> Nat]]
           /\ toks' \in [Keys -> [Windows -> Nat]]
           /\ \A j \in Keys, w \in Windows : reqs'[j][w] <= reqs[j][w]
  <1>1. CASE UNCHANGED <<reqs, toks>>
    BY <1>1
  <1>2. CASE ~ UNCHANGED <<reqs, toks>>
    <2>1. k \in Keys
      BY <1>2, Zenon DEF Charge
    <2>2. PICK expired \in SUBSET Elapsing :
            /\ reqs' = [reqs EXCEPT ![k] = Roll(reqs[k], expired)]
            /\ toks' = [toks EXCEPT ![k] = [w \in Windows |-> Roll(toks[k], expired)[w] + n]]
      BY <1>2, Zenon DEF Charge
    <2>3. /\ Roll(reqs[k], expired) \in [Windows -> Nat]
          /\ Roll(toks[k], expired) \in [Windows -> Nat]
          /\ \A w \in Windows : Roll(reqs[k], expired)[w] <= reqs[k][w]
      BY <2>1, RollType, Zenon
    <2>4. [w \in Windows |-> Roll(toks[k], expired)[w] + n] \in [Windows -> Nat]
      BY <2>3
    <2> QED
      BY <2>1, <2>2, <2>3, <2>4
  <1> QED
    BY <1>1, <1>2, Zenon

(***************************************************************************)
(* Type correctness.                                                       *)
(***************************************************************************)

\* A request inside the queue, or holding a turn, is counted there.
LEMMA CountedInQueue ==
    ASSUME TypeOK, QueueAccounting, HandlerShape, NEW r \in Requests
    PROVE  /\ pc[r] \in {"dequeue", "refused"} => queued[Model(r)] > 0
           /\ pc[r] = "relqueue" => sem[Model(r)] > 0
  <1> DEFINE m == Model(r)
  <1>1. m \in Models
    BY LocalFields, Zenon DEF TypeOK, Model
  <1>2. IsFiniteSet(InQueue(m)) /\ IsFiniteSet(TurnHolders(m))
    BY SetsAssumption, FS_Subset, Zenon DEF InQueue, TurnHolders
  <1>3. ASSUME pc[r] \in {"dequeue", "refused"} PROVE queued[m] > 0
    <2>1. r \in InQueue(m)
      BY <1>3, Zenon DEF InQueue
    <2>2. Cardinality(InQueue(m)) \in Nat /\ Cardinality(InQueue(m)) # 0
      BY <2>1, <1>2, FS_CardinalityType, FS_EmptySet, Zenon
    <2> QED
      BY <2>2, <1>1 DEF QueueAccounting
  <1>4. ASSUME pc[r] = "relqueue" PROVE sem[m] > 0
    <2>1. r \in TurnHolders(m)
      BY <1>4, Zenon DEF TurnHolders, HandlerShape, QueueHeldSteps
    <2>2. Cardinality(TurnHolders(m)) \in Nat /\ Cardinality(TurnHolders(m)) # 0
      BY <2>1, <1>2, FS_CardinalityType, FS_EmptySet, Zenon
    <2> QED
      BY <2>2, <1>1 DEF QueueAccounting
  <1> QED
    BY <1>3, <1>4, Zenon

\* Counting quota hits keeps their type.
LEMMA HitsType ==
    ASSUME hits \in [Keys -> Nat], NEW r \in Requests, Key(r) \in Keys, NEW c,
           CountHits(r, c)
    PROVE  hits' \in [Keys -> Nat]
    BY DEF CountHits

\* Every step keeps the types.
LEMMA TypeStep ==
    ASSUME TypeOK, HandlerShape, QueueAccounting, Next
    PROVE  TypeOK'
  <1>1. ASSUME NEW r \in Requests, Arrive(r) PROVE TypeOK'
    <2>1. pc' \in [Requests -> Steps] /\ rq' \in [Requests -> LocalType]
      BY <1>1, GotoEffect, IncomingEffect, StepFacts, Zenon DEF TypeOK, Arrive
    <2>2. arrivals' \in 0 .. MaxArrivals
      BY <1>1, SetsAssumption DEF TypeOK, Arrive
    <2> QED
      BY <1>1, <2>1, <2>2, Zenon DEF TypeOK, Arrive, registry, counters, meters
  <1>2. ASSUME NEW r \in Requests, Validate(r) PROVE TypeOK'
    BY <1>2, AnswerEffect, GotoEffect, StepFacts, CodeFacts, Zenon
       DEF TypeOK, Validate, registry, counters, meters
  <1>3. ASSUME NEW r \in Requests, Lookup(r) PROVE TypeOK'
    <2> DEFINE cand == {b \in Backends : Model(r) \in serves[b]}
    <2>1. CASE Answer(r, "done", "model_not_found")
      BY <1>3, <2>1, AnswerEffect, StepFacts, CodeFacts, Zenon
         DEF TypeOK, Lookup, registry, counters, meters
    <2>2. CASE rq' = [rq EXCEPT ![r].cand = cand] /\ \E step \in Steps : Goto(r, step)
      <3>1. cand \in SUBSET Backends
        BY Zenon
      <3> HIDE DEF cand
      <3> QED
        BY <1>3, <2>2, <3>1, CandEffect, GotoEffect, Zenon
           DEF TypeOK, Lookup, registry, counters, meters
    <2> QED
      BY <1>3, <2>1, <2>2, StepFacts, Zenon DEF Lookup
  <1>4. ASSUME NEW r \in Requests, Reserve(r) PROVE TypeOK'
    <2>1. Key(r) \in Keys
      BY <1>4, Zenon DEF HandlerShape, Reserve
    <2> DEFINE k == Key(r)
    <2>2. PICK expired \in SUBSET (Elapsing \cap {"minute", "day"}) :
            LET rs == Roll(reqs[k], expired)
                ts == Roll(toks[k], expired)
                c  == LimiterVerdict(rs, ts)
            IN  /\ toks' = [toks EXCEPT ![k] = ts]
                /\ \/ /\ c = ""
                      /\ reqs' = [reqs EXCEPT ![k] =
                           [rs EXCEPT !["minute"] = @ + 1, !["day"] = @ + 1]]
                      /\ Goto(r, "quota")
                      /\ UNCHANGED <<rq, hits>>
                   \/ /\ c # ""
                      /\ reqs' = [reqs EXCEPT ![k] = rs]
                      /\ Answer(r, "done", c)
                      /\ CountHits(r, c)
      BY <1>4, Zenon DEF Reserve
    <2> DEFINE rs == Roll(reqs[k], expired)
               ts == Roll(toks[k], expired)
               c  == LimiterVerdict(rs, ts)
    <2>3. rs \in [Windows -> Nat] /\ ts \in [Windows -> Nat] /\ c \in Codes
      BY <2>1, RollType, CodeFacts, Zenon DEF TypeOK
    <2>4. [rs EXCEPT !["minute"] = @ + 1, !["day"] = @ + 1] \in [Windows -> Nat]
      BY <2>3 DEF Windows
    <2> HIDE DEF rs, ts, c
    <2>5. toks' \in [Keys -> [Windows -> Nat]] /\ reqs' \in [Keys -> [Windows -> Nat]]
      <3>1. \A f \in [Keys -> [Windows -> Nat]] : \A w \in [Windows -> Nat] :
              [f EXCEPT ![k] = w] \in [Keys -> [Windows -> Nat]]
        BY <2>1, Zenon
      <3>2. /\ toks \in [Keys -> [Windows -> Nat]] /\ reqs \in [Keys -> [Windows -> Nat]]
        BY Zenon DEF TypeOK
      <3>3. /\ toks' = [toks EXCEPT ![k] = ts]
            /\ \/ reqs' = [reqs EXCEPT ![k] = [rs EXCEPT !["minute"] = @ + 1, !["day"] = @ + 1]]
               \/ reqs' = [reqs EXCEPT ![k] = rs]
        BY <2>2, Zenon DEF rs, ts, c
      <3>4. toks' \in [Keys -> [Windows -> Nat]]
        BY <2>3, <3>1, <3>2, <3>3, Zenon
      <3>5. reqs' \in [Keys -> [Windows -> Nat]]
        <4>1. CASE reqs' = [reqs EXCEPT ![k] = rs]
          BY <2>3, <3>1, <3>2, <4>1, Zenon
        <4>2. CASE reqs' = [reqs EXCEPT ![k] = [rs EXCEPT !["minute"] = @ + 1, !["day"] = @ + 1]]
          BY <2>4, <3>1, <3>2, <4>2, Zenon
        <4> QED BY <3>3, <4>1, <4>2, Zenon
      <3> QED
        BY <3>4, <3>5, Zenon
    <2>6. pc' \in [Requests -> Steps] /\ rq' \in [Requests -> LocalType]
      BY <2>2, <2>3, AnswerEffect, GotoEffect, StepFacts, CodeFacts, Zenon DEF TypeOK, rs, ts, c
    <2>7. hits' \in [Keys -> Nat]
      BY <2>1, <2>2, HitsType, Zenon DEF TypeOK, rs, ts, c
    <2> QED
      BY <1>4, <2>5, <2>6, <2>7, Zenon DEF TypeOK, Reserve, registry, counters
  <1>5. ASSUME NEW r \in Requests, CheckQuota(r) PROVE TypeOK'
    <2>1. Key(r) \in Keys
      BY <1>5, Zenon DEF HandlerShape, CheckQuota
    <2> DEFINE k == Key(r)
    <2>2. PICK expired \in SUBSET (Elapsing \cap {"month"}) :
            LET rs == Roll(reqs[k], expired)
                ts == Roll(toks[k], expired)
                c  == QuotaVerdict(rs, ts)
            IN  /\ reqs' = [reqs EXCEPT ![k] = rs]
                /\ toks' = [toks EXCEPT ![k] = ts]
                /\ \/ /\ c = ""
                      /\ Goto(r, "limit")
                      /\ UNCHANGED <<rq, hits>>
                   \/ /\ c # ""
                      /\ Answer(r, "done", c)
                      /\ CountHits(r, c)
      BY <1>5, Zenon DEF CheckQuota
    <2> DEFINE rs == Roll(reqs[k], expired)
               ts == Roll(toks[k], expired)
               c  == QuotaVerdict(rs, ts)
    <2>3. rs \in [Windows -> Nat] /\ ts \in [Windows -> Nat] /\ c \in Codes
      BY <2>1, RollType, CodeFacts, Zenon DEF TypeOK
    <2> HIDE DEF rs, ts, c
    <2>5. toks' \in [Keys -> [Windows -> Nat]] /\ reqs' \in [Keys -> [Windows -> Nat]]
      BY <2>1, <2>2, <2>3, Zenon DEF TypeOK, rs, ts, c
    <2>6. pc' \in [Requests -> Steps] /\ rq' \in [Requests -> LocalType]
      BY <2>2, <2>3, AnswerEffect, GotoEffect, StepFacts, CodeFacts, Zenon DEF TypeOK, rs, ts, c
    <2>7. hits' \in [Keys -> Nat]
      BY <2>1, <2>2, HitsType, Zenon DEF TypeOK, rs, ts, c
    <2> QED
      BY <1>5, <2>5, <2>6, <2>7, Zenon DEF TypeOK, CheckQuota, registry, counters
  <1>6. ASSUME NEW r \in Requests, AcquireConc(r) PROVE TypeOK'
    <2>1. Key(r) \in Keys
      BY <1>6, Zenon DEF HandlerShape, AcquireConc
    <2>3. pc' \in [Requests -> Steps] /\ rq' \in [Requests -> LocalType]
      BY <1>6, AnswerEffect, GotoEffect, StepFacts, CodeFacts, Zenon
         DEF TypeOK, AcquireConc
    <2>4. conc' \in [Keys -> Nat]
      <3>1. conc' = conc \/ conc' = [conc EXCEPT ![Key(r)] = conc[Key(r)] + 1]
        BY <1>6, Zenon DEF AcquireConc
      <3>2. conc \in [Keys -> Nat]
        BY Zenon DEF TypeOK
      <3>3. \A i \in Keys : conc[i] + 1 \in Nat
        BY <3>2
      <3> QED
        BY <2>1, <3>1, <3>2, <3>3, Zenon
    <2> QED
      BY <1>6, <2>3, <2>4, Zenon DEF TypeOK, AcquireConc, registry, counters, meters
  <1>7. ASSUME NEW r \in Requests, Delay(r) PROVE TypeOK'
    BY <1>7, AnswerEffect, GotoEffect, StepFacts, CodeFacts, Zenon
       DEF TypeOK, Delay, registry, counters, meters
  <1>8. ASSUME NEW r \in Requests, EnterQueue(r) PROVE TypeOK'
    <2>1. pc' \in [Requests -> Steps] /\ rq' \in [Requests -> LocalType]
      BY <1>8, AnswerEffect, GotoEffect, StepFacts, CodeFacts, Zenon DEF TypeOK, EnterQueue
    <2>2. Model(r) \in Models
      BY LocalFields, Zenon DEF TypeOK, Model
    <2>3. queued' \in [Models -> Nat]
      BY <1>8, <2>2 DEF TypeOK, EnterQueue
    <2> QED
      BY <1>8, <2>1, <2>3, Zenon DEF TypeOK, EnterQueue, registry, counters, meters
  <1>9. ASSUME NEW r \in Requests, TakeTurn(r) PROVE TypeOK'
    <2>1. pc' \in [Requests -> Steps] /\ rq' \in [Requests -> LocalType]
      BY <1>9, AnswerEffect, GotoEffect, StepFacts, CodeFacts, Zenon DEF TypeOK, TakeTurn
    <2>2. Model(r) \in Models
      BY LocalFields, Zenon DEF TypeOK, Model
    <2>3. sem' \in [Models -> Nat]
      BY <1>9, <2>2 DEF TypeOK, TakeTurn
    <2> QED
      BY <1>9, <2>1, <2>3, Zenon DEF TypeOK, TakeTurn, registry, counters, meters
  <1>10. ASSUME NEW r \in Requests, GiveUp(r) PROVE TypeOK'
    BY <1>10, AnswerEffect, GotoEffect, StepFacts, CodeFacts, Zenon
       DEF TypeOK, GiveUp, registry, counters, meters
  <1>11. ASSUME NEW r \in Requests, LeaveQueue(r) PROVE TypeOK'
    <2>1. pc' \in [Requests -> Steps] /\ rq' \in [Requests -> LocalType]
      BY <1>11, AnswerEffect, GotoEffect, StepFacts, CodeFacts, Zenon DEF TypeOK, LeaveQueue
    <2>2. Model(r) \in Models
      BY LocalFields, Zenon DEF TypeOK, Model
    <2>3. queued' \in [Models -> Nat]
      BY <1>11, <2>2, CountedInQueue DEF TypeOK, LeaveQueue
    <2> QED
      BY <1>11, <2>1, <2>3, Zenon DEF TypeOK, LeaveQueue, registry, counters, meters
  <1>12. ASSUME NEW r \in Requests, Account(r) PROVE TypeOK'
    <2>1. pc' \in [Requests -> Steps]
      BY <1>12, GotoEffect, StepFacts, Zenon DEF TypeOK, Account
    <2>2. reqs' \in [Keys -> [Windows -> Nat]] /\ toks' \in [Keys -> [Windows -> Nat]]
      <3> DEFINE k == Key(r)
      <3>1. CASE UNCHANGED <<reqs, toks>>
        BY <3>1, Zenon DEF TypeOK
      <3>2. CASE ~ UNCHANGED <<reqs, toks>>
        <4>1. k \in Keys
          BY <1>12, <3>2, LocalFields, Zenon DEF Account, Key, TypeOK
        <4>2. PICK expired \in SUBSET (Elapsing \cap {"month"}) :
                /\ reqs' = [reqs EXCEPT ![k] =
                              [Roll(reqs[k], expired) EXCEPT !["month"] = @ + 1]]
                /\ toks' = [toks EXCEPT ![k] = Roll(toks[k], expired)]
          BY <1>12, <3>2, Zenon DEF Account
        <4>3. /\ Roll(reqs[k], expired) \in [Windows -> Nat]
              /\ Roll(toks[k], expired) \in [Windows -> Nat]
          BY <4>1, RollType, Zenon DEF TypeOK
        <4>4. [Roll(reqs[k], expired) EXCEPT !["month"] = @ + 1] \in [Windows -> Nat]
          BY <4>3 DEF Windows
        <4> QED
          BY <4>1, <4>2, <4>3, <4>4, Zenon DEF TypeOK
      <3> QED
        BY <3>1, <3>2, Zenon
    <2> QED
      BY <1>12, <2>1, <2>2, Zenon DEF TypeOK, Account, registry, counters, meters
  <1>13. ASSUME NEW r \in Requests, Route(r) PROVE TypeOK'
    BY <1>13, AnswerEffect, GotoEffect, StepFacts, CodeFacts, PickEffect, LocalFields, Zenon
       DEF TypeOK, Route, registry, counters, meters, FilterRoutable
  <1>14. ASSUME NEW r \in Requests, TakeSlot(r) PROVE TypeOK'
    <2>1. pc' \in [Requests -> Steps] /\ rq' \in [Requests -> LocalType]
      BY <1>14, AnswerEffect, GotoEffect, StepFacts, CodeFacts, Zenon DEF TypeOK, TakeSlot
    <2>2. rq[r].pick \in Backends
      BY <1>14, Zenon DEF HandlerShape, TakeSlot
    <2>3. active' \in [Backends -> Nat]
      BY <1>14, <2>2 DEF TypeOK, TakeSlot, ReleaseSlot
    <2> QED
      BY <1>14, <2>1, <2>3, Zenon DEF TypeOK, TakeSlot, registry, counters, meters
  <1>15. ASSUME NEW r \in Requests, LoseSlot(r) PROVE TypeOK'
    BY <1>15, AnswerEffect, GotoEffect, StepFacts, CodeFacts, Zenon
       DEF TypeOK, LoseSlot, registry, counters, meters
  <1>16. ASSUME NEW r \in Requests, Reroute(r) PROVE TypeOK'
    BY <1>16, AnswerEffect, GotoEffect, StepFacts, CodeFacts, PickEffect, LocalFields, Zenon
       DEF TypeOK, Reroute, registry, counters, meters, FilterRoutable
  <1>17. ASSUME NEW r \in Requests, Rebuild(r) PROVE TypeOK'
    <2>1. pc' \in [Requests -> Steps] /\ rq' \in [Requests -> LocalType]
      BY <1>17, AnswerEffect, GotoEffect, StepFacts, CodeFacts, Zenon DEF TypeOK, Rebuild
    <2>2. rq[r].pick \in Backends
      BY <1>17, Zenon DEF HandlerShape, Rebuild
    <2>3. active' \in [Backends -> Nat]
      BY <1>17, <2>2 DEF TypeOK, Rebuild, ReleaseSlot
    <2> QED
      BY <1>17, <2>1, <2>3, Zenon DEF TypeOK, Rebuild, registry, counters, meters
  <1>18. ASSUME NEW r \in Requests, ReportUsage(r) PROVE TypeOK'
    BY <1>18, UsageEffect, ChargeEffect, LocalFields, SetsAssumption, ZenonT(30)
       DEF TypeOK, ReportUsage, registry, counters, meters, Key
  <1>19. ASSUME NEW r \in Requests, Finish(r) PROVE TypeOK'
    <2>1. pc' \in [Requests -> Steps] /\ rq' \in [Requests -> LocalType]
      BY <1>19, AnswerEffect, GotoEffect, StepFacts, CodeFacts, Zenon DEF TypeOK, Finish
    <2>2. rq[r].pick \in Backends
      BY <1>19, Zenon DEF HandlerShape, Finish
    <2>3. active' \in [Backends -> Nat]
      BY <1>19, <2>2, SMTT(20) DEF TypeOK, Finish, ReleaseSlot
    <2> QED
      BY <1>19, <2>1, <2>3, Zenon DEF TypeOK, Finish, registry, counters, meters
  <1>20. ASSUME NEW r \in Requests, Settle(r) PROVE TypeOK'
    BY <1>20, AnswerEffect, GotoEffect, StepFacts, CodeFacts, ChargeEffect, LocalFields,
       SetsAssumption, Zenon
       DEF TypeOK, Settle, registry, counters, meters, Key
  <1>21. ASSUME NEW r \in Requests, ReleaseQueue(r) PROVE TypeOK'
    <2>1. pc' \in [Requests -> Steps] /\ rq' \in [Requests -> LocalType]
      BY <1>21, AnswerEffect, GotoEffect, StepFacts, CodeFacts, Zenon DEF TypeOK, ReleaseQueue
    <2>2. Model(r) \in Models
      BY LocalFields, Zenon DEF TypeOK, Model
    <2>3. sem' \in [Models -> Nat]
      BY <1>21, <2>2, CountedInQueue DEF TypeOK, ReleaseQueue
    <2> QED
      BY <1>21, <2>1, <2>3, Zenon DEF TypeOK, ReleaseQueue, registry, counters, meters
  <1>22. ASSUME NEW r \in Requests, ReleaseConc(r) PROVE TypeOK'
    <2>1. pc' \in [Requests -> Steps] /\ rq' \in [Requests -> LocalType]
      BY <1>22, GotoEffect, StepFacts, Zenon DEF TypeOK, ReleaseConc
    <2>2. rq[r].limit > 0 => Key(r) \in Keys
      BY Zenon DEF HandlerShape
    <2>3. conc' \in [Keys -> Nat]
      <3>1. CASE UNCHANGED conc
        BY <3>1, Zenon DEF TypeOK
      <3>2. CASE /\ Key(r) \in Keys
                 /\ conc' = [conc EXCEPT ![Key(r)] = IF @ > 0 THEN @ - 1 ELSE @]
        BY <3>2 DEF TypeOK
      <3> QED
        BY <1>22, <2>2, <3>1, <3>2, Zenon DEF ReleaseConc
    <2> QED
      BY <1>22, <2>1, <2>3, Zenon DEF TypeOK, ReleaseConc, registry, counters, meters
  <1>23. ASSUME NEW b \in Backends, SetUp(b) PROVE TypeOK'
    BY <1>23, SetsAssumption, Zenon DEF TypeOK, SetUp, counters, meters
  <1>24. ASSUME NEW b \in Backends, SetServes(b) PROVE TypeOK'
    BY <1>24, SetsAssumption DEF TypeOK, SetServes, counters, meters
  <1>25. ASSUME NEW b \in Backends, SetSlotLimit(b) PROVE TypeOK'
    BY <1>25, SetsAssumption DEF TypeOK, SetSlotLimit, counters, meters
  <1>26. ASSUME NEW k \in Keys, SetConcLimit(k) PROVE TypeOK'
    BY <1>26, SetsAssumption, Zenon DEF TypeOK, SetConcLimit, counters, meters
  <1>27. ASSUME NEW m \in Models, SetEnabled(m) PROVE TypeOK'
    BY <1>27, SetsAssumption, Zenon DEF TypeOK, SetEnabled, counters, meters
  <1>28. ASSUME NEW r \in Requests, ReadLimit(r) PROVE TypeOK'
    <2>1. concLimit[Key(r)] \in Nat
      BY <1>28, Zenon DEF HandlerShape, ReadLimit, TypeOK
    <2> QED
      BY <1>28, <2>1, LimitEffect, GotoEffect, StepFacts, Zenon
         DEF TypeOK, ReadLimit, registry, counters, meters
  <1> QED
    BY <1>1, <1>2, <1>3, <1>4, <1>5, <1>6, <1>7, <1>8, <1>9, <1>10, <1>11, <1>12, <1>13, <1>14,
       <1>15, <1>16, <1>17, <1>18, <1>19, <1>20, <1>21, <1>22, <1>23, <1>24, <1>25, <1>26, <1>27, <1>28,
       Zenon DEF Next, Handle, Admit, Serve, Administer

(***************************************************************************)
(* The step table: where each action finds its handler and where it leaves *)
(* it, and which locals it keeps.  The accounting proofs use the table     *)
(* instead of the actions.                                                 *)
(***************************************************************************)

\* Only r moves.
OnlyMoves(r) == \A q \in Requests \ {r} : pc'[q] = pc[q] /\ rq'[q] = rq[q]

\* r keeps its key and model.
KeepsName(r) == Key(r)' = Key(r) /\ Model(r)' = Model(r)

\* r goes from a step in S to a step in T and keeps its name.
Moves(r, S, T) == OnlyMoves(r) /\ KeepsName(r) /\ pc[r] \in S /\ pc'[r] \in T

SamePick(r) == rq'[r].pick = rq[r].pick
SameLimit(r) == rq'[r].limit = rq[r].limit

\* Admission up to the queue.
LEMMA AdmissionTable ==
    ASSUME TypeOK, HandlerShape, NEW r \in Requests
    PROVE  /\ Validate(r) => /\ Moves(r, {"idle"}, {"done", "lookup"})
                             /\ SamePick(r) /\ SameLimit(r)
           /\ Lookup(r) => /\ Moves(r, {"lookup"}, {"done", "reserve", QueueStep})
                           /\ SamePick(r) /\ SameLimit(r)
                           /\ pc'[r] = "reserve" => Key(r) \in Keys
           /\ Reserve(r) => /\ Moves(r, {"reserve"}, {"done", "quota"})
                            /\ SamePick(r) /\ SameLimit(r)
           /\ CheckQuota(r) => /\ Moves(r, {"quota"}, {"done", "limit"})
                               /\ SamePick(r) /\ SameLimit(r)
           /\ ReadLimit(r) => Moves(r, {"limit"}, {"concurrency"}) /\ SamePick(r)
           /\ AcquireConc(r) => /\ Moves(r, {"concurrency"}, {"done", "delay", QueueStep})
                                /\ SamePick(r) /\ SameLimit(r)
           /\ Delay(r) => /\ Moves(r, {"delay"}, {"relconc", QueueStep})
                          /\ SamePick(r) /\ SameLimit(r)
  <1> USE DEF Moves, OnlyMoves, KeepsName, SamePick, SameLimit, Key, Model
  <1>1. Validate(r) => /\ Moves(r, {"idle"}, {"done", "lookup"})
                       /\ SamePick(r) /\ SameLimit(r)
    BY AnswerEffect, GotoEffect, StepFacts, CodeFacts, ZenonT(30) DEF TypeOK, Validate
  <1>2. Lookup(r) => /\ Moves(r, {"lookup"}, {"done", "reserve", QueueStep})
                     /\ SamePick(r) /\ SameLimit(r)
                     /\ pc'[r] = "reserve" => Key(r) \in Keys
    <2> SUFFICES ASSUME Lookup(r)
                 PROVE  /\ Moves(r, {"lookup"}, {"done", "reserve", QueueStep})
                        /\ SamePick(r) /\ SameLimit(r)
                        /\ pc'[r] = "reserve" => Key(r) \in Keys
      BY Zenon
    <2> DEFINE cand == {b \in Backends : rq[r].model \in serves[b]}
    <2>1. CASE Answer(r, "done", "model_not_found")
      BY <2>1, AnswerEffect, StepFacts, CodeFacts, Zenon DEF TypeOK, Lookup
    <2>2. CASE /\ rq' = [rq EXCEPT ![r].cand = cand]
               /\ Goto(r, IF rq[r].key = NoKey THEN QueueStep ELSE "reserve")
      <3>1. cand \in SUBSET Backends
        BY Zenon
      <3> HIDE DEF cand
      <3>2. OnlyMoves(r) /\ KeepsName(r) /\ SamePick(r) /\ SameLimit(r)
        BY <2>2, <3>1, CandEffect, GotoEffect, StepFacts, Zenon DEF TypeOK
      <3>3. rq[r].key \in Keys \cup {NoKey}
        BY LocalFields, Zenon DEF TypeOK
      <3>4. pc'[r] = IF rq[r].key = NoKey THEN QueueStep ELSE "reserve"
        BY <2>2, GotoEffect, StepFacts, Zenon DEF TypeOK
      <3>5. QueueStep # "reserve"
        BY SMTT(20) DEF QueueStep
      <3> QED
        BY <3>2, <3>3, <3>4, <3>5, Zenon DEF Lookup
    <2> QED
      BY <2>1, <2>2, Zenon DEF Lookup
  <1>3. Reserve(r) => /\ Moves(r, {"reserve"}, {"done", "quota"})
                      /\ SamePick(r) /\ SameLimit(r)
    <2> SUFFICES ASSUME Reserve(r)
                 PROVE  Moves(r, {"reserve"}, {"done", "quota"}) /\ SamePick(r) /\ SameLimit(r)
      BY Zenon
    <2>1. pc[r] = "reserve" /\ \E c \in Codes : (Goto(r, "quota") /\ rq' = rq) \/ Answer(r, "done", c)
      BY CodeFacts, Zenon DEF Reserve
    <2>2. CASE Goto(r, "quota") /\ rq' = rq
      BY <2>1, <2>2, GotoEffect, StepFacts, Zenon
         DEF TypeOK, Moves, OnlyMoves, KeepsName, SamePick, SameLimit, Key, Model
    <2>3. ASSUME NEW c \in Codes, Answer(r, "done", c)
          PROVE  Moves(r, {"reserve"}, {"done", "quota"}) /\ SamePick(r) /\ SameLimit(r)
      BY <2>1, <2>3, AnswerEffect, StepFacts, Zenon
         DEF TypeOK, Moves, OnlyMoves, KeepsName, SamePick, SameLimit, Key, Model
    <2> QED
      BY <2>1, <2>2, <2>3, Zenon
  <1>4. CheckQuota(r) => /\ Moves(r, {"quota"}, {"done", "limit"})
                         /\ SamePick(r) /\ SameLimit(r)
    <2> SUFFICES ASSUME CheckQuota(r)
                 PROVE  Moves(r, {"quota"}, {"done", "limit"}) /\ SamePick(r) /\ SameLimit(r)
      BY Zenon
    <2>1. pc[r] = "quota" /\ \E c \in Codes : (Goto(r, "limit") /\ rq' = rq) \/ Answer(r, "done", c)
      BY CodeFacts, Zenon DEF CheckQuota
    <2>2. CASE Goto(r, "limit") /\ rq' = rq
      BY <2>1, <2>2, GotoEffect, StepFacts, Zenon
         DEF TypeOK, Moves, OnlyMoves, KeepsName, SamePick, SameLimit, Key, Model
    <2>3. ASSUME NEW c \in Codes, Answer(r, "done", c)
          PROVE  Moves(r, {"quota"}, {"done", "limit"}) /\ SamePick(r) /\ SameLimit(r)
      BY <2>1, <2>3, AnswerEffect, StepFacts, Zenon
         DEF TypeOK, Moves, OnlyMoves, KeepsName, SamePick, SameLimit, Key, Model
    <2> QED
      BY <2>1, <2>2, <2>3, Zenon
  <1>5. AcquireConc(r) => /\ Moves(r, {"concurrency"}, {"done", "delay", QueueStep})
                          /\ SamePick(r) /\ SameLimit(r)
    <2> SUFFICES ASSUME AcquireConc(r)
                 PROVE  /\ Moves(r, {"concurrency"}, {"done", "delay", QueueStep})
                        /\ SamePick(r) /\ SameLimit(r)
      BY Zenon
    <2> DEFINE step == IF rq[r].key \in Delayed THEN "delay" ELSE QueueStep
    <2>1. step \in Steps /\ step \in {"delay", QueueStep}
      BY StepFacts, Zenon
    <2>2. /\ pc[r] = "concurrency"
          /\ \/ Goto(r, step) /\ rq' = rq
             \/ Answer(r, "done", "concurrent_limit")
      BY Zenon DEF AcquireConc
    <2> HIDE DEF step
    <2>3. CASE Goto(r, step) /\ rq' = rq
      BY <2>1, <2>2, <2>3, GotoEffect, Zenon DEF TypeOK
    <2>5. CASE Answer(r, "done", "concurrent_limit")
      BY <2>2, <2>5, AnswerEffect, StepFacts, CodeFacts, ZenonT(30) DEF TypeOK
    <2> QED
      BY <2>2, <2>3, <2>5, Zenon
  <1>6. Delay(r) => /\ Moves(r, {"delay"}, {"relconc", QueueStep})
                    /\ SamePick(r) /\ SameLimit(r)
    BY AnswerEffect, GotoEffect, StepFacts, CodeFacts, ZenonT(30) DEF TypeOK, Delay
  <1>7. ReadLimit(r) => Moves(r, {"limit"}, {"concurrency"}) /\ SamePick(r)
    <2> SUFFICES ASSUME ReadLimit(r)
                 PROVE  Moves(r, {"limit"}, {"concurrency"}) /\ SamePick(r)
      BY Zenon
    <2>1. concLimit[Key(r)] \in Nat
      BY Zenon DEF HandlerShape, ReadLimit, TypeOK
    <2> QED
      BY <2>1, LimitEffect, GotoEffect, StepFacts, Zenon DEF TypeOK, ReadLimit
  <1> QED
    BY <1>1, <1>2, <1>3, <1>4, <1>5, <1>6, <1>7, ZenonT(30)

\* The queue and the accounting of the request.
LEMMA QueueTable ==
    ASSUME TypeOK, HandlerShape, NEW r \in Requests
    PROVE  /\ EnterQueue(r) => /\ Moves(r, {"queue"}, {"refused", "waiting"})
                               /\ SamePick(r) /\ SameLimit(r)
           /\ TakeTurn(r) => /\ Moves(r, {"waiting"}, {"dequeue"})
                             /\ SamePick(r) /\ SameLimit(r)
           /\ GiveUp(r) => /\ Moves(r, {"waiting"}, {"refused"})
                           /\ SamePick(r) /\ SameLimit(r)
           /\ LeaveQueue(r) => /\ \/ Moves(r, {"dequeue"}, {"account"})
                                  \/ Moves(r, {"refused"}, {"relconc"})
                               /\ SamePick(r) /\ SameLimit(r)
           /\ Account(r) => /\ Moves(r, {"account"}, {"route"})
                            /\ SamePick(r) /\ SameLimit(r)
  <1> USE DEF Moves, OnlyMoves, KeepsName, SamePick, SameLimit, Key, Model
  <1>1. EnterQueue(r) => /\ Moves(r, {"queue"}, {"refused", "waiting"})
                         /\ SamePick(r) /\ SameLimit(r)
    BY AnswerEffect, GotoEffect, StepFacts, CodeFacts, ZenonT(30) DEF TypeOK, EnterQueue
  <1>2. TakeTurn(r) => /\ Moves(r, {"waiting"}, {"dequeue"})
                       /\ SamePick(r) /\ SameLimit(r)
    BY GotoEffect, StepFacts, Zenon DEF TypeOK, TakeTurn
  <1>3. GiveUp(r) => /\ Moves(r, {"waiting"}, {"refused"})
                     /\ SamePick(r) /\ SameLimit(r)
    BY AnswerEffect, StepFacts, CodeFacts, ZenonT(30) DEF TypeOK, GiveUp
  <1>4. LeaveQueue(r) => /\ \/ Moves(r, {"dequeue"}, {"account"})
                            \/ Moves(r, {"refused"}, {"relconc"})
                         /\ SamePick(r) /\ SameLimit(r)
    BY GotoEffect, StepFacts, Zenon DEF TypeOK, LeaveQueue
  <1>5. Account(r) => /\ Moves(r, {"account"}, {"route"})
                      /\ SamePick(r) /\ SameLimit(r)
    BY GotoEffect, StepFacts, Zenon DEF TypeOK, Account
  <1> QED
    BY <1>1, <1>2, <1>3, <1>4, <1>5, ZenonT(30)

\* Serving, from the choice of a backend to the deferred releases.
LEMMA ServeTable ==
    ASSUME TypeOK, HandlerShape, NEW r \in Requests
    PROVE  /\ Route(r) => /\ \/ Moves(r, {"route"}, {ReleaseStep}) /\ SamePick(r)
                             \/ /\ Moves(r, {"route"}, {"acquire"})
                                /\ rq'[r].pick \in Backends
                          /\ SameLimit(r)
           /\ TakeSlot(r) => /\ Moves(r, {"acquire", "reacquire"}, {"rebuild", "forward"})
                             /\ SamePick(r) /\ SameLimit(r)
           /\ LoseSlot(r) => /\ Moves(r, {"acquire", "reacquire"}, {"reroute", ReleaseStep})
                             /\ SamePick(r) /\ SameLimit(r)
           /\ Reroute(r) => /\ \/ Moves(r, {"reroute"}, {ReleaseStep}) /\ SamePick(r)
                               \/ /\ Moves(r, {"reroute"}, {"reacquire"})
                                  /\ rq'[r].pick \in Backends
                            /\ SameLimit(r)
           /\ Rebuild(r) => /\ \/ Moves(r, {"rebuild"}, {"forward"}) /\ active' = active
                               \/ Moves(r, {"rebuild"}, {ReleaseStep}) /\ ReleaseSlot(rq[r].pick)
                            /\ SamePick(r) /\ SameLimit(r)
           /\ ReportUsage(r) => /\ Moves(r, {"forward"}, {"forward"})
                                /\ SamePick(r) /\ SameLimit(r)
           /\ Finish(r) => /\ Moves(r, {"forward"}, {"settle"})
                           /\ SamePick(r) /\ SameLimit(r)
           /\ Settle(r) => /\ Moves(r, {"settle"}, {ReleaseStep})
                           /\ SamePick(r) /\ SameLimit(r)
           /\ ReleaseQueue(r) => /\ Moves(r, {"relqueue"}, {"relconc"})
                                 /\ SamePick(r) /\ SameLimit(r)
           /\ ReleaseConc(r) => /\ Moves(r, {"relconc"}, {"done"})
                                /\ SamePick(r) /\ SameLimit(r)
  <1> USE DEF Moves, OnlyMoves, KeepsName, SamePick, SameLimit, Key, Model
  <1>1. ASSUME NEW from \in Steps, NEW to \in Steps, pc[r] = from,
               \/ Answer(r, ReleaseStep, "no_healthy_backend")
               \/ Answer(r, ReleaseStep, "backend_at_capacity")
               \/ \E b \in FilterRoutable(rq[r].cand) :
                    rq' = [rq EXCEPT ![r].pick = b] /\ Goto(r, to)
        PROVE  /\ \/ Moves(r, {from}, {ReleaseStep}) /\ SamePick(r)
                  \/ Moves(r, {from}, {to}) /\ rq'[r].pick \in Backends
               /\ SameLimit(r)
    <2>1. CASE \E c \in {"no_healthy_backend", "backend_at_capacity"} : Answer(r, ReleaseStep, c)
      BY <1>1, <2>1, AnswerEffect, StepFacts, CodeFacts, Zenon DEF TypeOK
    <2>2. ASSUME NEW b \in FilterRoutable(rq[r].cand),
                 rq' = [rq EXCEPT ![r].pick = b], Goto(r, to)
          PROVE  /\ Moves(r, {from}, {to}) /\ rq'[r].pick \in Backends
                 /\ SameLimit(r)
      <3>1. b \in Backends
        BY LocalFields, Zenon DEF FilterRoutable, TypeOK
      <3> QED
        BY <1>1, <2>2, <3>1, PickEffect, GotoEffect, Zenon DEF TypeOK
    <2> QED
      BY <1>1, <2>1, <2>2, Zenon
  <1>2. Route(r) => /\ \/ Moves(r, {"route"}, {ReleaseStep}) /\ SamePick(r)
                       \/ Moves(r, {"route"}, {"acquire"}) /\ rq'[r].pick \in Backends
                    /\ SameLimit(r)
    <2> HIDE DEF Moves, SamePick, SameLimit
    <2> QED
      BY <1>1, StepFacts, ZenonT(30) DEF Route
  <1>3. TakeSlot(r) => /\ Moves(r, {"acquire", "reacquire"}, {"rebuild", "forward"})
                       /\ SamePick(r) /\ SameLimit(r)
    BY GotoEffect, StepFacts, Zenon DEF TypeOK, TakeSlot
  <1>4. LoseSlot(r) => /\ Moves(r, {"acquire", "reacquire"}, {"reroute", ReleaseStep})
                       /\ SamePick(r) /\ SameLimit(r)
    BY AnswerEffect, GotoEffect, StepFacts, CodeFacts, Zenon DEF TypeOK, LoseSlot
  <1>5. Reroute(r) => /\ \/ Moves(r, {"reroute"}, {ReleaseStep}) /\ SamePick(r)
                         \/ Moves(r, {"reroute"}, {"reacquire"}) /\ rq'[r].pick \in Backends
                      /\ SameLimit(r)
    <2> HIDE DEF Moves, SamePick, SameLimit
    <2> QED
      BY <1>1, StepFacts, Zenon DEF Reroute
  <1>6. Rebuild(r) => /\ \/ Moves(r, {"rebuild"}, {"forward"}) /\ active' = active
                         \/ Moves(r, {"rebuild"}, {ReleaseStep}) /\ ReleaseSlot(rq[r].pick)
                      /\ SamePick(r) /\ SameLimit(r)
    BY AnswerEffect, GotoEffect, StepFacts, CodeFacts, Zenon DEF TypeOK, Rebuild
  <1>7. ReportUsage(r) => /\ Moves(r, {"forward"}, {"forward"})
                          /\ SamePick(r) /\ SameLimit(r)
    <2>1. Usages \subseteq Nat
      BY SetsAssumption, Zenon
    <2> QED
      BY <2>1, UsageEffect, Zenon DEF TypeOK, ReportUsage
  <1>8. Finish(r) => /\ Moves(r, {"forward"}, {"settle"})
                     /\ SamePick(r) /\ SameLimit(r)
    BY AnswerEffect, StepFacts, CodeFacts, ZenonT(30) DEF TypeOK, Finish
  <1>9. Settle(r) => /\ Moves(r, {"settle"}, {ReleaseStep})
                     /\ SamePick(r) /\ SameLimit(r)
    BY GotoEffect, StepFacts, Zenon DEF TypeOK, Settle
  <1>10. ReleaseQueue(r) => /\ Moves(r, {"relqueue"}, {"relconc"})
                            /\ SamePick(r) /\ SameLimit(r)
    BY GotoEffect, StepFacts, Zenon DEF TypeOK, ReleaseQueue
  <1>11. ReleaseConc(r) => /\ Moves(r, {"relconc"}, {"done"})
                           /\ SamePick(r) /\ SameLimit(r)
    BY GotoEffect, StepFacts, Zenon DEF TypeOK, ReleaseConc
  <1> QED
    BY <1>2, <1>3, <1>4, <1>5, <1>6, <1>7, <1>8, <1>9, <1>10, <1>11, Zenon

(***************************************************************************)
(* HandlerShape is inductive.                                              *)
(***************************************************************************)

\* Where r ends decides what has to hold of it.
LEMMA ShapeFrame ==
    ASSUME HandlerShape, NEW r \in Requests, OnlyMoves(r),
           pc'[r] \in {"reserve", "quota", "limit", "concurrency", "delay"} => Key(r)' \in Keys,
           rq'[r].limit > 0 => Key(r)' \in Keys,
           pc'[r] \in {"idle", "lookup", "reserve", "quota", "limit"} => rq'[r].limit = 0,
           pc'[r] \in {"acquire", "reacquire", "rebuild", "forward"} => rq'[r].pick \in Backends,
           pc'[r] \in {"queue", "waiting", "dequeue", "refused", "relqueue"} => QueueEnabled
    PROVE  HandlerShape'
  BY SMTT(20) DEF HandlerShape, OnlyMoves, Key

\* An action that keeps the name, the limit and the pick of r, and goes
\* to a step at which the same facts are required, preserves HandlerShape.
LEMMA ShapeKept ==
    ASSUME HandlerShape, NEW r \in Requests, NEW S, NEW T, Moves(r, S, T),
           SamePick(r), SameLimit(r),
           pc'[r] \in {"reserve", "quota", "limit", "concurrency", "delay"} => Key(r) \in Keys,
           pc'[r] \in {"idle", "lookup", "reserve", "quota", "limit"} => rq[r].limit = 0,
           pc'[r] \in {"acquire", "reacquire", "rebuild", "forward"} => rq[r].pick \in Backends,
           pc'[r] \in {"queue", "waiting", "dequeue", "refused", "relqueue"} => QueueEnabled
    PROVE  HandlerShape'
  BY ShapeFrame, Zenon DEF HandlerShape, Moves, KeepsName, SamePick, SameLimit

\* Every step of a handler keeps what is known of where the handler stands.
LEMMA ShapeStep ==
    ASSUME TypeOK, HandlerShape, Next
    PROVE  HandlerShape'
  <1> USE DEF QueueStep, ReleaseStep
  <1>1. ASSUME NEW r \in Requests, Arrive(r) PROVE HandlerShape'
    <2>1. OnlyMoves(r) /\ pc'[r] = "idle" /\ rq'[r].limit = 0
      BY <1>1, GotoEffect, IncomingEffect, StepFacts, Zenon DEF TypeOK, Arrive, OnlyMoves
    <2> QED
      BY <2>1, ShapeFrame
  <1>2. ASSUME NEW r \in Requests, Validate(r) PROVE HandlerShape'
    BY <1>2, AdmissionTable, ShapeKept, ZenonT(30) DEF HandlerShape, Moves
  <1>3. ASSUME NEW r \in Requests, Lookup(r) PROVE HandlerShape'
    BY <1>3, AdmissionTable, ShapeKept, ZenonT(30) DEF HandlerShape, Moves
  <1>4. ASSUME NEW r \in Requests, Reserve(r) PROVE HandlerShape'
    BY <1>4, AdmissionTable, ShapeKept, ZenonT(30) DEF HandlerShape, Moves
  <1>5. ASSUME NEW r \in Requests, CheckQuota(r) PROVE HandlerShape'
    BY <1>5, AdmissionTable, ShapeKept, ZenonT(30) DEF HandlerShape, Moves
  <1>6. ASSUME NEW r \in Requests, AcquireConc(r) PROVE HandlerShape'
    BY <1>6, AdmissionTable, ShapeKept, ZenonT(30) DEF HandlerShape, Moves
  <1>7. ASSUME NEW r \in Requests, Delay(r) PROVE HandlerShape'
    BY <1>7, AdmissionTable, ShapeKept, ZenonT(30) DEF HandlerShape, Moves
  <1>8. ASSUME NEW r \in Requests, EnterQueue(r) PROVE HandlerShape'
    BY <1>8, QueueTable, ShapeKept, ZenonT(30) DEF HandlerShape, Moves
  <1>9. ASSUME NEW r \in Requests, TakeTurn(r) PROVE HandlerShape'
    BY <1>9, QueueTable, ShapeKept, ZenonT(30) DEF HandlerShape, Moves
  <1>10. ASSUME NEW r \in Requests, GiveUp(r) PROVE HandlerShape'
    BY <1>10, QueueTable, ShapeKept, ZenonT(30) DEF HandlerShape, Moves
  <1>11. ASSUME NEW r \in Requests, LeaveQueue(r) PROVE HandlerShape'
    BY <1>11, QueueTable, ShapeKept, ZenonT(30) DEF HandlerShape, Moves
  <1>12. ASSUME NEW r \in Requests, Account(r) PROVE HandlerShape'
    BY <1>12, QueueTable, ShapeKept, ZenonT(30) DEF HandlerShape, Moves
  <1>13. ASSUME NEW r \in Requests, Route(r) PROVE HandlerShape'
    BY <1>13, ServeTable, ShapeFrame, ZenonT(30) DEF HandlerShape, Moves, KeepsName, SameLimit
  <1>14. ASSUME NEW r \in Requests, TakeSlot(r) PROVE HandlerShape'
    BY <1>14, ServeTable, ShapeKept, ZenonT(30) DEF HandlerShape, Moves
  <1>15. ASSUME NEW r \in Requests, LoseSlot(r) PROVE HandlerShape'
    BY <1>15, ServeTable, ShapeKept, ZenonT(30) DEF HandlerShape, Moves
  <1>16. ASSUME NEW r \in Requests, Reroute(r) PROVE HandlerShape'
    BY <1>16, ServeTable, ShapeFrame, ZenonT(30) DEF HandlerShape, Moves, KeepsName, SameLimit
  <1>17. ASSUME NEW r \in Requests, Rebuild(r) PROVE HandlerShape'
    BY <1>17, ServeTable, ShapeKept, ZenonT(30) DEF HandlerShape, Moves
  <1>18. ASSUME NEW r \in Requests, ReportUsage(r) PROVE HandlerShape'
    BY <1>18, ServeTable, ShapeKept, ZenonT(30) DEF HandlerShape, Moves
  <1>19. ASSUME NEW r \in Requests, Finish(r) PROVE HandlerShape'
    BY <1>19, ServeTable, ShapeKept, ZenonT(30) DEF HandlerShape, Moves
  <1>20. ASSUME NEW r \in Requests, Settle(r) PROVE HandlerShape'
    BY <1>20, ServeTable, ShapeKept, ZenonT(30) DEF HandlerShape, Moves
  <1>21. ASSUME NEW r \in Requests, ReleaseQueue(r) PROVE HandlerShape'
    BY <1>21, ServeTable, ShapeKept, ZenonT(30) DEF HandlerShape, Moves
  <1>22. ASSUME NEW r \in Requests, ReleaseConc(r) PROVE HandlerShape'
    BY <1>22, ServeTable, ShapeKept, Zenon DEF HandlerShape, Moves
  <1>23. ASSUME Administer PROVE HandlerShape'
    <2>1. pc' = pc /\ rq' = rq
      BY <1>23, Zenon DEF Administer, SetUp, SetServes, SetSlotLimit, SetConcLimit, SetEnabled
    <2> QED
      BY <2>1, Zenon DEF HandlerShape, Key
  <1>24. ASSUME NEW r \in Requests, ReadLimit(r) PROVE HandlerShape'
    <2>1. Moves(r, {"limit"}, {"concurrency"}) /\ SamePick(r)
      BY <1>24, AdmissionTable, Zenon
    <2>2. Key(r)' \in Keys
      BY <2>1, Zenon DEF HandlerShape, Moves, KeepsName
    <2> QED
      BY <2>1, <2>2, ShapeFrame, Zenon DEF Moves
  <1> QED
    BY <1>1, <1>2, <1>3, <1>4, <1>5, <1>6, <1>7, <1>8, <1>9, <1>10, <1>11, <1>12,
       <1>13, <1>14, <1>15, <1>16, <1>17, <1>18, <1>19, <1>20, <1>21, <1>22, <1>23, <1>24, Zenon
       DEF Next, Handle, Admit, Serve

-----------------------------------------------------------------------------
(***************************************************************************)
(* Backend slots.                                                          *)
(***************************************************************************)

\* A set that gains or loses one element.
LEMMA CountMoves ==
    ASSUME NEW S, IsFiniteSet(S), NEW r
    PROVE  /\ Cardinality(S) \in Nat
           /\ r \notin S => Cardinality(S \cup {r}) = Cardinality(S) + 1
           /\ r \in S => /\ Cardinality(S) > 0
                         /\ Cardinality(S \ {r}) = Cardinality(S) - 1
  <1>1. Cardinality(S) \in Nat
    BY FS_CardinalityType, Zenon
  <1>2. r \notin S => Cardinality(S \cup {r}) = Cardinality(S) + 1
    BY FS_AddElement, Zenon
  <1>3. r \in S => Cardinality(S \ {r}) = Cardinality(S) - 1
    BY FS_RemoveElement, Zenon
  <1>4. r \in S => Cardinality(S) # 0
    BY FS_EmptySet, Zenon
  <1> QED
    BY <1>1, <1>2, <1>3, <1>4

SlotSteps == {"rebuild", "forward"}

\* No slot changes hands.
LEMMA SlotKept ==
    ASSUME SlotAccounting, NEW r \in Requests, OnlyMoves(r), active' = active,
           \/ pc[r] \notin SlotSteps /\ pc'[r] \notin SlotSteps
           \/ pc[r] \in SlotSteps /\ pc'[r] \in SlotSteps /\ SamePick(r)
    PROVE  SlotAccounting'
  <1>1. \A b \in Backends : SlotHolders(b)' = SlotHolders(b)
    BY Zenon DEF SlotHolders, OnlyMoves, SlotSteps, SamePick
  <1> QED
    BY <1>1, Zenon DEF SlotAccounting

\* r takes a slot of the backend it picked.
LEMMA SlotTaken ==
    ASSUME TypeOK, SlotAccounting, NEW r \in Requests, OnlyMoves(r), SamePick(r),
           pc[r] \notin SlotSteps, pc'[r] \in SlotSteps, rq[r].pick \in Backends,
           active' = [active EXCEPT ![rq[r].pick] = @ + 1]
    PROVE  SlotAccounting'
  <1> SUFFICES ASSUME NEW b \in Backends
               PROVE  active'[b] = Cardinality(SlotHolders(b)')
    BY Zenon DEF SlotAccounting
  <1>1. IsFiniteSet(SlotHolders(b)) /\ active[b] = Cardinality(SlotHolders(b))
    BY SetsAssumption, FS_Subset, Zenon DEF SlotHolders, SlotAccounting
  <1>2. CASE b = rq[r].pick
    <2>1. SlotHolders(b)' = SlotHolders(b) \cup {r} /\ r \notin SlotHolders(b)
      BY <1>2, Zenon DEF SlotHolders, OnlyMoves, SlotSteps, SamePick
    <2>2. active'[b] = active[b] + 1
      BY <1>2, Zenon DEF TypeOK
    <2> QED
      BY <1>1, <2>1, <2>2, CountMoves, Zenon
  <1>3. CASE b # rq[r].pick
    <2>1. SlotHolders(b)' = SlotHolders(b)
      BY <1>3, Zenon DEF SlotHolders, OnlyMoves, SlotSteps, SamePick
    <2>2. active'[b] = active[b]
      BY <1>3, Zenon DEF TypeOK
    <2> QED
      BY <1>1, <2>1, <2>2, Zenon
  <1> QED
    BY <1>2, <1>3, Zenon

\* r gives its slot back.
LEMMA SlotGiven ==
    ASSUME TypeOK, SlotAccounting, NEW r \in Requests, OnlyMoves(r), SamePick(r),
           pc[r] \in SlotSteps, pc'[r] \notin SlotSteps, rq[r].pick \in Backends,
           ReleaseSlot(rq[r].pick)
    PROVE  SlotAccounting'
  <1> SUFFICES ASSUME NEW b \in Backends
               PROVE  active'[b] = Cardinality(SlotHolders(b)')
    BY Zenon DEF SlotAccounting
  <1>1. IsFiniteSet(SlotHolders(b)) /\ active[b] = Cardinality(SlotHolders(b))
    BY SetsAssumption, FS_Subset, Zenon DEF SlotHolders, SlotAccounting
  <1>2. CASE b = rq[r].pick
    <2>1. SlotHolders(b)' = SlotHolders(b) \ {r} /\ r \in SlotHolders(b)
      BY <1>2, Zenon DEF SlotHolders, OnlyMoves, SlotSteps, SamePick
    <2>2. active[b] > 0 /\ Cardinality(SlotHolders(b)') = active[b] - 1
      BY <1>1, <2>1, CountMoves, Zenon
    <2>3. active'[b] = active[b] - 1
      BY <1>2, <2>2, Zenon DEF TypeOK, ReleaseSlot
    <2> QED
      BY <2>2, <2>3, Zenon
  <1>3. CASE b # rq[r].pick
    <2>1. SlotHolders(b)' = SlotHolders(b)
      BY <1>3, Zenon DEF SlotHolders, OnlyMoves, SlotSteps, SamePick
    <2>2. active'[b] = active[b]
      BY <1>3, Zenon DEF TypeOK, ReleaseSlot
    <2> QED
      BY <1>1, <2>1, <2>2, Zenon
  <1> QED
    BY <1>2, <1>3, Zenon

\* Every step keeps a backend's counter equal to the requests that hold its
\* slot: AcquireSlot and ReleaseSlot each move one request in or out.
LEMMA SlotStep ==
    ASSUME TypeOK, HandlerShape, SlotAccounting, Next
    PROVE  SlotAccounting'
  <1> USE DEF SlotSteps, QueueStep, ReleaseStep
  <1>1. ASSUME NEW r \in Requests, Arrive(r) PROVE SlotAccounting'
    <2>1. OnlyMoves(r) /\ pc[r] = "done" /\ pc'[r] = "idle" /\ active' = active
      BY <1>1, GotoEffect, IncomingEffect, StepFacts, Zenon DEF TypeOK, Arrive, OnlyMoves, counters
    <2> QED
      BY <2>1, SlotKept, Zenon
  <1>2. ASSUME NEW r \in Requests, Validate(r) \/ Lookup(r) \/ Reserve(r) \/ CheckQuota(r)
                                   \/ ReadLimit(r) \/ AcquireConc(r) \/ Delay(r)
        PROVE SlotAccounting'
    <2>1. active' = active
      BY <1>2, Zenon DEF Validate, Lookup, Reserve, CheckQuota, ReadLimit, AcquireConc, Delay, counters
    <2> QED
      BY <1>2, <2>1, AdmissionTable, SlotKept, Zenon DEF Moves
  <1>3. ASSUME NEW r \in Requests, EnterQueue(r) \/ TakeTurn(r) \/ GiveUp(r) \/ LeaveQueue(r)
                                   \/ Account(r)
        PROVE SlotAccounting'
    <2>1. active' = active
      BY <1>3, Zenon DEF EnterQueue, TakeTurn, GiveUp, LeaveQueue, Account, counters
    <2> QED
      BY <1>3, <2>1, QueueTable, SlotKept, Zenon DEF Moves
  <1>4. ASSUME NEW r \in Requests, Route(r) \/ LoseSlot(r) \/ Reroute(r) \/ ReportUsage(r)
                                   \/ Settle(r) \/ ReleaseQueue(r) \/ ReleaseConc(r)
        PROVE SlotAccounting'
    <2>1. active' = active
      BY <1>4, Zenon DEF Route, LoseSlot, Reroute, ReportUsage, Settle, ReleaseQueue, ReleaseConc, counters
    <2> QED
      BY <1>4, <2>1, ServeTable, SlotKept, Zenon DEF Moves
  <1>5. ASSUME NEW r \in Requests, TakeSlot(r) PROVE SlotAccounting'
    <2>1. active' = [active EXCEPT ![rq[r].pick] = @ + 1] /\ rq[r].pick \in Backends
      BY <1>5, Zenon DEF TakeSlot, HandlerShape
    <2> QED
      BY <1>5, <2>1, ServeTable, SlotTaken, Zenon DEF Moves
  <1>6. ASSUME NEW r \in Requests, Rebuild(r) PROVE SlotAccounting'
    <2>1. rq[r].pick \in Backends
      BY <1>6, Zenon DEF Rebuild, HandlerShape
    <2> QED
      BY <1>6, <2>1, ServeTable, SlotKept, SlotGiven, Zenon DEF Moves
  <1>7. ASSUME NEW r \in Requests, Finish(r) PROVE SlotAccounting'
    <2>1. rq[r].pick \in Backends /\ ReleaseSlot(rq[r].pick)
      BY <1>7, Zenon DEF Finish, HandlerShape
    <2> QED
      BY <1>7, <2>1, ServeTable, SlotGiven, Zenon DEF Moves
  <1>8. ASSUME Administer PROVE SlotAccounting'
    <2>1. pc' = pc /\ rq' = rq /\ active' = active
      BY <1>8, Zenon DEF Administer, SetUp, SetServes, SetSlotLimit, SetConcLimit, SetEnabled, counters
    <2> QED
      BY <2>1, Zenon DEF SlotAccounting, SlotHolders
  <1> QED
    BY <1>1, <1>2, <1>3, <1>4, <1>5, <1>6, <1>7, <1>8, Zenon DEF Next, Handle, Admit, Serve

(***************************************************************************)
(* Per-key concurrency.                                                    *)
(***************************************************************************)

\* No count changes hands.
LEMMA ConcKept ==
    ASSUME TypeOK, ConcAccounting, NEW r \in Requests, OnlyMoves(r), conc' = conc,
           \/ /\ pc[r] \notin ConcHeldSteps \/ rq[r].limit = 0
              /\ pc'[r] \notin ConcHeldSteps \/ rq'[r].limit = 0
           \/ /\ pc[r] \in ConcHeldSteps /\ pc'[r] \in ConcHeldSteps
              /\ KeepsName(r) /\ SameLimit(r)
    PROVE  ConcAccounting'
  <1>1. \A k \in Keys : ConcHolders(k)' = ConcHolders(k)
    BY DEF ConcHolders, OnlyMoves, SameLimit, KeepsName, Key
  <1> QED
    BY <1>1, Zenon DEF ConcAccounting

\* Every step keeps a key's concurrency counter equal to the requests that it
\* counted, also a patch of the key's limit.
LEMMA ConcStep ==
    ASSUME TypeOK, HandlerShape, ConcAccounting, Next
    PROVE  ConcAccounting'
  <1> USE DEF ConcHeldSteps, QueueHeldSteps, QueueStep, ReleaseStep
  <1>1. ASSUME NEW r \in Requests, Arrive(r) PROVE ConcAccounting'
    <2>1. OnlyMoves(r) /\ pc[r] = "done" /\ pc'[r] = "idle" /\ conc' = conc
      BY <1>1, GotoEffect, IncomingEffect, StepFacts, Zenon DEF TypeOK, Arrive, OnlyMoves, counters
    <2> QED
      BY <2>1, ConcKept, Zenon
  <1>2. ASSUME NEW r \in Requests, Validate(r) \/ Lookup(r) \/ Reserve(r) \/ CheckQuota(r)
        PROVE ConcAccounting'
    <2>1. conc' = conc
      BY <1>2, Zenon DEF Validate, Lookup, Reserve, CheckQuota, counters
    <2>2. rq[r].limit = 0 /\ OnlyMoves(r) /\ rq'[r].limit = rq[r].limit
      BY <1>2, AdmissionTable, Zenon DEF Moves, SameLimit, HandlerShape
    <2> QED
      BY <2>1, <2>2, ConcKept, Zenon
  <1>3. ASSUME NEW r \in Requests, AcquireConc(r) PROVE ConcAccounting'
    <2> DEFINE k == rq[r].key
    <2>1. k \in Keys /\ conc[k] \in Nat
      BY <1>3, Zenon DEF AcquireConc, HandlerShape, Key, TypeOK
    <2>2. Moves(r, {"concurrency"}, {"done", "delay", QueueStep}) /\ SameLimit(r)
      BY <1>3, AdmissionTable, Zenon
    <2>3. CASE conc' = conc
      <3>1. rq'[r].limit = 0 \/ pc'[r] = "done"
        <4>1. CASE rq[r].limit = 0
          BY <2>2, <4>1, Zenon DEF SameLimit
        <4>2. CASE Answer(r, "done", "concurrent_limit")
          BY <4>2, AnswerEffect, StepFacts, CodeFacts, Zenon DEF TypeOK
        <4>3. ~(conc' = [conc EXCEPT ![k] = conc[k] + 1])
          BY <2>1, <2>3 DEF TypeOK
        <4> QED
          BY <1>3, <4>1, <4>2, <4>3, Zenon DEF AcquireConc, Key
      <3> QED
        BY <2>2, <2>3, <3>1, ConcKept, Zenon DEF Moves
    <2>4. CASE conc' # conc
      <3>1. /\ conc' = [conc EXCEPT ![k] = conc[k] + 1]
            /\ rq[r].limit > 0
            /\ Goto(r, IF k \in Delayed THEN "delay" ELSE QueueStep)
        BY <1>3, <2>4, Zenon DEF AcquireConc, Key
      <3>2. rq'[r].limit > 0 /\ rq'[r].key = k
        BY <2>2, <3>1, Zenon DEF Moves, KeepsName, SameLimit, Key
      <3>3. pc'[r] \in {"delay", QueueStep}
        BY <3>1, GotoEffect, StepFacts, Zenon DEF TypeOK
      <3> SUFFICES ASSUME NEW j \in Keys
                   PROVE  conc'[j] = Cardinality(ConcHolders(j)')
        BY Zenon DEF ConcAccounting
      <3>4. IsFiniteSet(ConcHolders(j)) /\ conc[j] = Cardinality(ConcHolders(j))
        BY SetsAssumption, FS_Subset, Zenon DEF ConcHolders, ConcAccounting
      <3>5. ConcHolders(j)' = IF j = k THEN ConcHolders(j) \cup {r} ELSE ConcHolders(j)
        <4>1. \A q \in Requests \ {r} : q \in ConcHolders(j)' <=> q \in ConcHolders(j)
          BY <2>2, Zenon DEF ConcHolders, Moves, OnlyMoves, Key
        <4>2. (r \in ConcHolders(j)' <=> j = k) /\ r \notin ConcHolders(j)
          BY <2>1, <2>2, <3>1, <3>2, <3>3 DEF ConcHolders, Moves, Key
        <4>3. ConcHolders(j) \subseteq Requests /\ ConcHolders(j)' \subseteq Requests
          BY Zenon DEF ConcHolders
        <4> HIDE DEF k
        <4>4. CASE j = k
          BY <4>1, <4>2, <4>3, <4>4, Zenon
        <4>5. CASE j # k
          <5>1. \A q \in Requests : q \in ConcHolders(j)' <=> q \in ConcHolders(j)
            BY <4>1, <4>2, <4>5, Zenon
          <5> QED BY <4>3, <4>5, <5>1, Zenon
        <4> QED BY <4>4, <4>5, Zenon
      <3>6. r \notin ConcHolders(j)
        BY <2>2 DEF ConcHolders, Moves
      <3>7. conc'[j] = IF j = k THEN conc[j] + 1 ELSE conc[j]
        BY <2>1, <3>1, Zenon DEF TypeOK
      <3> QED
        BY <3>4, <3>5, <3>6, <3>7, CountMoves, Zenon
    <2> QED
      BY <2>3, <2>4, Zenon
  <1>4. ASSUME NEW r \in Requests, Delay(r) PROVE ConcAccounting'
    <2>1. conc' = conc
      BY <1>4, Zenon DEF Delay, counters
    <2> QED
      BY <1>4, <2>1, AdmissionTable, ConcKept, Zenon DEF Moves
  <1>5. ASSUME NEW r \in Requests, EnterQueue(r) \/ TakeTurn(r) \/ GiveUp(r) \/ LeaveQueue(r)
                                   \/ Account(r)
        PROVE ConcAccounting'
    <2>1. conc' = conc
      BY <1>5, Zenon DEF EnterQueue, TakeTurn, GiveUp, LeaveQueue, Account, counters
    <2> QED
      BY <1>5, <2>1, QueueTable, ConcKept, Zenon DEF Moves
  <1>6. ASSUME NEW r \in Requests, Route(r) \/ TakeSlot(r) \/ LoseSlot(r) \/ Reroute(r) \/ Rebuild(r)
                                   \/ ReportUsage(r) \/ Finish(r) \/ Settle(r) \/ ReleaseQueue(r)
        PROVE ConcAccounting'
    <2>1. conc' = conc
      BY <1>6, Zenon DEF Route, TakeSlot, LoseSlot, Reroute, Rebuild, ReportUsage, Finish, Settle,
                  ReleaseQueue, counters
    <2> QED
      BY <1>6, <2>1, ServeTable, ConcKept, Zenon DEF Moves
  <1>7. ASSUME NEW r \in Requests, ReleaseConc(r) PROVE ConcAccounting'
    <2> DEFINE k == rq[r].key
    <2>1. Moves(r, {"relconc"}, {"done"}) /\ rq[r].limit \in Nat
      BY <1>7, ServeTable, LocalFields, Zenon DEF TypeOK
    <2>2. CASE rq[r].limit = 0
      <3>1. ~(rq[r].limit > 0)
        BY ONLY <2>2, SMT
      <3>2. \/ conc' = conc
            \/ rq[r].limit > 0
        BY ONLY <1>7, Zenon DEF ReleaseConc
      <3>3. conc' = conc
        BY ONLY <3>1, <3>2, Zenon
      <3> QED
        BY <2>1, <2>2, <3>3, ConcKept, Zenon DEF Moves
    <2>3. CASE rq[r].limit > 0
      <3>1. k \in Keys /\ conc' = [conc EXCEPT ![k] = IF conc[k] > 0 THEN conc[k] - 1 ELSE conc[k]]
        <4>1. k \in Keys
          BY <1>7, <2>3, Zenon DEF ReleaseConc, Key, HandlerShape
        <4>2. ~(0 > 0)
          OBVIOUS
        <4>3. conc' = [conc EXCEPT ![k] = IF conc[k] > 0 THEN conc[k] - 1 ELSE conc[k]]
          BY <1>7, <2>3, <4>1, <4>2, Zenon DEF ReleaseConc, Key
        <4> QED BY <4>1, <4>3, Zenon
      <3> SUFFICES ASSUME NEW j \in Keys
                   PROVE  conc'[j] = Cardinality(ConcHolders(j)')
        BY Zenon DEF ConcAccounting
      <3>2. IsFiniteSet(ConcHolders(j)) /\ conc[j] = Cardinality(ConcHolders(j))
        BY SetsAssumption, FS_Subset, Zenon DEF ConcHolders, ConcAccounting
      <3>3. ConcHolders(j)' = IF j = k THEN ConcHolders(j) \ {r} ELSE ConcHolders(j)
        BY <2>1, <2>3, Zenon DEF ConcHolders, Moves, OnlyMoves, Key
      <3>4. j = k => r \in ConcHolders(j)
        BY <2>1, <2>3, Zenon DEF ConcHolders, Moves, Key
      <3>5. conc'[j] = IF j = k /\ conc[j] > 0 THEN conc[j] - 1 ELSE conc[j]
        BY <3>1, Zenon DEF TypeOK
      <3> QED
        BY <3>2, <3>3, <3>4, <3>5, CountMoves, Zenon
    <2> QED
      BY <2>1, <2>2, <2>3, SMTT(20)
  <1>8. ASSUME Administer PROVE ConcAccounting'
    <2>1. pc' = pc /\ rq' = rq /\ conc' = conc
      BY <1>8, Zenon DEF Administer, SetUp, SetServes, SetSlotLimit, SetConcLimit, SetEnabled, counters
    <2> QED
      BY <2>1, Zenon DEF ConcAccounting, ConcHolders, Key
  <1>9. ASSUME NEW r \in Requests, ReadLimit(r) PROVE ConcAccounting'
    <2>1. conc' = conc /\ Moves(r, {"limit"}, {"concurrency"})
      BY <1>9, AdmissionTable, Zenon DEF ReadLimit, counters
    <2> QED
      BY <2>1, ConcKept, Zenon DEF Moves
  <1> QED
    BY <1>1, <1>2, <1>3, <1>4, <1>5, <1>6, <1>7, <1>8, <1>9, Zenon DEF Next, Handle, Admit, Serve

(***************************************************************************)
(* The per-model queue.                                                    *)
(***************************************************************************)

\* Steps at which a request has its turn, and at which it is inside
\* queue.Acquire with the counter incremented.
TurnSteps  == {"dequeue"} \cup (IF QueueEnabled THEN QueueHeldSteps ELSE {})
QueueSteps == {"waiting", "dequeue", "refused"}

\* The requests that hold a turn of a model's queue, and those inside
\* queue.Acquire, as sets of handlers at certain steps.
LEMMA TurnSets ==
    ASSUME NEW m
    PROVE  /\ TurnHolders(m) = {r \in Requests : Model(r) = m /\ pc[r] \in TurnSteps}
           /\ InQueue(m) = {r \in Requests : Model(r) = m /\ pc[r] \in QueueSteps}
           /\ TurnHolders(m)' = {r \in Requests : Model(r)' = m /\ pc'[r] \in TurnSteps}
           /\ InQueue(m)' = {r \in Requests : Model(r)' = m /\ pc'[r] \in QueueSteps}
           /\ IsFiniteSet(TurnHolders(m)) /\ IsFiniteSet(InQueue(m))
  <1>1. IsFiniteSet(TurnHolders(m)) /\ IsFiniteSet(InQueue(m))
    BY SetsAssumption, FS_Subset, Zenon DEF InQueue, TurnHolders
  <1> QED
    BY <1>1, QueueAssumption, Zenon DEF TurnHolders, InQueue, TurnSteps, QueueSteps

\* How the two sets of a model follow the move of r.
LEMMA TurnMoves ==
    ASSUME NEW r \in Requests, OnlyMoves(r), KeepsName(r), NEW m
    PROVE  /\ TurnHolders(m)' = IF m # Model(r) \/ (pc[r] \in TurnSteps <=> pc'[r] \in TurnSteps)
                                THEN TurnHolders(m)
                                ELSE IF pc'[r] \in TurnSteps THEN TurnHolders(m) \cup {r}
                                ELSE TurnHolders(m) \ {r}
           /\ InQueue(m)' = IF m # Model(r) \/ (pc[r] \in QueueSteps <=> pc'[r] \in QueueSteps)
                            THEN InQueue(m)
                            ELSE IF pc'[r] \in QueueSteps THEN InQueue(m) \cup {r}
                            ELSE InQueue(m) \ {r}
           /\ m = Model(r) => /\ r \in TurnHolders(m) <=> pc[r] \in TurnSteps
                              /\ r \in InQueue(m) <=> pc[r] \in QueueSteps
  <1>1. \A q \in Requests \ {r} : pc'[q] = pc[q] /\ Model(q)' = Model(q)
    BY Zenon DEF OnlyMoves, Model
  <1>2. Model(r)' = Model(r)
    BY Zenon DEF KeepsName
  <1>3. /\ TurnHolders(m) = {q \in Requests : Model(q) = m /\ pc[q] \in TurnSteps}
        /\ TurnHolders(m)' = {q \in Requests : Model(q)' = m /\ pc'[q] \in TurnSteps}
    BY TurnSets, Zenon
  <1>4. /\ InQueue(m) = {q \in Requests : Model(q) = m /\ pc[q] \in QueueSteps}
        /\ InQueue(m)' = {q \in Requests : Model(q)' = m /\ pc'[q] \in QueueSteps}
    BY TurnSets, Zenon
  <1>5. TurnHolders(m)' = IF m # Model(r) \/ (pc[r] \in TurnSteps <=> pc'[r] \in TurnSteps)
                          THEN TurnHolders(m)
                          ELSE IF pc'[r] \in TurnSteps THEN TurnHolders(m) \cup {r}
                          ELSE TurnHolders(m) \ {r}
    BY <1>1, <1>2, <1>3
  <1>6. InQueue(m)' = IF m # Model(r) \/ (pc[r] \in QueueSteps <=> pc'[r] \in QueueSteps)
                      THEN InQueue(m)
                      ELSE IF pc'[r] \in QueueSteps THEN InQueue(m) \cup {r}
                      ELSE InQueue(m) \ {r}
    BY <1>1, <1>2, <1>4
  <1> QED
    BY <1>3, <1>4, <1>5, <1>6, Zenon

\* The counters follow the sets when each changes exactly with its steps.
LEMMA QueueFollows ==
    ASSUME TypeOK, QueueAccounting, NEW r \in Requests, OnlyMoves(r), KeepsName(r),
           IF pc[r] \in TurnSteps <=> pc'[r] \in TurnSteps THEN sem' = sem
           ELSE sem' = [sem EXCEPT ![Model(r)] =
                            IF pc'[r] \in TurnSteps THEN sem[Model(r)] + 1 ELSE sem[Model(r)] - 1],
           IF pc[r] \in QueueSteps <=> pc'[r] \in QueueSteps THEN queued' = queued
           ELSE queued' = [queued EXCEPT ![Model(r)] =
                            IF pc'[r] \in QueueSteps THEN queued[Model(r)] + 1
                            ELSE queued[Model(r)] - 1]
    PROVE  QueueAccounting'
  <1> SUFFICES ASSUME NEW m \in Models
               PROVE  /\ sem'[m] = Cardinality(TurnHolders(m)')
                      /\ queued'[m] = Cardinality(InQueue(m)')
    BY Zenon DEF QueueAccounting
  <1>1. /\ sem[m] = Cardinality(TurnHolders(m)) /\ IsFiniteSet(TurnHolders(m))
        /\ queued[m] = Cardinality(InQueue(m)) /\ IsFiniteSet(InQueue(m))
    BY TurnSets, Zenon DEF QueueAccounting
  <1>2. sem'[m] = IF m # Model(r) \/ (pc[r] \in TurnSteps <=> pc'[r] \in TurnSteps) THEN sem[m]
                  ELSE IF pc'[r] \in TurnSteps THEN sem[m] + 1 ELSE sem[m] - 1
    BY Zenon DEF TypeOK
  <1>3. queued'[m] = IF m # Model(r) \/ (pc[r] \in QueueSteps <=> pc'[r] \in QueueSteps) THEN queued[m]
                     ELSE IF pc'[r] \in QueueSteps THEN queued[m] + 1 ELSE queued[m] - 1
    <2>1. CASE m = Model(r)
      BY <2>1, Zenon DEF TypeOK
    <2>2. CASE m # Model(r)
      BY <2>2, Zenon DEF TypeOK
    <2> QED BY <2>1, <2>2, Zenon
  <1>4. sem'[m] = Cardinality(TurnHolders(m)')
    <2>1. CASE m # Model(r) \/ (pc[r] \in TurnSteps <=> pc'[r] \in TurnSteps)
      BY <1>1, <1>2, <2>1, TurnMoves, Zenon
    <2>2. CASE m = Model(r) /\ pc[r] \notin TurnSteps /\ pc'[r] \in TurnSteps
      <3>1. TurnHolders(m)' = TurnHolders(m) \cup {r} /\ r \notin TurnHolders(m)
        BY <2>2, TurnMoves, Zenon
      <3>2. sem'[m] = sem[m] + 1
        BY <1>2, <2>2, Zenon
      <3>3. Cardinality(TurnHolders(m) \cup {r}) = Cardinality(TurnHolders(m)) + 1
        BY <1>1, <3>1, CountMoves, Zenon
      <3> QED
        BY <1>1, <3>1, <3>2, <3>3, Zenon
    <2>3. CASE m = Model(r) /\ pc[r] \in TurnSteps /\ pc'[r] \notin TurnSteps
      <3>1. TurnHolders(m)' = TurnHolders(m) \ {r} /\ r \in TurnHolders(m)
        BY <2>3, TurnMoves, Zenon
      <3>2. sem'[m] = sem[m] - 1
        BY <1>2, <2>3, Zenon
      <3>3. Cardinality(TurnHolders(m) \ {r}) = Cardinality(TurnHolders(m)) - 1
        BY <1>1, <3>1, CountMoves, Zenon
      <3> QED
        BY <1>1, <3>1, <3>2, <3>3, Zenon
    <2> QED
      BY <2>1, <2>2, <2>3, Zenon
  <1>5. queued'[m] = Cardinality(InQueue(m)')
    <2>1. CASE m # Model(r) \/ (pc[r] \in QueueSteps <=> pc'[r] \in QueueSteps)
      BY <1>1, <1>3, <2>1, TurnMoves, Zenon
    <2>2. CASE m = Model(r) /\ pc[r] \notin QueueSteps /\ pc'[r] \in QueueSteps
      <3>1. InQueue(m)' = InQueue(m) \cup {r} /\ r \notin InQueue(m)
        BY <2>2, TurnMoves, Zenon
      <3>2. queued'[m] = queued[m] + 1
        BY <1>3, <2>2, Zenon
      <3>3. Cardinality(InQueue(m) \cup {r}) = Cardinality(InQueue(m)) + 1
        BY <1>1, <3>1, CountMoves, Zenon
      <3> QED
        BY <1>1, <3>1, <3>2, <3>3, Zenon
    <2>3. CASE m = Model(r) /\ pc[r] \in QueueSteps /\ pc'[r] \notin QueueSteps
      <3>1. InQueue(m)' = InQueue(m) \ {r} /\ r \in InQueue(m)
        BY <2>3, TurnMoves, Zenon
      <3>2. queued'[m] = queued[m] - 1
        BY <1>3, <2>3, Zenon
      <3>3. Cardinality(InQueue(m) \ {r}) = Cardinality(InQueue(m)) - 1
        BY <1>1, <3>1, CountMoves, Zenon
      <3> QED
        BY <1>1, <3>1, <3>2, <3>3, Zenon
    <2> QED
      BY <2>1, <2>2, <2>3, Zenon
  <1> QED
    BY <1>4, <1>5, Zenon

\* Every step keeps the semaphore and the queued counter equal to the sets of
\* requests they count.
LEMMA QueueCountStep ==
    ASSUME TypeOK, HandlerShape, QueueAccounting, Next
    PROVE  QueueAccounting'
  <1> USE DEF TurnSteps, QueueSteps, QueueHeldSteps
  <1>1. ASSUME NEW r \in Requests, Arrive(r) PROVE QueueAccounting'
    <2>1. /\ OnlyMoves(r) /\ pc[r] = "done" /\ pc'[r] = "idle"
          /\ sem' = sem /\ queued' = queued
      BY <1>1, GotoEffect, IncomingEffect, StepFacts, Zenon DEF TypeOK, Arrive, OnlyMoves, counters
    <2>2. \A m \in Models : TurnHolders(m)' = TurnHolders(m) /\ InQueue(m)' = InQueue(m)
      BY <2>1, Zenon DEF OnlyMoves, Model, TurnHolders, InQueue
    <2> QED
      BY <2>1, <2>2, Zenon DEF QueueAccounting
  <1>2. ASSUME NEW r \in Requests, Validate(r) \/ Lookup(r) \/ Reserve(r) \/ CheckQuota(r)
                                   \/ ReadLimit(r) \/ AcquireConc(r) \/ Delay(r)
        PROVE QueueAccounting'
    <2>1. sem' = sem /\ queued' = queued
      BY <1>2, Zenon DEF Validate, Lookup, Reserve, CheckQuota, ReadLimit, AcquireConc, Delay, counters
    <2>2. /\ OnlyMoves(r) /\ KeepsName(r)
          /\ pc[r] \in {"idle", "lookup", "reserve", "quota", "limit", "concurrency", "delay"}
          /\ pc'[r] \in {"done", "lookup", "reserve", "quota", "limit", "concurrency", "delay",
                         "relconc", QueueStep}
      BY <1>2, AdmissionTable, Zenon DEF Moves
    <2>3. pc[r] \notin TurnSteps /\ pc[r] \notin QueueSteps
          /\ pc'[r] \notin TurnSteps /\ pc'[r] \notin QueueSteps
      BY <2>2, Zenon DEF QueueStep
    <2> HIDE DEF TurnSteps, QueueSteps
    <2> QED
      BY <2>1, <2>2, <2>3, QueueFollows, Zenon
  <1>3. ASSUME NEW r \in Requests, EnterQueue(r) PROVE QueueAccounting'
    <2>1. sem' = sem /\ queued' = [queued EXCEPT ![Model(r)] = queued[Model(r)] + 1]
      BY <1>3, Zenon DEF EnterQueue
    <2> QED
      BY <1>3, <2>1, QueueTable, QueueFollows, Zenon DEF Moves
  <1>4. ASSUME NEW r \in Requests, TakeTurn(r) PROVE QueueAccounting'
    <2>1. queued' = queued /\ sem' = [sem EXCEPT ![Model(r)] = sem[Model(r)] + 1]
      BY <1>4, Zenon DEF TakeTurn
    <2> QED
      BY <1>4, <2>1, QueueTable, QueueFollows, Zenon DEF Moves
  <1>5. ASSUME NEW r \in Requests, GiveUp(r) PROVE QueueAccounting'
    <2>1. queued' = queued /\ sem' = sem
      BY <1>5, Zenon DEF GiveUp, counters
    <2> QED
      BY <1>5, <2>1, QueueTable, QueueFollows, Zenon DEF Moves
  <1>6. ASSUME NEW r \in Requests, LeaveQueue(r) PROVE QueueAccounting'
    <2>1. sem' = sem /\ queued' = [queued EXCEPT ![Model(r)] = queued[Model(r)] - 1]
      BY <1>6, Zenon DEF LeaveQueue
    <2>2. QueueEnabled
      BY <1>6, Zenon DEF LeaveQueue, HandlerShape
    <2> QED
      BY <1>6, <2>1, <2>2, QueueTable, QueueFollows, ZenonT(30) DEF Moves
  <1>7. ASSUME NEW r \in Requests, Account(r) PROVE QueueAccounting'
    <2>1. queued' = queued /\ sem' = sem
      BY <1>7, Zenon DEF Account, counters
    <2> QED
      BY <1>7, <2>1, QueueTable, QueueFollows, Zenon DEF Moves
  <1>8. ASSUME NEW r \in Requests, Route(r) \/ TakeSlot(r) \/ LoseSlot(r) \/ Reroute(r) \/ Rebuild(r)
                                   \/ ReportUsage(r) \/ Finish(r) \/ Settle(r)
        PROVE QueueAccounting'
    <2>1. sem' = sem /\ queued' = queued
      BY <1>8, Zenon
         DEF Route, TakeSlot, LoseSlot, Reroute, Rebuild, ReportUsage, Finish, Settle, counters
    <2>2. /\ OnlyMoves(r) /\ KeepsName(r)
          /\ pc[r] \in QueueHeldSteps
          /\ pc'[r] \in QueueHeldSteps \/ (~QueueEnabled /\ pc'[r] = "relconc")
      BY <1>8, ServeTable, Zenon DEF Moves, ReleaseStep
    <2>3. /\ pc[r] \in TurnSteps <=> pc'[r] \in TurnSteps
          /\ pc[r] \notin QueueSteps /\ pc'[r] \notin QueueSteps
      BY <2>2, Zenon
    <2> HIDE DEF TurnSteps, QueueSteps
    <2> QED
      BY <2>1, <2>2, <2>3, QueueFollows, Zenon
  <1>9. ASSUME NEW r \in Requests, ReleaseQueue(r) PROVE QueueAccounting'
    <2>1. queued' = queued /\ sem' = [sem EXCEPT ![Model(r)] = sem[Model(r)] - 1]
      BY <1>9, Zenon DEF ReleaseQueue
    <2>2. QueueEnabled
      BY <1>9, Zenon DEF ReleaseQueue, HandlerShape
    <2> QED
      BY <1>9, <2>1, <2>2, ServeTable, QueueFollows, Zenon DEF Moves
  <1>10. ASSUME NEW r \in Requests, ReleaseConc(r) PROVE QueueAccounting'
    <2>1. queued' = queued /\ sem' = sem
      BY <1>10, Zenon DEF ReleaseConc
    <2> QED
      BY <1>10, <2>1, ServeTable, QueueFollows, ZenonT(30) DEF Moves
  <1>11. ASSUME Administer PROVE QueueAccounting'
    <2>1. pc' = pc /\ rq' = rq /\ sem' = sem /\ queued' = queued
      BY <1>11, Zenon DEF Administer, SetUp, SetServes, SetSlotLimit, SetConcLimit, SetEnabled, counters
    <2> QED
      BY <2>1 DEF QueueAccounting, TurnHolders, InQueue, Model
  <1> QED
    BY <1>1, <1>2, <1>3, <1>4, <1>5, <1>6, <1>7, <1>8, <1>9, <1>10, <1>11, Zenon
       DEF Next, Handle, Admit, Serve

\* Every step keeps the queue's bounds: a turn is taken only when the semaphore
\* has room, and a wait begins only at a count within max_queue_size.
LEMMA QueueBoundsStep ==
    ASSUME TypeOK, HandlerShape, QueueAccounting, QueueBounds, Next
    PROVE  QueueBounds'
  <1>1. QueueAccounting'
    BY QueueCountStep, Zenon
  <1>2. \A m \in Models : sem[m] <= MaxConc /\ sem[m] \in Nat
    BY Zenon DEF QueueAccounting, QueueBounds, TypeOK
  <1>3. \A m \in Models : sem'[m] <= MaxConc
    <2>1. CASE sem' = sem
      BY <2>1, <1>2, Zenon
    <2>2. ASSUME NEW r \in Requests, TakeTurn(r) PROVE \A m \in Models : sem'[m] <= MaxConc
      BY <2>2, <1>2, QueueAssumption DEF TakeTurn, TypeOK
    <2>3. ASSUME NEW r \in Requests, ReleaseQueue(r) PROVE \A m \in Models : sem'[m] <= MaxConc
      BY <2>3, <1>2, QueueAssumption DEF ReleaseQueue, TypeOK
    <2>4. ASSUME NEW r \in Requests, Arrive(r) \/ Validate(r) \/ Lookup(r) PROVE sem' = sem
      BY <2>4, Zenon DEF Arrive, Validate, Lookup, counters
    <2>5. ASSUME NEW r \in Requests, Admit(r) PROVE sem' = sem \/ TakeTurn(r)
      BY <2>5, Zenon
         DEF Admit, Reserve, CheckQuota, ReadLimit, AcquireConc, Delay, EnterQueue, GiveUp,
                  LeaveQueue, Account, counters
    <2>6. ASSUME NEW r \in Requests, Serve(r) PROVE sem' = sem \/ ReleaseQueue(r)
      BY <2>6, Zenon DEF Serve, Route, TakeSlot, LoseSlot, Reroute, Rebuild, ReportUsage, Finish, Settle,
                  ReleaseConc, counters
    <2>7. ASSUME Administer PROVE sem' = sem
      BY <2>7, Zenon DEF Administer, SetUp, SetServes, SetSlotLimit, SetConcLimit, SetEnabled, counters
    <2> QED
      BY <2>1, <2>2, <2>3, <2>4, <2>5, <2>6, <2>7, Zenon DEF Next, Handle
  <1>4. \A m \in Models : Cardinality(TurnHolders(m)') <= MaxConc
    BY <1>1, <1>3, Zenon DEF QueueAccounting
  <1>5. ASSUME NEW m \in Models PROVE Cardinality(Waiting(m)') <= MaxSize
    <2>1. /\ IsFiniteSet(Waiting(m)) /\ IsFiniteSet(InQueue(m)')
          /\ Cardinality(Waiting(m)) <= MaxSize
      BY SetsAssumption, FS_Subset, Zenon DEF Waiting, InQueue, QueueBounds
    <2>2. CASE Waiting(m)' \subseteq Waiting(m)
      BY <2>1, <2>2, FS_Subset, FS_CardinalityType, QueueAssumption
    <2>3. ASSUME NEW r \in Requests, EnterQueue(r) PROVE Cardinality(Waiting(m)') <= MaxSize
      <3>1. Moves(r, {"queue"}, {"refused", "waiting"})
        BY <2>3, QueueTable, Zenon
      <3>2. CASE pc'[r] = "refused" \/ m # Model(r)
        <4>1. Waiting(m)' \subseteq Waiting(m)
          BY <3>1, <3>2, Zenon DEF Waiting, Moves, OnlyMoves, KeepsName, Model
        <4> QED
          BY <4>1, <2>2, Zenon
      <3>3. CASE pc'[r] = "waiting" /\ m = Model(r)
        <4>1. ~Answer(r, "refused", "queue_full")
          BY <3>3, AnswerEffect, StepFacts, CodeFacts, Zenon DEF TypeOK
        <4>2. queued'[m] <= MaxSize
          BY <2>3, <3>3, <4>1, Zenon DEF EnterQueue, TypeOK
        <4>3. Waiting(m)' \subseteq InQueue(m)'
          BY Zenon DEF Waiting, InQueue
        <4>4. Cardinality(InQueue(m)') <= MaxSize
          BY <1>1, <4>2, Zenon DEF QueueAccounting
        <4> QED
          BY <2>1, <4>3, <4>4, FS_Subset, FS_CardinalityType, QueueAssumption, SMTT(20)
      <3> QED
        BY <3>1, <3>2, <3>3, Zenon DEF Moves
    <2>4. ASSUME NEW r \in Requests, OnlyMoves(r), pc'[r] # "waiting"
          PROVE  Waiting(m)' \subseteq Waiting(m)
      BY <2>4, Zenon DEF Waiting, OnlyMoves, Model
    <2>5. ASSUME NEW r \in Requests, Arrive(r) PROVE Waiting(m)' \subseteq Waiting(m)
      <3>1. OnlyMoves(r) /\ pc'[r] = "idle"
        BY <2>5, GotoEffect, IncomingEffect, StepFacts, Zenon DEF TypeOK, Arrive, OnlyMoves
      <3> QED
        BY <2>4, <3>1, Zenon
    <2>6. ASSUME NEW r \in Requests, Validate(r) \/ Lookup(r) \/ Reserve(r) \/ CheckQuota(r)
                                     \/ ReadLimit(r) \/ AcquireConc(r) \/ Delay(r)
          PROVE  Waiting(m)' \subseteq Waiting(m)
      BY <2>6, <2>4, AdmissionTable, Zenon DEF Moves, QueueStep
    <2>7. ASSUME NEW r \in Requests, TakeTurn(r) \/ GiveUp(r) \/ LeaveQueue(r) \/ Account(r)
          PROVE  Waiting(m)' \subseteq Waiting(m)
      BY <2>7, <2>4, QueueTable, Zenon DEF Moves
    <2>8. ASSUME NEW r \in Requests, Serve(r) PROVE Waiting(m)' \subseteq Waiting(m)
      BY <2>8, <2>4, ServeTable, Zenon DEF Serve, Moves, ReleaseStep
    <2>9. ASSUME Administer PROVE Waiting(m)' \subseteq Waiting(m)
      <3>1. pc' = pc /\ rq' = rq
        BY <2>9, Zenon DEF Administer, SetUp, SetServes, SetSlotLimit, SetConcLimit, SetEnabled
      <3> QED
        BY <3>1, Zenon DEF Waiting, Model
    <2> QED
      BY <2>2, <2>3, <2>5, <2>6, <2>7, <2>8, <2>9, Zenon DEF Next, Handle, Admit
  <1> QED
    BY <1>4, <1>5, Zenon DEF QueueBounds

(***************************************************************************)
(* The theorems about who holds what.                                      *)
(***************************************************************************)

\* The inductive invariant.
Inv == /\ TypeOK /\ HandlerShape
       /\ SlotAccounting /\ ConcAccounting /\ QueueAccounting /\ QueueBounds

\* Before the first request nothing is held and every count is zero.
LEMMA InitInv == Init => Inv
  <1> SUFFICES ASSUME Init PROVE Inv
    BY Zenon
  <1>1. \A r \in Requests : /\ pc[r] = "idle" /\ rq[r] \in LocalType /\ rq[r].limit = 0
    <2>1. \A i \in Incoming : i \in LocalType /\ i.limit = 0
      BY IncomingType, Zenon
    <2> QED
      BY <2>1, Zenon DEF Init
  <1>2. TypeOK
    <2>1. pc \in [Requests -> Steps]
      BY StepFacts, Zenon DEF Init
    <2>2. rq \in [Requests -> LocalType]
      BY <1>1, Zenon DEF Init
    <2>3. /\ enabled \in [Models -> BOOLEAN] /\ serves \in [Backends -> SUBSET Models]
          /\ up \in [Backends -> BOOLEAN]
      BY Zenon DEF Init
    <2>4. slotLimit \in [Backends -> Nat] /\ concLimit \in [Keys -> Nat]
      BY SetsAssumption, Zenon DEF Init
    <2>5. /\ active \in [Backends -> Nat] /\ conc \in [Keys -> Nat]
          /\ sem \in [Models -> Nat] /\ queued \in [Models -> Nat]
          /\ hits \in [Keys -> Nat] /\ arrivals \in 0 .. MaxArrivals
      BY SetsAssumption DEF Init
    <2>6. reqs \in [Keys -> [Windows -> Nat]] /\ toks \in [Keys -> [Windows -> Nat]]
      BY Zenon DEF Init
    <2> QED
      BY <2>1, <2>2, <2>3, <2>4, <2>5, <2>6, Zenon DEF TypeOK
  <1>3. HandlerShape
    BY <1>1 DEF HandlerShape
  <1>4. /\ \A b \in Backends : SlotHolders(b) = {}
        /\ \A k \in Keys : ConcHolders(k) = {}
        /\ \A m \in Models : TurnHolders(m) = {} /\ InQueue(m) = {} /\ Waiting(m) = {}
    BY <1>1, Zenon
       DEF SlotHolders, ConcHolders, TurnHolders, InQueue, Waiting, ConcHeldSteps,
           QueueHeldSteps
  <1>5. Cardinality({}) = 0
    BY FS_EmptySet, Zenon
  <1>6. SlotAccounting /\ ConcAccounting /\ QueueAccounting
    BY <1>4, <1>5, Zenon DEF Init, SlotAccounting, ConcAccounting, QueueAccounting
  <1>7. QueueBounds
    BY <1>4, <1>5, QueueAssumption DEF QueueBounds
  <1> QED
    BY <1>2, <1>3, <1>6, <1>7, Zenon DEF Inv

\* The invariant is inductive: every step of every handler and of the admin
\* API keeps it.
LEMMA InvStep == Inv /\ [Next]_vars => Inv'
  <1>1. ASSUME Inv, Next PROVE Inv'
    BY <1>1, TypeStep, ShapeStep, SlotStep, ConcStep, QueueCountStep, QueueBoundsStep, Zenon DEF Inv
  <1>2. ASSUME Inv, UNCHANGED vars PROVE Inv'
    <2>1. /\ pc' = pc /\ rq' = rq /\ enabled' = enabled /\ serves' = serves /\ up' = up
          /\ slotLimit' = slotLimit /\ concLimit' = concLimit /\ active' = active
          /\ conc' = conc /\ sem' = sem /\ queued' = queued /\ reqs' = reqs
          /\ toks' = toks /\ hits' = hits /\ arrivals' = arrivals
      BY <1>2, Zenon DEF vars, registry, counters, meters
    <2>2. TypeOK'
      BY <1>2, <2>1, Zenon DEF Inv, TypeOK
    <2>3. HandlerShape'
      BY <1>2, <2>1, Zenon DEF Inv, HandlerShape, Key
    <2>4. SlotAccounting' /\ ConcAccounting'
      BY <1>2, <2>1, Zenon DEF Inv, SlotAccounting, ConcAccounting, SlotHolders, ConcHolders, Key
    <2>5. QueueAccounting' /\ QueueBounds'
      BY <1>2, <2>1, Zenon
         DEF Inv, QueueAccounting, QueueBounds, TurnHolders, InQueue, Waiting, Model
    <2> QED
      BY <2>2, <2>3, <2>4, <2>5, Zenon DEF Inv
  <1> QED
    BY <1>1, <1>2, Zenon

\* The inductive invariant holds in every reachable state.
THEOREM Invariance == Spec => []Inv
  BY InitInv, InvStep, PTL DEF Spec

\* The variables of every handler and counter keep their types.
THEOREM TypeCorrect == Spec => []TypeOK
  <1>1. Inv => TypeOK
    BY Zenon DEF Inv
  <1> QED
    BY <1>1, Invariance, PTL

\* activeRequests of every backend is at all times the number of handlers
\* between a successful AcquireSlot and their ReleaseSlot.
THEOREM SlotsAreCounted == Spec => []SlotAccounting
  <1>1. Inv => SlotAccounting
    BY Zenon DEF Inv
  <1> QED
    BY <1>1, Invariance, PTL

\* The concurrency count of every key is at all times the number of its
\* requests that Concurrency.Acquire counted and that have not run release.
THEOREM ConcurrencyIsCounted == Spec => []ConcAccounting
  <1>1. Inv => ConcAccounting
    BY Zenon DEF Inv
  <1> QED
    BY <1>1, Invariance, PTL

\* The semaphore and the counter of every queue scope are at all times the
\* numbers of requests that have their turn and that are in queue.Acquire.
THEOREM QueueIsCounted == Spec => []QueueAccounting
  <1>1. Inv => QueueAccounting
    BY Zenon DEF Inv
  <1> QED
    BY <1>1, Invariance, PTL

\* per_model_limit bounds the requests of a model past the queue, and
\* max_queue_size those that wait in it.
THEOREM QueueIsBounded == Spec => []QueueBounds
  <1>1. Inv => QueueBounds
    BY Zenon DEF Inv
  <1> QED
    BY <1>1, Invariance, PTL

\* Both: the counters of every queue scope are exact and keep its bounds.
THEOREM QueueHolds == Spec => []QueueIsExact
  <1>1. QueueAccounting /\ QueueBounds => QueueIsExact
    BY Zenon DEF QueueIsExact
  <1> QED
    BY <1>1, QueueIsCounted, QueueIsBounded, PTL

-----------------------------------------------------------------------------
(***************************************************************************)
(* What the limits of a key bound, although each is read before Acquire:   *)
(* the statement about the sets of requests counted is inductive.          *)
(***************************************************************************)

\* A step of r that counts no further request.
LEMMA LimitsKept ==
    ASSUME LimitsReadHold, NEW r \in Requests, OnlyMoves(r),
           \/ pc'[r] \notin ConcHeldSteps \/ rq'[r].limit = 0
           \/ pc[r] \in ConcHeldSteps /\ KeepsName(r) /\ SameLimit(r)
    PROVE  LimitsReadHold'
  <1> SUFFICES ASSUME NEW k \in Keys, NEW S \in SUBSET ConcHolders(k)', S # {}
               PROVE  \E q \in S : Cardinality(S) <= rq'[q].limit
    BY Zenon DEF LimitsReadHold
  <1>1. \A q \in ConcHolders(k)' : q \in ConcHolders(k) /\ rq'[q].limit = rq[q].limit
    <2> SUFFICES ASSUME NEW q \in ConcHolders(k)'
                 PROVE  q \in ConcHolders(k) /\ rq'[q].limit = rq[q].limit
      BY Zenon
    <2>1. q \in Requests /\ pc'[q] \in ConcHeldSteps /\ rq'[q].key = k /\ rq'[q].limit > 0
      BY Zenon DEF ConcHolders, Key
    <2>2. CASE q # r
      BY <2>1, <2>2, Zenon DEF OnlyMoves, ConcHolders, Key
    <2>3. CASE q = r
      <3>1. ~(0 > 0)
        OBVIOUS
      <3>2. pc[r] \in ConcHeldSteps /\ KeepsName(r) /\ SameLimit(r)
        BY <2>1, <2>3, <3>1, Zenon
      <3> QED
        BY <2>1, <2>3, <3>2, Zenon DEF KeepsName, SameLimit, ConcHolders, Key
    <2> QED
      BY <2>2, <2>3, Zenon
  <1>2. S \in SUBSET ConcHolders(k)
    BY <1>1, Zenon
  <1> QED
    BY <1>1, <1>2, Zenon DEF LimitsReadHold

\* A request that Acquire counts finds fewer than its limit, so the limit it
\* read admits every set of requests that it belongs to.
LEMMA LimitsTaken ==
    ASSUME TypeOK, HandlerShape, ConcAccounting, ConcAccounting', LimitsReadHold,
           NEW r \in Requests, AcquireConc(r)
    PROVE  LimitsReadHold'
  <1>1. Moves(r, {"concurrency"}, {"done", "delay", QueueStep}) /\ SameLimit(r)
    BY AdmissionTable, Zenon
  <1>2. CASE pc'[r] = "done" \/ rq[r].limit = 0
    <2>1. pc'[r] \notin ConcHeldSteps \/ rq'[r].limit = 0
      BY <1>1, <1>2, Zenon DEF ConcHeldSteps, QueueHeldSteps, SameLimit
    <2> QED
      BY <1>1, <2>1, LimitsKept, Zenon DEF Moves
  <1>3. CASE ~(pc'[r] = "done" \/ rq[r].limit = 0)
    <2> DEFINE j == Key(r)
    <2>1. ~Answer(r, "done", "concurrent_limit")
      BY <1>3, AnswerEffect, StepFacts, CodeFacts, Zenon DEF TypeOK
    <2>2. conc[j] < rq[r].limit /\ conc' = [conc EXCEPT ![j] = conc[j] + 1]
      BY <1>3, <2>1, Zenon DEF AcquireConc
    <2>3. j \in Keys /\ conc[j] \in Nat /\ rq[r].limit \in Nat
      BY <1>1, LocalFields, Zenon DEF HandlerShape, Moves, TypeOK
    <2>4. conc'[j] = conc[j] + 1
      BY <2>2, <2>3, Zenon DEF TypeOK
    <2>5. conc'[j] <= rq'[r].limit /\ conc'[j] \in Nat /\ rq'[r].limit \in Nat
      <3>1. rq'[r].limit = rq[r].limit
        BY <1>1, Zenon DEF SameLimit
      <3> HIDE DEF j
      <3> QED
        BY <2>2, <2>3, <2>4, <3>1
    <2> SUFFICES ASSUME NEW k \in Keys, NEW S \in SUBSET ConcHolders(k)', S # {}
                 PROVE  \E q \in S : Cardinality(S) <= rq'[q].limit
      BY Zenon DEF LimitsReadHold
    <2>6. CASE r \in S
      <3>1. k = j
        BY <1>1, <2>6, Zenon DEF ConcHolders, Moves, KeepsName, Key
      <3>2. IsFiniteSet(ConcHolders(k)') /\ Cardinality(ConcHolders(k)') = conc'[k]
        <4>1. ConcHolders(k)' \subseteq Requests
          BY Zenon DEF ConcHolders
        <4> QED
          BY <4>1, SetsAssumption, FS_Subset, Zenon DEF ConcAccounting
      <3>3. Cardinality(S) \in Nat /\ Cardinality(S) <= conc'[j]
        <4>1. S \subseteq ConcHolders(k)'
          BY Zenon
        <4>2. IsFiniteSet(S) /\ Cardinality(S) <= Cardinality(ConcHolders(k)')
          BY <3>2, <4>1, FS_Subset, Zenon
        <4> QED
          BY <3>1, <3>2, <4>2, FS_CardinalityType, Zenon
      <3>4. Cardinality(S) <= rq'[r].limit
        BY <2>5, <3>3, OrderFacts, Zenon
      <3> QED
        BY <2>6, <3>4, Zenon
    <2>7. CASE r \notin S
      <3>1. \A q \in S : q \in ConcHolders(k) /\ rq'[q].limit = rq[q].limit
        BY <1>1, <2>7, Zenon DEF Moves, OnlyMoves, ConcHolders, Key
      <3>2. S \in SUBSET ConcHolders(k)
        BY <3>1, Zenon
      <3> QED
        BY <3>1, <3>2, Zenon DEF LimitsReadHold
    <2> QED
      BY <2>6, <2>7, Zenon
  <1> QED
    BY <1>2, <1>3, Zenon

\* Every other step of a handler counts no further request.
LEMMA LimitsStep ==
    ASSUME TypeOK, HandlerShape, ConcAccounting, LimitsReadHold, Next
    PROVE  LimitsReadHold'
  <1> USE DEF ConcHeldSteps, QueueHeldSteps, QueueStep, ReleaseStep
  <1>1. ASSUME NEW r \in Requests, Arrive(r) PROVE LimitsReadHold'
    <2>1. OnlyMoves(r) /\ rq'[r].limit = 0
      BY <1>1, GotoEffect, IncomingEffect, StepFacts, Zenon DEF TypeOK, Arrive, OnlyMoves
    <2> QED
      BY <2>1, LimitsKept, Zenon
  <1>2. ASSUME NEW r \in Requests, Validate(r) \/ Lookup(r) \/ Reserve(r) \/ CheckQuota(r)
        PROVE LimitsReadHold'
    <2>1. OnlyMoves(r) /\ rq'[r].limit = 0
      BY <1>2, AdmissionTable, Zenon DEF Moves, SameLimit, HandlerShape
    <2> QED
      BY <2>1, LimitsKept, Zenon
  <1>3. ASSUME NEW r \in Requests, ReadLimit(r) PROVE LimitsReadHold'
    BY <1>3, AdmissionTable, LimitsKept, Zenon DEF Moves
  <1>4. ASSUME NEW r \in Requests, AcquireConc(r) PROVE LimitsReadHold'
    BY <1>4, ConcStep, LimitsTaken, Zenon
  <1>5. ASSUME NEW r \in Requests, Delay(r) PROVE LimitsReadHold'
    BY <1>5, AdmissionTable, LimitsKept, Zenon DEF Moves
  <1>6. ASSUME NEW r \in Requests, EnterQueue(r) \/ TakeTurn(r) \/ GiveUp(r) \/ LeaveQueue(r)
                                   \/ Account(r)
        PROVE LimitsReadHold'
    BY <1>6, QueueTable, LimitsKept, Zenon DEF Moves
  <1>7. ASSUME NEW r \in Requests, Route(r) \/ TakeSlot(r) \/ LoseSlot(r) \/ Reroute(r) \/ Rebuild(r)
                                   \/ ReportUsage(r) \/ Finish(r) \/ Settle(r) \/ ReleaseQueue(r)
                                   \/ ReleaseConc(r)
        PROVE LimitsReadHold'
    BY <1>7, ServeTable, LimitsKept, Zenon DEF Moves
  <1>8. ASSUME Administer PROVE LimitsReadHold'
    <2>1. pc' = pc /\ rq' = rq
      BY <1>8, Zenon DEF Administer, SetUp, SetServes, SetSlotLimit, SetConcLimit, SetEnabled
    <2>2. \A k \in Keys : ConcHolders(k)' = ConcHolders(k)
      BY <2>1, Zenon DEF ConcHolders, Key
    <2> QED
      BY <2>1, <2>2, Zenon DEF LimitsReadHold
  <1> QED
    BY <1>1, <1>2, <1>3, <1>4, <1>5, <1>6, <1>7, <1>8, Zenon DEF Next, Handle, Admit, Serve

\* However the key is patched, of any requests that are counted together one
\* read a limit that admits as many.
THEOREM LimitsAreKept == Spec => []LimitsReadHold
  <1>1. Init => LimitsReadHold
    BY Zenon DEF Init, LimitsReadHold, ConcHolders, ConcHeldSteps, QueueHeldSteps
  <1>2. Inv /\ LimitsReadHold /\ [Next]_vars => LimitsReadHold'
    <2>1. ASSUME Inv, LimitsReadHold, Next PROVE LimitsReadHold'
      BY <2>1, LimitsStep, Zenon DEF Inv
    <2>2. ASSUME LimitsReadHold, UNCHANGED vars PROVE LimitsReadHold'
      <3>1. pc' = pc /\ rq' = rq
        BY <2>2, Zenon DEF vars
      <3>2. \A k \in Keys : ConcHolders(k)' = ConcHolders(k)
        BY <3>1, Zenon DEF ConcHolders, Key
      <3> QED
        BY <2>2, <3>1, <3>2, Zenon DEF LimitsReadHold
    <2> QED
      BY <2>1, <2>2, Zenon
  <1> QED
    BY <1>1, <1>2, Invariance, PTL DEF Spec

-----------------------------------------------------------------------------
(***************************************************************************)
(* The windows of the rate limiter, which checks and counts under one      *)
(* lock, keep their caps; the monthly quota, which is checked in one step  *)
(* and counted in a later one, can be exceeded, but only by the requests   *)
(* in between.                                                             *)
(***************************************************************************)

\* CheckAndReserve admits only below the caps of the minute and the day.
LEMMA LimiterAdmits ==
    ASSUME NEW rs, NEW ts, LimiterVerdict(rs, ts) = ""
    PROVE  /\ ~Reached(ReqLimit["minute"], rs["minute"])
           /\ ~Reached(ReqLimit["day"], rs["day"])
    BY Zenon DEF LimiterVerdict

\* quota.Check admits only below the cap of the month.
LEMMA QuotaAdmits ==
    ASSUME NEW rs, NEW ts, QuotaVerdict(rs, ts) = ""
    PROVE  ~Reached(ReqLimit["month"], rs["month"])
    BY Zenon DEF QuotaVerdict

\* What Reserve does to the counters of the request's key.
LEMMA ReserveEffect ==
    ASSUME TypeOK, HandlerShape, NEW r \in Requests, Reserve(r)
    PROVE  \E expired \in SUBSET {"minute", "day"} :
             LET rs == Roll(reqs[Key(r)], expired)
             IN  /\ Key(r) \in Keys
                 /\ \/ reqs' = [reqs EXCEPT ![Key(r)] = rs]
                    \/ /\ ~Reached(ReqLimit["minute"], rs["minute"])
                       /\ ~Reached(ReqLimit["day"], rs["day"])
                       /\ reqs' = [reqs EXCEPT ![Key(r)] =
                            [rs EXCEPT !["minute"] = rs["minute"] + 1,
                                       !["day"] = rs["day"] + 1]]
  <1>1. Key(r) \in Keys
    BY Zenon DEF Reserve, HandlerShape
  <1>2. PICK expired \in SUBSET (Elapsing \cap {"minute", "day"}) :
          LET rs == Roll(reqs[Key(r)], expired)
              ts == Roll(toks[Key(r)], expired)
              c  == LimiterVerdict(rs, ts)
          IN  \/ /\ c = ""
                 /\ reqs' = [reqs EXCEPT ![Key(r)] =
                      [rs EXCEPT !["minute"] = @ + 1, !["day"] = @ + 1]]
              \/ reqs' = [reqs EXCEPT ![Key(r)] = rs]
    BY Zenon DEF Reserve
  <1> DEFINE rs == Roll(reqs[Key(r)], expired)
             ts == Roll(toks[Key(r)], expired)
  <1>3. \/ reqs' = [reqs EXCEPT ![Key(r)] = rs]
        \/ /\ ~Reached(ReqLimit["minute"], rs["minute"])
           /\ ~Reached(ReqLimit["day"], rs["day"])
           /\ reqs' = [reqs EXCEPT ![Key(r)] =
                [rs EXCEPT !["minute"] = rs["minute"] + 1,
                           !["day"] = rs["day"] + 1]]
    <2>1. CASE LimiterVerdict(rs, ts) = ""
      BY <1>2, <2>1, LimiterAdmits, Zenon
    <2>2. CASE LimiterVerdict(rs, ts) # ""
      BY <1>2, <2>2, Zenon
    <2> QED
      BY <2>1, <2>2, Zenon
  <1>4. expired \in SUBSET {"minute", "day"}
    BY <1>2, Zenon
  <1> QED
    BY <1>1, <1>3, <1>4, Zenon

\* Reserve raises the counters of the minute and the day at most to their
\* caps, and leaves the month alone.
LEMMA ReserveBounds ==
    ASSUME TypeOK, HandlerShape, NEW r \in Requests, Reserve(r), NEW k \in Keys
    PROVE  /\ \A w \in {"minute", "day"} :
                reqs'[k][w] <= reqs[k][w] \/ (ReqLimit[w] > 0 => reqs'[k][w] <= ReqLimit[w])
           /\ reqs'[k]["month"] = reqs[k]["month"]
  <1> DEFINE j == Key(r)
  <1>1. PICK expired \in SUBSET {"minute", "day"} :
           /\ j \in Keys
           /\ \/ reqs' = [reqs EXCEPT ![j] = Roll(reqs[j], expired)]
              \/ /\ ~Reached(ReqLimit["minute"], Roll(reqs[j], expired)["minute"])
                 /\ ~Reached(ReqLimit["day"], Roll(reqs[j], expired)["day"])
                 /\ reqs' = [reqs EXCEPT ![j] =
                      [Roll(reqs[j], expired) EXCEPT
                         !["minute"] = Roll(reqs[j], expired)["minute"] + 1,
                         !["day"] = Roll(reqs[j], expired)["day"] + 1]]
    BY ReserveEffect, Zenon
  <1> DEFINE rs == Roll(reqs[j], expired)
  <1>2. /\ rs \in [Windows -> Nat] /\ \A w \in Windows : rs[w] <= reqs[j][w]
    BY <1>1, RollType, Zenon DEF TypeOK
  <1>3. rs["month"] = reqs[j]["month"]
    BY <1>1, Zenon DEF Roll, Windows, TypeOK
  <1> HIDE DEF rs, j
  <1>4. ReqLimit["minute"] \in Nat /\ ReqLimit["day"] \in Nat
    BY LimitsAssumption, Zenon DEF Windows
  <1>5. CASE k # j
    BY <1>1, <1>5 DEF TypeOK, rs, Windows
  <1>6. CASE k = j /\ reqs' = [reqs EXCEPT ![j] = rs]
    BY <1>1, <1>2, <1>3, <1>6, Zenon DEF TypeOK, Windows
  <1>7. CASE /\ k = j
             /\ ~Reached(ReqLimit["minute"], rs["minute"]) /\ ~Reached(ReqLimit["day"], rs["day"])
             /\ reqs' = [reqs EXCEPT ![j] = [rs EXCEPT !["minute"] = rs["minute"] + 1,
                                                       !["day"] = rs["day"] + 1]]
    <2>1. /\ reqs'[k]["minute"] = rs["minute"] + 1 /\ reqs'[k]["day"] = rs["day"] + 1
          /\ reqs'[k]["month"] = rs["month"]
      BY <1>1, <1>2, <1>7, Zenon DEF TypeOK, Windows
    <2>2. rs["minute"] \in Nat /\ rs["day"] \in Nat
      BY <1>2, Zenon DEF Windows
    <2> QED
      BY <1>3, <1>4, <1>7, <2>1, <2>2 DEF Reached
  <1> QED
    BY <1>1, <1>5, <1>6, <1>7, Zenon DEF rs

\* Account raises the month of the request's key by one at most.
LEMMA AccountBounds ==
    ASSUME TypeOK, NEW r \in Requests, Account(r), NEW k \in Keys
    PROVE  /\ \A w \in {"minute", "day"} : reqs'[k][w] <= reqs[k][w]
           /\ reqs'[k]["month"] <= reqs[k]["month"] + (IF k = Key(r) THEN 1 ELSE 0)
  <1> DEFINE j == Key(r)
  <1>1. CASE reqs' = reqs
    BY <1>1 DEF TypeOK, Windows
  <1>2. CASE reqs' # reqs
    <2>1. j \in Keys
      BY <1>2, LocalFields, Zenon DEF Account, TypeOK, Key
    <2>2. PICK expired \in SUBSET {"month"} :
            reqs' = [reqs EXCEPT ![j] = [Roll(reqs[j], expired) EXCEPT !["month"] = @ + 1]]
      BY <1>2, Zenon DEF Account
    <2> DEFINE rs == Roll(reqs[j], expired)
    <2>3. rs \in [Windows -> Nat] /\ \A w \in Windows : rs[w] <= reqs[j][w]
      BY <2>1, RollType, Zenon DEF TypeOK
    <2>4. reqs' = [reqs EXCEPT ![j] = [rs EXCEPT !["month"] = rs["month"] + 1]]
      BY <2>2, Zenon
    <2> HIDE DEF rs, j
    <2>5. CASE k # j
      BY <2>4, <2>5 DEF TypeOK, Windows, j
    <2>6. CASE k = j
      <3>1. /\ reqs'[k]["month"] = rs["month"] + 1 /\ reqs'[k]["minute"] = rs["minute"]
            /\ reqs'[k]["day"] = rs["day"]
        BY <2>1, <2>3, <2>4, <2>6, Zenon DEF TypeOK, Windows
      <3>2. /\ rs["month"] \in Nat /\ rs["month"] <= reqs[k]["month"]
            /\ rs["minute"] <= reqs[k]["minute"] /\ rs["day"] <= reqs[k]["day"]
        BY <2>3, <2>6, Zenon DEF Windows
      <3>3. reqs[k]["month"] \in Nat
        BY Zenon DEF TypeOK, Windows
      <3> QED
        BY <3>1, <3>2, <3>3, <2>6 DEF j
    <2> QED
      BY <2>5, <2>6, Zenon
  <1> QED
    BY <1>1, <1>2, Zenon

\* Nothing else raises a request counter.
LEMMA OthersNeverCount ==
    ASSUME TypeOK, HandlerShape, Next,
           \A r \in Requests : ~Reserve(r) /\ ~Account(r)
    PROVE  \A k \in Keys, w \in Windows : reqs'[k][w] <= reqs[k][w]
  <1>1. CASE reqs' = reqs
    BY <1>1 DEF TypeOK
  <1>2. ASSUME NEW r \in Requests, CheckQuota(r)
        PROVE  \A k \in Keys, w \in Windows : reqs'[k][w] <= reqs[k][w]
    <2>1. PICK expired \in SUBSET {"month"} : reqs' = [reqs EXCEPT ![Key(r)] = Roll(reqs[Key(r)], expired)]
      BY <1>2, Zenon DEF CheckQuota
    <2>2. Key(r) \in Keys
      BY <1>2, Zenon DEF CheckQuota, HandlerShape
    <2>3. \A w \in Windows : Roll(reqs[Key(r)], expired)[w] <= reqs[Key(r)][w]
      BY <2>2, RollType, Zenon DEF TypeOK
    <2> QED
      BY <2>1, <2>2, <2>3 DEF TypeOK
  <1>3. ASSUME NEW r \in Requests, ReportUsage(r) \/ Settle(r)
        PROVE  \A k \in Keys, w \in Windows : reqs'[k][w] <= reqs[k][w]
    <2>1. PICK n \in Nat : Charge(Key(r), n)
      BY <1>3, SetsAssumption, Zenon DEF ReportUsage, Settle
    <2>2. Key(r) \in Keys \cup {NoKey}
      BY LocalFields, Zenon DEF TypeOK, Key
    <2> QED
      BY <2>1, <2>2, ChargeEffect, Zenon DEF TypeOK
  <1>4. ASSUME NEW r \in Requests, Arrive(r) \/ Validate(r) \/ Lookup(r) PROVE reqs' = reqs
    BY <1>4, Zenon DEF Arrive, Validate, Lookup, meters
  <1>5. ASSUME NEW r \in Requests, Admit(r) PROVE reqs' = reqs \/ CheckQuota(r)
    BY <1>5, Zenon
       DEF Admit, ReadLimit, AcquireConc, Delay, EnterQueue, TakeTurn, GiveUp, LeaveQueue, meters
  <1>6. ASSUME NEW r \in Requests, Serve(r) PROVE reqs' = reqs \/ ReportUsage(r) \/ Settle(r)
    BY <1>6, Zenon DEF Serve, Route, TakeSlot, LoseSlot, Reroute, Rebuild, Finish, ReleaseQueue,
                ReleaseConc, meters
  <1>7. ASSUME Administer PROVE reqs' = reqs
    BY <1>7, Zenon DEF Administer, SetUp, SetServes, SetSlotLimit, SetConcLimit, SetEnabled, meters
  <1> QED
    BY <1>1, <1>2, <1>3, <1>4, <1>5, <1>6, <1>7, Zenon DEF Next, Handle

(***************************************************************************)
(* The rate limiter's windows.                                             *)
(***************************************************************************)

\* No step takes a window's request count above its cap: CheckAndReserve is
\* the only one that adds, and it compares in the same critical section.
LEMMA RateWindowStep ==
    ASSUME Inv, Inv', RateWindowHolds, [Next]_vars
    PROVE  RateWindowHolds'
  <1> USE DEF Inv
  <1>1. CASE UNCHANGED vars
    BY <1>1, Zenon DEF vars, meters, RateWindowHolds
  <1>2. CASE Next
    <2> SUFFICES ASSUME NEW k \in Keys, NEW w \in {"minute", "day"}, ReqLimit[w] > 0
                 PROVE  reqs'[k][w] <= ReqLimit[w]
      BY Zenon DEF RateWindowHolds
    <2>1. /\ reqs[k][w] <= ReqLimit[w] /\ ReqLimit[w] \in Nat /\ w \in Windows
          /\ reqs[k][w] \in Nat /\ reqs'[k][w] \in Nat
      <3>1. w \in Windows
        BY Zenon DEF Windows
      <3> QED BY <3>1, LimitsAssumption, Zenon DEF RateWindowHolds, TypeOK
    <2>2. reqs'[k][w] <= reqs[k][w] \/ reqs'[k][w] <= ReqLimit[w]
      <3>1. CASE \E r \in Requests : Reserve(r)
        BY <3>1, ReserveBounds, Zenon
      <3>2. CASE \E r \in Requests : Account(r)
        BY <3>2, AccountBounds, Zenon
      <3>3. CASE \A r \in Requests : ~Reserve(r) /\ ~Account(r)
        BY <1>2, <2>1, <3>3, OthersNeverCount, Zenon
      <3> QED
        BY <3>1, <3>2, <3>3, Zenon
    <2> QED
      BY <2>1, <2>2, OrderFacts, Zenon
  <1> QED
    BY <1>1, <1>2, Zenon

\* However many goroutines call CheckAndReserve, no window of the rate
\* limiter counts more requests than its cap.
THEOREM RateWindowsHold == Spec => []RateWindowHolds
  <1>1. Init => RateWindowHolds
    <2> SUFFICES ASSUME Init, NEW k \in Keys, NEW w \in {"minute", "day"}, ReqLimit[w] > 0
                 PROVE  reqs[k][w] <= ReqLimit[w]
      BY Zenon DEF RateWindowHolds
    <2>1. reqs[k][w] = 0 /\ ReqLimit[w] \in Nat
      BY LimitsAssumption, Zenon DEF Init, Windows
    <2> QED
      BY <2>1
  <1>2. Inv /\ Inv' /\ RateWindowHolds /\ [Next]_vars => RateWindowHolds'
    BY RateWindowStep, Zenon
  <1> QED
    BY <1>1, <1>2, Invariance, PTL DEF Spec

(***************************************************************************)
(* The monthly quota.                                                      *)
(***************************************************************************)

UnaccountedSteps == {"limit", "concurrency", "delay", "queue", "waiting", "dequeue", "account"}

\* The requests between the check and the count are at most all requests.
LEMMA UnaccountedFinite ==
    ASSUME NEW k \in Keys
    PROVE  /\ IsFiniteSet(Unaccounted(k)) /\ IsFiniteSet(Unaccounted(k)')
           /\ Cardinality(Unaccounted(k)) \in Nat /\ Cardinality(Unaccounted(k)') \in Nat
           /\ Cardinality(Requests) \in Nat
           /\ Cardinality(Unaccounted(k)') <= Cardinality(Requests)
  <1>1. Unaccounted(k) \subseteq Requests /\ Unaccounted(k)' \subseteq Requests
    BY Zenon DEF Unaccounted
  <1> QED
    BY <1>1, SetsAssumption, FS_Subset, FS_CardinalityType, Zenon

\* Only a request that passes the check of k's quota joins them.
LEMMA UnaccountedMoves ==
    ASSUME NEW r \in Requests, OnlyMoves(r), NEW k \in Keys,
           \/ pc'[r] \notin UnaccountedSteps
           \/ pc[r] \in UnaccountedSteps /\ KeepsName(r)
           \/ Key(r)' # k
    PROVE  Unaccounted(k)' \subseteq Unaccounted(k)
    BY Zenon DEF Unaccounted, UnaccountedSteps, OnlyMoves, KeepsName, Key

\* A request without a key skips the checks, one with a key does not.
LEMMA LookupSkips ==
    ASSUME TypeOK, NEW r \in Requests, Lookup(r), pc'[r] \notin {"done", "reserve"}
    PROVE  Key(r) \notin Keys
  <1>1. CASE Answer(r, "done", "model_not_found")
    BY <1>1, AnswerEffect, StepFacts, CodeFacts, Zenon DEF TypeOK
  <1>2. CASE Goto(r, IF Key(r) = NoKey THEN QueueStep ELSE "reserve")
    BY <1>2, GotoEffect, StepFacts, SetsAssumption, Zenon DEF TypeOK
  <1> QED
    BY <1>1, <1>2, Zenon DEF Lookup

\* A request that the quota lets through found the month below its cap.
LEMMA CheckQuotaBounds ==
    ASSUME TypeOK, HandlerShape, NEW r \in Requests, CheckQuota(r), pc'[r] = "limit"
    PROVE  ~Reached(ReqLimit["month"], reqs'[Key(r)]["month"])
  <1>1. Key(r) \in Keys
    BY Zenon DEF CheckQuota, HandlerShape
  <1>2. \A c \in Codes : ~Answer(r, "done", c)
    BY AnswerEffect, StepFacts, Zenon DEF TypeOK
  <1>3. PICK expired \in SUBSET (Elapsing \cap {"month"}) :
          /\ reqs' = [reqs EXCEPT ![Key(r)] = Roll(reqs[Key(r)], expired)]
          /\ \/ QuotaVerdict(Roll(reqs[Key(r)], expired), Roll(toks[Key(r)], expired)) = ""
             \/ Answer(r, "done", QuotaVerdict(Roll(reqs[Key(r)], expired), Roll(toks[Key(r)], expired)))
    BY Zenon DEF CheckQuota
  <1>4. QuotaVerdict(Roll(reqs[Key(r)], expired), Roll(toks[Key(r)], expired)) = ""
    BY <1>2, <1>3, CodeFacts, Zenon
  <1>5. ~Reached(ReqLimit["month"], Roll(reqs[Key(r)], expired)["month"])
    BY <1>4, QuotaAdmits, Zenon
  <1>6. reqs'[Key(r)] = Roll(reqs[Key(r)], expired)
    BY <1>1, <1>3, Zenon DEF TypeOK
  <1> QED
    BY <1>5, <1>6, Zenon

\* No step takes the monthly count, with the requests that were checked and
\* not yet counted, further above the quota than the other handlers in flight.
LEMMA QuotaStep ==
    ASSUME Inv, Inv', QuotaOvershootBounded, [Next]_vars
    PROVE  QuotaOvershootBounded'
  <1> USE DEF Inv
  <1> DEFINE L == ReqLimit["month"]
             N == Cardinality(Requests)
  <1> SUFFICES ASSUME L > 0, NEW k \in Keys
               PROVE  reqs'[k]["month"] + Cardinality(Unaccounted(k)') <= L + N - 1
    BY Zenon DEF QuotaOvershootBounded
  <1> DEFINE month == reqs[k]["month"]
             open == Unaccounted(k)
  <1>1. /\ L \in Nat /\ N \in Nat /\ month \in Nat /\ month' \in Nat
        /\ IsFiniteSet(open) /\ IsFiniteSet(open')
        /\ Cardinality(open) \in Nat /\ Cardinality(open') \in Nat /\ Cardinality(open') <= N
        /\ month + Cardinality(open) <= L + N - 1
    BY LimitsAssumption, UnaccountedFinite, Zenon DEF QuotaOvershootBounded, TypeOK, Windows
  <1>2. ASSUME month' <= month, open' \subseteq open
        PROVE  month' + Cardinality(open') <= L + N - 1
    <2>1. Cardinality(open') <= Cardinality(open)
      BY <1>1, <1>2, FS_Subset, Zenon
    <2> HIDE DEF L, N, month, open
    <2> QED
      BY <1>1, <1>2, <2>1
  <1>3. ASSUME UNCHANGED vars PROVE month' + Cardinality(open') <= L + N - 1
    <2>1. month' = month /\ open' = open
      BY <1>3, Zenon DEF vars, meters, Unaccounted, Key
    <2> QED
      BY <1>1, <2>1, Zenon
  <1>4. ASSUME NEW r \in Requests, Reserve(r) PROVE month' + Cardinality(open') <= L + N - 1
    <2>1. month' = month
      BY <1>4, ReserveBounds, Zenon
    <2>2. open' \subseteq open
      BY <1>4, AdmissionTable, UnaccountedMoves, Zenon DEF Moves, UnaccountedSteps
    <2>3. month' <= month
      BY <1>1, <2>1, OrderFacts, Zenon
    <2> QED
      BY <1>2, <2>2, <2>3, Zenon
  <1>5. ASSUME NEW r \in Requests, CheckQuota(r) PROVE month' + Cardinality(open') <= L + N - 1
    <2>1. Moves(r, {"quota"}, {"done", "limit"})
      BY <1>5, AdmissionTable, Zenon
    <2>2. \A q \in Requests : ~Reserve(q) /\ ~Account(q)
      BY <1>5, <2>1, AdmissionTable, QueueTable, Zenon DEF Moves, OnlyMoves
    <2>3. month' <= month
      BY <1>5, <2>2, OthersNeverCount, Zenon DEF Next, Handle, Admit, Windows
    <2>4. CASE pc'[r] = "done" \/ Key(r) # k
      <3>1. open' \subseteq open
        BY <2>1, <2>4, UnaccountedMoves, Zenon DEF Moves, UnaccountedSteps, KeepsName
      <3> QED
        BY <1>2, <2>3, <3>1, Zenon
    <2>5. CASE pc'[r] = "limit" /\ Key(r) = k
      <3>1. month' < L
        BY <1>1, <1>5, <2>5, CheckQuotaBounds DEF Reached
      <3> HIDE DEF L, N, month, open
      <3> QED
        BY <1>1, <3>1
    <2> QED
      BY <2>1, <2>4, <2>5, Zenon DEF Moves
  <1>6. ASSUME NEW r \in Requests, Account(r) PROVE month' + Cardinality(open') <= L + N - 1
    <2>1. month' <= month + (IF k = Key(r) THEN 1 ELSE 0)
      BY <1>6, AccountBounds, Zenon
    <2>2. Moves(r, {"account"}, {"route"})
      BY <1>6, QueueTable, Zenon
    <2>3. open' \subseteq open
      BY <2>2, UnaccountedMoves, Zenon DEF Moves, UnaccountedSteps
    <2>4. CASE k # Key(r)
      <3>1. month' <= month
        BY <1>1, <2>1, <2>4, OrderFacts, Zenon
      <3> QED
        BY <1>2, <2>3, <3>1, Zenon
    <2>5. CASE k = Key(r)
      <3>1. r \in open /\ r \notin open'
        BY <2>2, <2>5, Zenon DEF Moves, Unaccounted
      <3>2. open' \subseteq open \ {r}
        BY <2>3, <3>1, Zenon
      <3>3. IsFiniteSet(open \ {r}) /\ Cardinality(open \ {r}) = Cardinality(open) - 1
        BY <1>1, <3>1, FS_RemoveElement, Zenon
      <3>4. Cardinality(open') <= Cardinality(open) - 1
        BY <3>2, <3>3, FS_Subset
      <3>5. month' <= month + 1
        BY <2>1, <2>5, Zenon
      <3> HIDE DEF L, N, month, open
      <3> QED
        BY <1>1, <3>4, <3>5
    <2> QED
      BY <2>4, <2>5, Zenon
  <1>7. ASSUME Next, \A r \in Requests : ~Reserve(r) /\ ~Account(r) /\ ~CheckQuota(r)
        PROVE  month' + Cardinality(open') <= L + N - 1
    <2>1. month' <= month
      BY <1>7, OthersNeverCount, Zenon DEF Windows
    <2>2. open' \subseteq open
      <3> USE DEF UnaccountedSteps, QueueStep, ReleaseStep
      <3>1. ASSUME NEW r \in Requests, Arrive(r) PROVE open' \subseteq open
        <4>1. OnlyMoves(r) /\ pc'[r] = "idle"
          BY <3>1, GotoEffect, IncomingEffect, StepFacts, Zenon DEF TypeOK, Arrive, OnlyMoves
        <4> QED
          BY <4>1, UnaccountedMoves, Zenon
      <3>2. ASSUME NEW r \in Requests, Validate(r) \/ ReadLimit(r) \/ AcquireConc(r) \/ Delay(r)
            PROVE  open' \subseteq open
        BY <3>2, AdmissionTable, UnaccountedMoves, Zenon DEF Moves
      <3>3. ASSUME NEW r \in Requests, Lookup(r) PROVE open' \subseteq open
        BY <3>3, AdmissionTable, LookupSkips, UnaccountedMoves, Zenon DEF Moves, KeepsName
      <3>4. ASSUME NEW r \in Requests, EnterQueue(r) \/ TakeTurn(r) \/ GiveUp(r) \/ LeaveQueue(r)
            PROVE  open' \subseteq open
        BY <3>4, QueueTable, UnaccountedMoves, Zenon DEF Moves
      <3>5. ASSUME NEW r \in Requests, Serve(r) PROVE open' \subseteq open
        BY <3>5, ServeTable, UnaccountedMoves, Zenon DEF Serve, Moves
      <3>6. ASSUME Administer PROVE open' \subseteq open
        <4>1. pc' = pc /\ rq' = rq
          BY <3>6, Zenon DEF Administer, SetUp, SetServes, SetSlotLimit, SetConcLimit, SetEnabled
        <4> QED
          BY <4>1, Zenon DEF Unaccounted, Key
      <3> QED
        BY <1>7, <3>1, <3>2, <3>3, <3>4, <3>5, <3>6, Zenon DEF Next, Handle, Admit
    <2> QED
      BY <1>2, <2>1, <2>2, Zenon
  <1> HIDE DEF L, N, month, open
  <1>8. month' + Cardinality(open') <= L + N - 1
    BY <1>3, <1>4, <1>5, <1>6, <1>7, Zenon
  <1> QED
    BY <1>8, Zenon DEF L, N, month, open

\* The monthly request quota, checked in step 2 of admit and counted in step
\* 6, is exceeded at most by the requests that were in between: N requests in
\* the gateway overshoot it by at most N - 1.
THEOREM QuotaOvershoot == Spec => []QuotaOvershootBounded
  <1>1. Init => QuotaOvershootBounded
    <2> SUFFICES ASSUME Init, ReqLimit["month"] > 0, NEW k \in Keys
                 PROVE  reqs[k]["month"] + Cardinality(Unaccounted(k))
                            <= ReqLimit["month"] + Cardinality(Requests) - 1
      BY Zenon DEF QuotaOvershootBounded
    <2>1. Unaccounted(k) = {}
      BY Zenon DEF Init, Unaccounted
    <2>2. reqs[k]["month"] = 0 /\ ReqLimit["month"] \in Nat
      BY LimitsAssumption, Zenon DEF Init, Windows
    <2>3. Cardinality(Unaccounted(k)) = 0
      BY <2>1, FS_EmptySet, Zenon
    <2>4. Cardinality(Requests) \in Nat
      BY SetsAssumption, FS_CardinalityType, Zenon
    <2> QED
      BY <2>2, <2>3, <2>4
  <1>2. Inv /\ Inv' /\ QuotaOvershootBounded /\ [Next]_vars => QuotaOvershootBounded'
    BY QuotaStep, Zenon
  <1> QED
    BY <1>1, <1>2, Invariance, PTL DEF Spec

(***************************************************************************)
(* The token counters.                                                     *)
(***************************************************************************)

SettledSteps == {"settle", "relqueue", "relconc", "done"}

\* Only a handler whose upstream call has returned knows of a success.
OkAfterCall == \A r \in Requests : rq[r].code = "ok" => pc[r] \in SettledSteps

\* r keeps what it knows of its usage, and learns of a success only when its
\* call returns.
SameUsage(r) ==
    /\ rq'[r].kind = rq[r].kind
    /\ rq'[r].usage = rq[r].usage
    /\ \/ rq'[r].code = rq[r].code
       \/ rq'[r].code # "ok"
       \/ pc'[r] = "settle"

\* The other locals that Answer sets and leaves.
LEMMA AnswerLocals ==
    ASSUME rq \in [Requests -> LocalType], NEW r \in Requests, NEW step, NEW c,
           Answer(r, step, c)
    PROVE  /\ rq'[r].kind = rq[r].kind
           /\ rq'[r].usage = rq[r].usage
           /\ rq'[r].code = c
    BY DEF Answer, LocalType

\* Setting the candidates, the choice or the limit of r leaves its
\* usage alone.
LEMMA OtherLocals ==
    ASSUME rq \in [Requests -> LocalType], NEW r \in Requests, NEW v,
           \/ rq' = rq
           \/ rq' = [rq EXCEPT ![r].cand = v]
           \/ rq' = [rq EXCEPT ![r].pick = v]
           \/ rq' = [rq EXCEPT ![r].limit = v]
    PROVE  /\ rq'[r].kind = rq[r].kind
           /\ rq'[r].usage = rq[r].usage
           /\ rq'[r].code = rq[r].code
  <1>1. CASE rq' = rq
    BY <1>1
  <1>2. CASE rq' = [rq EXCEPT ![r].cand = v]
    BY <1>2 DEF LocalType
  <1>3. CASE rq' = [rq EXCEPT ![r].pick = v]
    BY <1>3 DEF LocalType
  <1>4. CASE rq' = [rq EXCEPT ![r].limit = v]
    BY <1>4 DEF LocalType
  <1> QED
    BY <1>1, <1>2, <1>3, <1>4, Zenon

\* A rejection is no success.
LEMMA RefusalFacts ==
    /\ \A c \in EarlyErrors \cup QuotaCodes \cup
         {"model_not_found", "concurrent_limit", "client_canceled",
          "queue_full", "queue_timeout", "no_healthy_backend",
          "backend_at_capacity", "invalid_request"} : c # "ok"
    /\ \A rs, ts : LimiterVerdict(rs, ts) # "ok" /\ QuotaVerdict(rs, ts) # "ok"
    BY Zenon DEF EarlyErrors, QuotaCodes, LimiterVerdict, QuotaVerdict

\* Every step of a handler but the report of its usage keeps its usage.
LEMMA UsageTable ==
    ASSUME TypeOK, NEW r \in Requests,
           Validate(r) \/ Handle(r), ~ReportUsage(r)
    PROVE  SameUsage(r)
  <1> USE DEF TypeOK
  <1>1. ASSUME NEW step, NEW c, c # "ok", Answer(r, step, c) PROVE SameUsage(r)
    BY <1>1, AnswerLocals, Zenon DEF SameUsage
  <1>2. ASSUME NEW v, \/ rq' = rq
                      \/ rq' = [rq EXCEPT ![r].cand = v]
                      \/ rq' = [rq EXCEPT ![r].pick = v]
                      \/ rq' = [rq EXCEPT ![r].limit = v]
        PROVE  SameUsage(r)
    BY <1>2, OtherLocals, Zenon DEF SameUsage
  <1>3. CASE Validate(r)
    BY <1>1, <1>2, <1>3, RefusalFacts, Zenon DEF Validate
  <1>4. CASE Lookup(r)
    BY <1>1, <1>2, <1>4, RefusalFacts, Zenon DEF Lookup
  <1>5. CASE Reserve(r)
    <2>1. rq' = rq \/ \E c : c # "ok" /\ Answer(r, "done", c)
      BY <1>5, RefusalFacts, Zenon DEF Reserve
    <2> QED
      BY <2>1, <1>1, <1>2, Zenon
  <1>6. CASE CheckQuota(r)
    <2>1. rq' = rq \/ \E c : c # "ok" /\ Answer(r, "done", c)
      BY <1>6, RefusalFacts, Zenon DEF CheckQuota
    <2> QED
      BY <2>1, <1>1, <1>2, Zenon
  <1>7. CASE AcquireConc(r)
    BY <1>1, <1>2, <1>7, RefusalFacts, Zenon DEF AcquireConc
  <1>17. CASE ReadLimit(r)
    BY <1>2, <1>17, Zenon DEF ReadLimit
  <1>8. CASE Delay(r)
    BY <1>1, <1>2, <1>8, RefusalFacts, Zenon DEF Delay
  <1>9. CASE EnterQueue(r)
    BY <1>1, <1>2, <1>9, RefusalFacts, Zenon DEF EnterQueue
  <1>10. CASE TakeTurn(r) \/ LeaveQueue(r) \/ Account(r) \/ TakeSlot(r) \/ Settle(r)
              \/ ReleaseQueue(r) \/ ReleaseConc(r)
    <2>1. rq' = rq
      BY <1>10, Zenon DEF TakeTurn, LeaveQueue, Account, TakeSlot, Settle, ReleaseQueue, ReleaseConc
    <2> QED
      BY <2>1, <1>2, Zenon
  <1>11. CASE GiveUp(r)
    BY <1>1, <1>11, RefusalFacts, Zenon DEF GiveUp
  <1>12. CASE Route(r)
    BY <1>1, <1>2, <1>12, RefusalFacts, Zenon DEF Route
  <1>13. CASE LoseSlot(r)
    BY <1>1, <1>2, <1>13, RefusalFacts, Zenon DEF LoseSlot
  <1>14. CASE Reroute(r)
    BY <1>1, <1>2, <1>14, RefusalFacts, Zenon DEF Reroute
  <1>15. CASE Rebuild(r)
    BY <1>1, <1>2, <1>15, RefusalFacts, Zenon DEF Rebuild
  <1>16. CASE Finish(r)
    <2>1. PICK c : Answer(r, "settle", c)
      BY <1>16, Zenon DEF Finish
    <2>2. pc'[r] = "settle"
      BY <2>1, Zenon DEF Answer, Goto
    <2> QED
      BY <2>1, <2>2, AnswerLocals, Zenon DEF SameUsage
  <1> QED
    BY <1>3, <1>4, <1>5, <1>6, <1>7, <1>8, <1>9, <1>10, <1>11, <1>12, <1>13, <1>14, <1>15, <1>16,
       <1>17, Zenon DEF Handle, Admit, Serve

\* Where a handler goes in a step that charges nothing: before the outcome of
\* the call is settled, or along the releases.
LEMMA UnchargedMoves ==
    ASSUME TypeOK, HandlerShape, NEW r \in Requests,
           Validate(r) \/ Handle(r), ~ReportUsage(r), ~Settle(r)
    PROVE  /\ OnlyMoves(r) /\ KeepsName(r)
           /\ \/ pc[r] \notin SettledSteps
              \/ /\ rq' = rq
                 /\ pc[r] \in {"relqueue", "relconc"}
                 /\ pc'[r] \in {"relconc", "done"}
  <1>1. OnlyMoves(r) /\ KeepsName(r)
    BY AdmissionTable, QueueTable, ServeTable, ZenonT(30) DEF Moves, Handle, Admit, Serve
  <1>2. CASE ReleaseQueue(r) \/ ReleaseConc(r)
    <2>1. rq' = rq
      BY <1>2, Zenon DEF ReleaseQueue, ReleaseConc
    <2> QED
      BY <1>1, <1>2, <2>1, ServeTable, Zenon DEF Moves
  <1>3. CASE ~ReleaseQueue(r) /\ ~ReleaseConc(r)
    <2>1. pc[r] \in {"idle", "lookup", "reserve", "quota", "limit", "concurrency", "delay",
                     "queue", "waiting", "dequeue", "refused", "account", "route", "acquire", "reroute",
                     "reacquire", "rebuild", "forward"}
      BY <1>3, Zenon DEF Handle, Admit, Serve, Validate, Lookup, Reserve, CheckQuota, ReadLimit,
         AcquireConc, Delay, EnterQueue, TakeTurn, GiveUp, LeaveQueue, Account, Route, TakeSlot, LoseSlot,
         Reroute, Rebuild, Finish
    <2>2. pc[r] \notin SettledSteps
      BY <2>1, Zenon DEF SettledSteps
    <2> QED
      BY <1>1, <2>2, Zenon
  <1> QED
    BY <1>2, <1>3, Zenon

\* Such a step charges nothing, and learns of a success only from the call.
LEMMA UnchargedStep ==
    ASSUME TypeOK, HandlerShape, OkAfterCall, NEW r \in Requests,
           Validate(r) \/ Handle(r), ~ReportUsage(r), ~Settle(r)
    PROVE  /\ Charged(r)' = Charged(r)
           /\ rq'[r].code = "ok" => pc'[r] \in SettledSteps
  <1>1. SameUsage(r)
    BY UsageTable, Zenon
  <1>2. CASE pc[r] \notin SettledSteps
    <2>1. rq[r].code # "ok"
      BY <1>2, Zenon DEF OkAfterCall
    <2>2. rq'[r].code # "ok" \/ pc'[r] = "settle"
      BY <1>1, <2>1, Zenon DEF SameUsage
    <2>3. ~(rq'[r].code = "ok" /\ pc'[r] \in {"relqueue", "relconc", "done"})
      BY <2>2, Zenon
    <2> QED
      BY <1>1, <2>1, <2>2, <2>3, Zenon DEF Charged, SameUsage, SettledSteps
  <1>3. CASE /\ rq' = rq
             /\ pc[r] \in {"relqueue", "relconc"}
             /\ pc'[r] \in {"relconc", "done"}
    <2>1. /\ pc[r] \in {"relqueue", "relconc", "done"}
          /\ pc'[r] \in {"relqueue", "relconc", "done"}
      BY <1>3, Zenon
    <2> QED
      BY <1>3, <2>1, Zenon DEF Charged, SettledSteps
  <1> QED
    BY <1>2, <1>3, UnchargedMoves, Zenon

\* The token counters, when nothing is charged: a counter restarts with its
\* window or stays.
TokensStay ==
    \A k \in Keys, w \in Windows :
        IF w \in Elapsing THEN toks'[k][w] <= toks[k][w] ELSE toks'[k][w] = toks[k][w]

\* Counters that do not change.
LEMMA SameTokens ==
    ASSUME TypeOK, toks' = toks
    PROVE  TokensStay
  <1>1. \A k \in Keys, w \in Windows : toks[k][w] \in Nat
    BY Zenon DEF TypeOK
  <1>2. \A a \in Nat : a <= a
    OBVIOUS
  <1> QED
    BY <1>1, <1>2, Zenon DEF TokensStay

\* Rolling the buckets of a key restarts windows that expire.
LEMMA RolledTokens ==
    ASSUME TypeOK, NEW j \in Keys, NEW expired \in SUBSET Elapsing,
           toks' = [toks EXCEPT ![j] = Roll(toks[j], expired)]
    PROVE  TokensStay
  <1> SUFFICES ASSUME NEW k \in Keys, NEW w \in Windows
               PROVE  IF w \in Elapsing THEN toks'[k][w] <= toks[k][w]
                      ELSE toks'[k][w] = toks[k][w]
    BY Zenon DEF TokensStay
  <1>1. toks[k][w] \in Nat /\ toks[j] \in [Windows -> Nat] /\ toks \in [Keys -> [Windows -> Nat]]
    BY Zenon DEF TypeOK
  <1>2. CASE k # j
    <2>1. toks'[k] = toks[k]
      BY <1>1, <1>2, Zenon
    <2> QED
      BY <1>1, <2>1, OrderFacts, Zenon
  <1>3. CASE k = j
    <2>1. toks'[k] = Roll(toks[k], expired)
      BY <1>1, <1>3, Zenon
    <2>2. toks'[k][w] <= toks[k][w]
      BY <1>1, <1>3, <2>1, RollType, Zenon
    <2>3. w \notin Elapsing => toks'[k][w] = toks[k][w]
      BY <2>1, Zenon DEF Roll
    <2> QED
      BY <2>2, <2>3, Zenon
  <1> QED
    BY <1>2, <1>3, Zenon

\* Only a report of usage and the settling of a call add tokens.
LEMMA OthersChargeNothing ==
    ASSUME TypeOK, HandlerShape, Next,
           \A r \in Requests : ~ReportUsage(r) /\ ~Settle(r)
    PROVE  TokensStay
  <1>1. ASSUME toks' = toks PROVE TokensStay
    BY <1>1, SameTokens, Zenon
  <1>2. ASSUME NEW r \in Requests, Reserve(r) \/ CheckQuota(r) PROVE TokensStay
    <2>1. Key(r) \in Keys
      BY <1>2, Zenon DEF Reserve, CheckQuota, HandlerShape
    <2>2. PICK expired \in SUBSET Elapsing :
            toks' = [toks EXCEPT ![Key(r)] = Roll(toks[Key(r)], expired)]
      BY <1>2, Zenon DEF Reserve, CheckQuota
    <2> QED
      BY <2>1, <2>2, RolledTokens, Zenon
  <1>3. ASSUME NEW r \in Requests, Account(r) PROVE TokensStay
    <2>1. CASE Key(r) = NoKey
      <3>1. toks' = toks
        BY <1>3, <2>1, Zenon DEF Account
      <3> QED BY <1>1, <3>1, Zenon
    <2>2. CASE Key(r) # NoKey
      <3>1. Key(r) \in Keys
        BY <2>2, LocalFields, Zenon DEF TypeOK, Key
      <3>2. PICK expired \in SUBSET Elapsing :
              toks' = [toks EXCEPT ![Key(r)] = Roll(toks[Key(r)], expired)]
        BY <1>3, <2>2, Zenon DEF Account
      <3> QED
        BY <3>1, <3>2, RolledTokens, Zenon
    <2> QED BY <2>1, <2>2, Zenon
  <1>4. ASSUME NEW r \in Requests, Arrive(r) \/ Validate(r) \/ Lookup(r) PROVE toks' = toks
    BY <1>4, Zenon DEF Arrive, Validate, Lookup, meters
  <1>5. ASSUME NEW r \in Requests, Admit(r)
        PROVE  toks' = toks \/ Reserve(r) \/ CheckQuota(r) \/ Account(r)
    BY <1>5, Zenon
       DEF Admit, ReadLimit, AcquireConc, Delay, EnterQueue, TakeTurn, GiveUp, LeaveQueue, meters
  <1>6. ASSUME NEW r \in Requests, Serve(r) PROVE toks' = toks
    BY <1>6, Zenon DEF Serve, Route, TakeSlot, LoseSlot, Reroute, Rebuild, Finish, ReleaseQueue,
                ReleaseConc, meters
  <1>7. ASSUME Administer PROVE toks' = toks
    BY <1>7, Zenon DEF Administer, SetUp, SetServes, SetSlotLimit, SetConcLimit, SetEnabled, meters
  <1> QED
    BY <1>1, <1>2, <1>3, <1>4, <1>5, <1>6, <1>7, Zenon DEF Next, Handle

\* What Charge does to the token counters.
LEMMA ChargeAdds ==
    ASSUME TypeOK, NEW j \in Keys \cup {NoKey}, NEW n \in Nat, Charge(j, n),
           NEW k \in Keys, NEW w \in Windows
    PROVE  LET m == IF k = j THEN n ELSE 0
           IN  IF w \in Elapsing THEN toks'[k][w] <= toks[k][w] + m
               ELSE toks'[k][w] = toks[k][w] + m
  <1>1. toks[k][w] \in Nat /\ toks \in [Keys -> [Windows -> Nat]]
    BY Zenon DEF TypeOK
  <1>2. j = k => j # NoKey
    BY SetsAssumption, Zenon
  <1>3. CASE k # j
    <2>1. toks'[k] = toks[k]
      BY <1>1, <1>3, Zenon DEF Charge
    <2> QED
      BY <1>1, <1>3, <2>1, OrderFacts, Zenon
  <1>4. CASE k = j /\ n = 0
    <2>1. toks'[k] = toks[k]
      <3>1. ~(n > 0)
        BY <1>4
      <3> QED BY <1>4, <3>1, Zenon DEF Charge
    <2> QED
      BY <1>1, <1>4, <2>1, OrderFacts, Zenon
  <1>5. CASE k = j /\ n # 0
    <2>1. PICK expired \in SUBSET Elapsing :
            toks' = [toks EXCEPT ![k] = [x \in Windows |-> Roll(toks[k], expired)[x] + n]]
      BY <1>2, <1>5, Zenon DEF Charge
    <2>2. toks'[k][w] = Roll(toks[k], expired)[w] + n
      BY <1>1, <2>1, Zenon
    <2>3. Roll(toks[k], expired)[w] = IF w \in expired THEN 0 ELSE toks[k][w]
      BY Zenon DEF Roll
    <2>4. w \notin Elapsing => toks'[k][w] = toks[k][w] + n
      BY <2>2, <2>3, Zenon
    <2>5. toks'[k][w] <= toks[k][w] + n
      <3>1. \A a \in Nat : 0 + n <= a + n /\ a + n <= a + n
        OBVIOUS
      <3> QED
        BY <1>1, <2>2, <2>3, <3>1, Zenon
    <2> QED
      BY <1>5, <2>4, <2>5, Zenon
  <1> QED
    BY <1>3, <1>4, <1>5, Zenon

\* A token of k is a token of one of its requests.
LEMMA TokenOf ==
    ASSUME NEW k \in Keys, NEW t
    PROVE  /\ t \in ChargedTokens(k) <=>
                \E q \in Requests : Key(q) = k /\ t \in {q} \X (1 .. Charged(q))
           /\ t \in ChargedTokens(k)' <=>
                \E q \in Requests : Key(q)' = k /\ t \in {q} \X (1 .. Charged(q)')
    BY Zenon DEF ChargedTokens

\* Charging n tokens to r, which was charged nothing before, adds n tokens to
\* those of its key.
LEMMA TokensGrow ==
    ASSUME TypeOK, NEW r \in Requests, OnlyMoves(r), KeepsName(r),
           NEW n \in Nat, Charged(r) = 0, Charged(r)' = n,
           NEW k \in Keys, IsFiniteSet(ChargedTokens(k))
    PROVE  /\ IsFiniteSet(ChargedTokens(k)')
           /\ Cardinality(ChargedTokens(k)') =
                Cardinality(ChargedTokens(k)) + (IF k = Key(r) THEN n ELSE 0)
  <1> DEFINE A == ChargedTokens(k)
             B == ChargedTokens(k)'
             C == {r} \X (1 .. n)
  <1>1. \A q \in Requests \ {r} : Key(q)' = Key(q) /\ Charged(q)' = Charged(q)
    BY Zenon DEF OnlyMoves, Key, Charged
  <1>2. Key(r)' = Key(r)
    BY Zenon DEF KeepsName
  <1>3. 1 .. 0 = {}
    OBVIOUS
  <1>4. Cardinality(A) \in Nat
    BY FS_CardinalityType, Zenon
  <1>5. CASE k # Key(r)
    <2>1. \A q \in Requests : Key(q)' = k \/ Key(q) = k => q \in Requests \ {r}
      BY <1>2, <1>5, Zenon
    <2>2. \A t : t \in B <=> t \in A
      <3>1. ASSUME NEW t, t \in B PROVE t \in A
        <4>1. PICK q \in Requests : Key(q)' = k /\ t \in {q} \X (1 .. Charged(q)')
          BY <3>1, TokenOf, Zenon
        <4>2. Key(q) = k /\ {q} \X (1 .. Charged(q)') = {q} \X (1 .. Charged(q))
          BY <1>1, <2>1, <4>1, Zenon
        <4> QED
          BY <4>1, <4>2, TokenOf, Zenon
      <3>2. ASSUME NEW t, t \in A PROVE t \in B
        <4>1. PICK q \in Requests : Key(q) = k /\ t \in {q} \X (1 .. Charged(q))
          BY <3>2, TokenOf, Zenon
        <4>2. Key(q)' = k /\ {q} \X (1 .. Charged(q)') = {q} \X (1 .. Charged(q))
          BY <1>1, <2>1, <4>1, Zenon
        <4> QED
          BY <4>1, <4>2, TokenOf, Zenon
      <3> QED
        BY <3>1, <3>2, Zenon
    <2>3. B = A
      BY <2>2, Zenon
    <2> QED
      BY <1>4, <1>5, <2>3, OrderFacts, Zenon
  <1>6. CASE k = Key(r)
    <2>1. \A t : t \in B <=> t \in A \/ t \in C
      <3>1. ASSUME NEW t, t \in B PROVE t \in A \/ t \in C
        <4>1. PICK q \in Requests : Key(q)' = k /\ t \in {q} \X (1 .. Charged(q)')
          BY <3>1, TokenOf, Zenon
        <4>2. CASE q = r
          BY <4>1, <4>2, Zenon
        <4>3. CASE q # r
          <5>1. Key(q) = k /\ {q} \X (1 .. Charged(q)') = {q} \X (1 .. Charged(q))
            BY <1>1, <4>1, <4>3, Zenon
          <5> QED
            BY <4>1, <5>1, TokenOf, Zenon
        <4> QED
          BY <4>2, <4>3, Zenon
      <3>2. ASSUME NEW t, t \in C PROVE t \in B
        BY <1>2, <1>6, <3>2, TokenOf, Zenon
      <3>3. ASSUME NEW t, t \in A PROVE t \in B
        <4>1. PICK q \in Requests : Key(q) = k /\ t \in {q} \X (1 .. Charged(q))
          BY <3>3, TokenOf, Zenon
        <4>2. q # r
          <5>1. 1 .. Charged(r) = {}
            BY <1>3, Zenon
          <5> QED
            BY <4>1, <5>1, Zenon
        <4>3. Key(q)' = k /\ {q} \X (1 .. Charged(q)') = {q} \X (1 .. Charged(q))
          BY <1>1, <4>1, <4>2, Zenon
        <4> QED
          BY <4>1, <4>3, TokenOf, Zenon
      <3> QED
        BY <3>1, <3>2, <3>3, Zenon
    <2>2. A \cap C = {}
      <3>1. ASSUME NEW t, t \in A, t \in C PROVE FALSE
        <4>1. PICK q \in Requests : t \in {q} \X (1 .. Charged(q))
          BY <3>1, TokenOf, Zenon
        <4>2. q = r
          BY <3>1, <4>1, Zenon
        <4>3. 1 .. Charged(r) = {}
          BY <1>3, Zenon
        <4> QED
          BY <4>1, <4>2, <4>3, Zenon
      <3> QED
        BY <3>1, Zenon
    <2>3. B = A \cup C
      BY <2>1, Zenon
    <2>4. IsFiniteSet(C) /\ Cardinality(C) = n
      <3>1. IsFiniteSet(1 .. n) /\ Cardinality(1 .. n) = n
        <4>1. /\ IsFiniteSet(1 .. n)
              /\ Cardinality(1 .. n) = IF 1 > n THEN 0 ELSE n - 1 + 1
          BY FS_Interval, 1 \in Int, n \in Int, Zenon
        <4>2. (IF 1 > n THEN 0 ELSE n - 1 + 1) = n
          OBVIOUS
        <4> QED
          BY <4>1, <4>2, Zenon
      <3>2. IsFiniteSet({r}) /\ Cardinality({r}) = 1
        BY FS_Singleton, Zenon
      <3>3. IsFiniteSet(C) /\ Cardinality(C) = Cardinality({r}) * Cardinality(1 .. n)
        BY <3>1, <3>2, FS_Product, Zenon
      <3>4. 1 * n = n
        OBVIOUS
      <3> QED
        BY <3>1, <3>2, <3>3, <3>4, Zenon
    <2>5. Cardinality(A \cap C) = 0
      BY <2>2, FS_EmptySet, Zenon
    <2>6. /\ IsFiniteSet(A \cup C)
          /\ Cardinality(A \cup C) = Cardinality(A) + Cardinality(C) - Cardinality(A \cap C)
      BY <2>4, FS_Union, Zenon
    <2>7. \A a \in Nat : a + n - 0 = a + n
      OBVIOUS
    <2> QED
      BY <1>4, <1>6, <2>3, <2>4, <2>5, <2>6, <2>7, Zenon
  <1> QED
    BY <1>5, <1>6, Zenon

\* Nobody is charged.
LEMMA TokensSame ==
    ASSUME \A q \in Requests : Key(q)' = Key(q) /\ Charged(q)' = Charged(q), NEW k \in Keys
    PROVE  ChargedTokens(k)' = ChargedTokens(k)
  <1>1. ASSUME NEW t, t \in ChargedTokens(k)' PROVE t \in ChargedTokens(k)
    <2>1. PICK q \in Requests : Key(q)' = k /\ t \in {q} \X (1 .. Charged(q)')
      BY <1>1, TokenOf, Zenon
    <2>2. Key(q) = k /\ {q} \X (1 .. Charged(q)') = {q} \X (1 .. Charged(q))
      BY <2>1, Zenon
    <2> QED
      BY <2>1, <2>2, TokenOf, Zenon
  <1>2. ASSUME NEW t, t \in ChargedTokens(k) PROVE t \in ChargedTokens(k)'
    <2>1. PICK q \in Requests : Key(q) = k /\ t \in {q} \X (1 .. Charged(q))
      BY <1>2, TokenOf, Zenon
    <2>2. Key(q)' = k /\ {q} \X (1 .. Charged(q)') = {q} \X (1 .. Charged(q))
      BY <2>1, Zenon
    <2> QED
      BY <2>1, <2>2, TokenOf, Zenon
  <1> QED
    BY <1>1, <1>2, Zenon

\* The charges are finite, and the counters are their sums.
TokenInv ==
    /\ OkAfterCall
    /\ arrivals = 0 => \A k \in Keys : IsFiniteSet(ChargedTokens(k))
    /\ TokenAccounting

\* A report of usage or the settling of a call charges r once, and the
\* counters of its key by as much.
LEMMA ChargingStep ==
    ASSUME Inv, OkAfterCall, NEW r \in Requests, ReportUsage(r) \/ Settle(r)
    PROVE  /\ OnlyMoves(r) /\ KeepsName(r) /\ OkAfterCall' /\ arrivals' = arrivals
           /\ \/ Charged(r)' = Charged(r) /\ toks' = toks
              \/ Charged(r) = 0 /\ Charged(r)' \in Nat /\ Charge(Key(r), Charged(r)')
  <1> USE DEF Inv
  <1>1. OnlyMoves(r) /\ KeepsName(r) /\ arrivals' = arrivals
    BY ServeTable, Zenon DEF Moves, ReportUsage, Settle
  <1>2. CASE ReportUsage(r)
    <2>1. PICK u \in Usages : rq' = [rq EXCEPT ![r].usage = u] /\ Charge(Key(r), u)
      BY <1>2, Zenon DEF ReportUsage
    <2>2. /\ rq'[r].usage = u /\ rq'[r].code = rq[r].code
      BY <2>1 DEF TypeOK, LocalType
    <2>3. u \in Nat /\ u # NoUsage
      <3>1. u \in Nat
        BY SetsAssumption, Zenon
      <3> QED BY <3>1 DEF NoUsage
    <2>4. pc' = pc /\ pc[r] = "forward" /\ rq[r].usage = NoUsage
      BY <1>2, Zenon DEF ReportUsage
    <2>5. Charged(r) = 0
      BY <2>4, Zenon DEF Charged
    <2>6. Charged(r)' = u
      BY <2>2, <2>3, Zenon DEF Charged
    <2>7. OkAfterCall'
      BY <1>1, <2>2, <2>4, Zenon DEF OnlyMoves, OkAfterCall
    <2> QED
      BY <1>1, <2>1, <2>3, <2>5, <2>6, <2>7, Zenon
  <1>3. CASE Settle(r)
    <2> DEFINE estimated == rq[r].kind # "multipart" /\ rq[r].code = "ok" /\ rq[r].usage = NoUsage
    <2>1. /\ pc[r] = "settle" /\ rq' = rq /\ Goto(r, ReleaseStep)
          /\ Charge(Key(r), IF estimated THEN Estimate ELSE 0)
      BY <1>3, Zenon DEF Settle
    <2>2. pc'[r] \in {"relqueue", "relconc", "done"} /\ pc'[r] \in SettledSteps
      BY <2>1, GotoEffect, StepFacts, Zenon DEF TypeOK, ReleaseStep, SettledSteps
    <2>3. OkAfterCall'
      BY <1>1, <2>1, <2>2, Zenon DEF OnlyMoves, OkAfterCall
    <2>4. CASE estimated
      <3>1. Charged(r) = 0
        BY <2>1, <2>4, Zenon DEF Charged
      <3>2. Charged(r)' = Estimate
        BY <2>1, <2>2, <2>4, Zenon DEF Charged
      <3> QED
        BY <1>1, <2>1, <2>3, <2>4, <3>1, <3>2, SetsAssumption, Zenon
    <2>5. CASE ~estimated
      <3>1. Charged(r)' = Charged(r)
        BY <2>1, <2>2, <2>5, Zenon DEF Charged
      <3>2. toks' = toks
        <4>1. ~(0 > 0)
          OBVIOUS
        <4> QED BY <2>1, <2>5, <4>1, Zenon DEF Charge
      <3> QED
        BY <1>1, <2>3, <3>1, <3>2, Zenon
    <2> QED
      BY <2>4, <2>5, Zenon
  <1> QED
    BY <1>2, <1>3, Zenon

\* Steps that charge nobody keep the accounting: a counter restarts with its
\* window or stays.
LEMMA AccountingKept ==
    ASSUME TypeOK, TypeOK', TokenInv, arrivals' = 0 => arrivals = 0, TokensStay, OkAfterCall',
           \A q \in Requests : Key(q)' = Key(q) /\ Charged(q)' = Charged(q)
    PROVE  TokenInv'
  <1>1. \A k \in Keys : ChargedTokens(k)' = ChargedTokens(k)
    BY TokensSame, Zenon
  <1>2. arrivals' = 0 => \A k \in Keys : IsFiniteSet(ChargedTokens(k)')
    BY <1>1, Zenon DEF TokenInv
  <1>3. ASSUME arrivals' = 0, NEW k \in Keys, NEW w \in Windows
        PROVE  IF w \in Elapsing THEN toks'[k][w] <= Cardinality(ChargedTokens(k)')
               ELSE toks'[k][w] = Cardinality(ChargedTokens(k)')
    <2>1. IsFiniteSet(ChargedTokens(k))
      BY <1>3, Zenon DEF TokenInv
    <2>2. Cardinality(ChargedTokens(k)) \in Nat /\ toks[k][w] \in Nat /\ toks'[k][w] \in Nat
      BY <2>1, FS_CardinalityType, Zenon DEF TypeOK
    <2>3. IF w \in Elapsing THEN toks[k][w] <= Cardinality(ChargedTokens(k))
          ELSE toks[k][w] = Cardinality(ChargedTokens(k))
      BY <1>3, Zenon DEF TokenInv, TokenAccounting
    <2>4. IF w \in Elapsing THEN toks'[k][w] <= toks[k][w] ELSE toks'[k][w] = toks[k][w]
      BY Zenon DEF TokensStay
    <2> QED
      BY <1>1, <2>2, <2>3, <2>4, OrderFacts, Zenon
  <1> QED
    BY <1>2, <1>3, Zenon DEF TokenInv, TokenAccounting

\* A charge adds as much to the counters as to the sum.
LEMMA AccountingCharged ==
    ASSUME TypeOK, TypeOK', TokenInv, arrivals' = arrivals, OkAfterCall',
           NEW r \in Requests, OnlyMoves(r), KeepsName(r),
           Charged(r) = 0, Charged(r)' \in Nat, Charge(Key(r), Charged(r)')
    PROVE  TokenInv'
  <1> DEFINE n == Charged(r)'
  <1>1. Key(r) \in Keys \cup {NoKey}
    BY LocalFields, Zenon DEF TypeOK, Key
  <1>2. ASSUME arrivals' = 0, NEW k \in Keys
        PROVE  /\ IsFiniteSet(ChargedTokens(k)')
               /\ Cardinality(ChargedTokens(k)) \in Nat
               /\ Cardinality(ChargedTokens(k)') =
                    Cardinality(ChargedTokens(k)) + (IF k = Key(r) THEN n ELSE 0)
    <2>1. IsFiniteSet(ChargedTokens(k))
      BY <1>2, Zenon DEF TokenInv
    <2>2. Cardinality(ChargedTokens(k)) \in Nat
      BY <2>1, FS_CardinalityType, Zenon
    <2> QED
      BY <2>1, <2>2, TokensGrow, Zenon
  <1>3. ASSUME arrivals' = 0, NEW k \in Keys, NEW w \in Windows
        PROVE  IF w \in Elapsing THEN toks'[k][w] <= Cardinality(ChargedTokens(k)')
               ELSE toks'[k][w] = Cardinality(ChargedTokens(k)')
    <2> DEFINE m == IF k = Key(r) THEN n ELSE 0
               a == Cardinality(ChargedTokens(k))
    <2>1. m \in Nat /\ a \in Nat /\ toks[k][w] \in Nat /\ toks'[k][w] \in Nat
      BY <1>2, <1>3, Zenon DEF TypeOK
    <2>2. Cardinality(ChargedTokens(k)') = a + m
      BY <1>2, <1>3, Zenon
    <2>3. IF w \in Elapsing THEN toks[k][w] <= a ELSE toks[k][w] = a
      BY <1>3, Zenon DEF TokenInv, TokenAccounting
    <2>4. IF w \in Elapsing THEN toks'[k][w] <= toks[k][w] + m
          ELSE toks'[k][w] = toks[k][w] + m
      BY <1>1, ChargeAdds, Zenon
    <2> HIDE DEF m, a
    <2>5. \A x, y, z \in Nat : y <= a /\ x <= y + m => x <= a + m
      BY <2>1
    <2> QED
      BY <2>1, <2>2, <2>3, <2>4, <2>5, Zenon
  <1> QED
    BY <1>2, <1>3, Zenon DEF TokenInv, TokenAccounting

\* Every step keeps the accounting of the tokens.
LEMMA TokenStep ==
    ASSUME Inv, Inv', TokenInv, [Next]_vars
    PROVE  TokenInv'
  <1> USE DEF Inv
  <1>1. CASE UNCHANGED vars
    <2>1. UNCHANGED <<pc, rq, toks, arrivals>>
      BY <1>1, Zenon DEF vars, meters
    <2>2. OkAfterCall' /\ \A q \in Requests : Key(q)' = Key(q) /\ Charged(q)' = Charged(q)
      BY <2>1, Zenon DEF OkAfterCall, TokenInv, Key, Charged
    <2> QED
      BY <2>1, <2>2, SameTokens, AccountingKept, Zenon
  <1>2. ASSUME NEW r \in Requests, ReportUsage(r) \/ Settle(r) PROVE TokenInv'
    <2>1. /\ OnlyMoves(r) /\ KeepsName(r) /\ OkAfterCall' /\ arrivals' = arrivals
          /\ \/ Charged(r)' = Charged(r) /\ toks' = toks
             \/ Charged(r) = 0 /\ Charged(r)' \in Nat /\ Charge(Key(r), Charged(r)')
      BY <1>2, ChargingStep, Zenon DEF TokenInv
    <2>2. CASE Charged(r)' = Charged(r) /\ toks' = toks
      <3>1. \A q \in Requests : Key(q)' = Key(q) /\ Charged(q)' = Charged(q)
        BY <2>1, <2>2, Zenon DEF OnlyMoves, KeepsName, Key, Charged
      <3>2. TokensStay
        BY <2>2, SameTokens, Zenon
      <3> QED
        BY <2>1, <3>1, <3>2, AccountingKept, Zenon
    <2>3. CASE Charged(r) = 0 /\ Charged(r)' \in Nat /\ Charge(Key(r), Charged(r)')
      BY <2>1, <2>3, AccountingCharged, Zenon
    <2> QED
      BY <2>1, <2>2, <2>3, Zenon
  <1>3. CASE Next /\ \A r \in Requests : ~ReportUsage(r) /\ ~Settle(r)
    <2>1. TokensStay
      BY <1>3, OthersChargeNothing, Zenon
    <2>2. ASSUME NEW r \in Requests, Arrive(r) PROVE TokenInv'
      <3>1. PICK i \in Incoming : rq' = [rq EXCEPT ![r] = i]
        BY <2>2, Zenon DEF Arrive
      <3>2. rq'[r].code = ""
        BY <3>1, Zenon DEF TypeOK, Incoming
      <3>3. \A q \in Requests \ {r} : pc'[q] = pc[q] /\ rq'[q] = rq[q]
        BY <2>2, <3>1, Zenon DEF Arrive, Goto, TypeOK
      <3>4. OkAfterCall'
        BY <3>2, <3>3, Zenon DEF OkAfterCall, TokenInv
      <3>5. arrivals' # 0
        <4>1. arrivals \in Nat
          <5>1. arrivals \in 0 .. MaxArrivals
            BY Zenon DEF TypeOK
          <5> QED BY <5>1, SetsAssumption
        <4>2. arrivals' = arrivals + 1
          BY <2>2, Zenon DEF Arrive
        <4> QED BY <4>1, <4>2
      <3> QED
        BY <3>4, <3>5, Zenon DEF TokenInv, TokenAccounting
    <2>3. ASSUME NEW r \in Requests, Validate(r) \/ Handle(r) PROVE TokenInv'
      <3>1. /\ Charged(r)' = Charged(r)
            /\ rq'[r].code = "ok" => pc'[r] \in SettledSteps
        BY <1>3, <2>3, UnchargedStep, Zenon DEF TokenInv
      <3>2. OnlyMoves(r) /\ KeepsName(r)
        BY <1>3, <2>3, UnchargedMoves, Zenon
      <3>3. OkAfterCall'
        BY <3>1, <3>2, Zenon DEF OkAfterCall, TokenInv, OnlyMoves
      <3>4. \A q \in Requests : Key(q)' = Key(q) /\ Charged(q)' = Charged(q)
        BY <3>1, <3>2, Zenon DEF OnlyMoves, KeepsName, Key, Charged
      <3>5. arrivals' = arrivals
        BY <2>3, Zenon DEF Handle, Admit, Serve, Validate, Lookup, Reserve, CheckQuota, ReadLimit,
           AcquireConc, Delay, EnterQueue, TakeTurn, GiveUp, LeaveQueue, Account, Route, TakeSlot, LoseSlot,
           Reroute, Rebuild, ReportUsage, Finish, Settle, ReleaseQueue, ReleaseConc
      <3> QED
        BY <2>1, <3>3, <3>4, <3>5, AccountingKept, Zenon
    <2>4. ASSUME Administer PROVE TokenInv'
      <3>1. UNCHANGED <<pc, rq, arrivals>>
        BY <2>4, Zenon DEF Administer, SetUp, SetServes, SetSlotLimit, SetConcLimit, SetEnabled
      <3>2. OkAfterCall' /\ \A q \in Requests : Key(q)' = Key(q) /\ Charged(q)' = Charged(q)
        BY <3>1, Zenon DEF OkAfterCall, TokenInv, Key, Charged
      <3> QED
        BY <2>1, <3>1, <3>2, AccountingKept, Zenon
    <2> QED
      BY <1>3, <2>2, <2>3, <2>4, Zenon DEF Next
  <1> QED
    BY <1>1, <1>2, <1>3, Zenon

\* recordUsage keeps the token counters exact: in a window that does not
\* expire the counter of a key is the sum of what its requests were charged, by
\* their usage report or by the estimate and never by both, and in one that
\* expires it is at most that sum.
THEOREM TokensAreAccounted == Spec => []TokenAccounting
  <1>1. Init => TokenInv
    <2> SUFFICES ASSUME Init PROVE TokenInv
      BY Zenon
    <2>1. \A r \in Requests : /\ pc[r] = "idle" /\ rq[r].usage = NoUsage /\ rq[r].code = ""
      BY Zenon DEF Init, Incoming
    <2>2. \A r \in Requests : Charged(r) = 0
      BY <2>1, Zenon DEF Charged
    <2>3. 1 .. 0 = {}
      OBVIOUS
    <2>4. ASSUME NEW k \in Keys PROVE ChargedTokens(k) = {}
      <3>1. ASSUME NEW t, t \in ChargedTokens(k) PROVE FALSE
        <4>1. PICK q \in Requests : t \in {q} \X (1 .. Charged(q))
          BY <3>1, TokenOf, Zenon
        <4>2. 1 .. Charged(q) = {}
          BY <2>2, <2>3, Zenon
        <4> QED BY <4>1, <4>2, Zenon
      <3> QED BY <3>1, Zenon
    <2>5. \A k \in Keys : IsFiniteSet(ChargedTokens(k)) /\ Cardinality(ChargedTokens(k)) = 0
      BY <2>4, FS_EmptySet, Zenon
    <2>6. \A k \in Keys, w \in Windows : toks[k][w] = 0
      BY Zenon DEF Init
    <2>7. TokenAccounting
      BY <2>5, <2>6, OrderFacts, 0 \in Nat, Zenon DEF TokenAccounting
    <2>8. OkAfterCall
      BY <2>1, Zenon DEF OkAfterCall
    <2> QED
      BY <2>5, <2>7, <2>8, Zenon DEF TokenInv
  <1>2. Inv /\ Inv' /\ TokenInv /\ [Next]_vars => TokenInv'
    BY TokenStep, Zenon
  <1>3. TokenInv => TokenAccounting
    BY Zenon DEF TokenInv
  <1> QED
    BY <1>1, <1>2, <1>3, Invariance, PTL DEF Spec

=============================================================================
