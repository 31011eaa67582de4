------------------------------ MODULE Gateway ------------------------------
(***************************************************************************)
(* The life of a proxied request: handlers.Forward (JSON endpoints) and    *)
(* handlers.ForwardMultipart (audio), the admission pipeline they share    *)
(* (handlers.admit: rate limiter, monthly quota, per-key concurrency, QoS  *)
(* delay, per-model queue), the choice of a backend and its slot, and the  *)
(* releases that run when the handler returns.                             *)
(*                                                                         *)
(* Every HTTP request is served by its own goroutine, so the steps of two  *)
(* requests interleave wherever the code drops a lock.  A step below is    *)
(* one critical section (a mutex, an atomic, a channel operation) with the *)
(* goroutine-local code around it.  The admin API and the health checker   *)
(* change the registry at any time.                                        *)
(***************************************************************************)
EXTENDS Integers, FiniteSets

CONSTANTS
    Requests,       \* the requests that can be in the gateway at a time
    MaxArrivals,    \* bound: further requests that arrive once one is answered
    Keys,           \* API keys
    NoKey,          \* the key of a request when auth is off (k == nil)
    Models,
    Backends,
    NoBackend,
    Kinds,          \* the handlers in use, a subset of AllKinds
    ReqLimit,       \* [Windows -> Nat]: request caps of a key, 0 = unlimited
    TokLimit,       \* [Windows -> Nat]: token caps of a key, 0 = unlimited
    Elapsing,       \* the windows that may expire during the run
    Usages,         \* the total_tokens a backend may report
    Estimate,       \* estimateTokens: charged when no usage was reported
    Delayed,        \* the keys with delay_ms > 0
    ConcLimits,     \* the concurrent_requests values a key may be given
    SlotLimits,     \* the max_concurrent_requests values of a backend
    QueueEnabled,   \* queue.enabled
    MaxConc,        \* queue.per_model_limit (capacity of the semaphore)
    MaxSize,        \* queue.max_queue_size
    Switchable,     \* the models the admin API may disable and enable
    Flapping        \* the backends whose routability and models change

Windows == {"minute", "day", "month"}
NoUsage == -1
\* Requests with a JSON body, those of them that ask for a stream, and audio.
AllKinds == {"json", "stream", "multipart"}
EarlyErrors == {"invalid_request", "model_not_allowed"}
QuotaCodes == {"daily_request_limit_exceeded", "daily_token_limit_exceeded",
               "monthly_request_quota_exceeded", "monthly_token_quota_exceeded"}
Codes == EarlyErrors \cup QuotaCodes \cup
    {"", "model_not_found", "rate_limit_exceeded", "token_rate_limit_exceeded",
     "concurrent_limit", "client_canceled", "queue_full", "queue_timeout",
     "no_healthy_backend", "backend_at_capacity", "ok", "backend_error"}

\* Where the goroutine of a request stands.  "waiting" is the select of
\* queue.Acquire; "dequeue" and "refused" precede its deferred decrement.
Steps == {"idle", "lookup", "reserve", "quota", "limit", "concurrency", "delay",
          "queue", "waiting", "dequeue", "refused", "account", "route",
          "acquire", "reroute", "reacquire", "rebuild", "forward", "settle",
          "relqueue", "relconc", "done"}

ASSUME LimitsAssumption ==
    /\ ReqLimit \in [Windows -> Nat]
    /\ TokLimit \in [Windows -> Nat]
    /\ Elapsing \subseteq Windows
ASSUME SetsAssumption ==
    /\ IsFiniteSet(Requests)
    /\ MaxArrivals \in Nat
    /\ NoKey \notin Keys
    /\ NoBackend \notin Backends
    /\ Kinds \subseteq AllKinds
    /\ Usages \subseteq Nat
    /\ Estimate \in Nat \ {0}
    /\ Delayed \subseteq Keys
    /\ ConcLimits \subseteq Nat
    /\ SlotLimits \subseteq Nat
    /\ Switchable \subseteq Models
    /\ Flapping \subseteq Backends
\* queue.New and Manager.get replace values <= 0 by positive defaults.
ASSUME QueueAssumption ==
    /\ QueueEnabled \in BOOLEAN
    /\ MaxConc \in Nat \ {0}
    /\ MaxSize \in Nat \ {0}

VARIABLES
    pc,         \* [Requests -> Steps]
    rq,         \* the locals of each handler (a record, see LocalType)
    enabled,    \* [Models -> BOOLEAN]: model registry, enabled
    serves,     \* [Backends -> SUBSET Models]: Backend.Models ({} = deleted)
    up,         \* [Backends -> BOOLEAN]: routable but for its capacity
    slotLimit,  \* [Backends -> Nat]: MaxConcurrentRequests, 0 = unlimited
    concLimit,  \* [Keys -> Nat]: RateLimit.ConcurrentRequests, 0 = unlimited
    active,     \* [Backends -> Nat]: activeRequests
    conc,       \* [Keys -> Nat]: Concurrency.current
    sem,        \* [Models -> Nat]: tokens in the scope's sem channel
    queued,     \* [Models -> Nat]: the scope's queued counter
    reqs,       \* [Keys -> [Windows -> Nat]]: requests counted per window
    toks,       \* [Keys -> [Windows -> Nat]]: tokens counted per window
    hits,       \* [Keys -> Nat]: the QuotaHits metric
    arrivals    \* how many further requests have arrived

registry == <<enabled, serves, up, slotLimit, concLimit>>
counters == <<active, conc, sem, queued>>
meters   == <<reqs, toks, hits>>
vars     == <<pc, rq, registry, counters, meters, arrivals>>

LocalType == [key : Keys \cup {NoKey}, model : Models,
              kind : AllKinds, cand : SUBSET Backends,
              pick : Backends \cup {NoBackend}, limit : Nat,
              usage : Nat \cup {NoUsage}, code : Codes]

\* The locals of a handler at its start.
Incoming == [key : Keys \cup {NoKey}, model : Models, kind : Kinds,
             cand : {{}}, pick : {NoBackend}, limit : {0},
             usage : {NoUsage}, code : {""}]

Key(r)   == rq[r].key
Model(r) == rq[r].model

Init ==
    /\ pc = [r \in Requests |-> "idle"]
    /\ rq \in [Requests -> Incoming]
    /\ enabled = [m \in Models |-> TRUE]
    /\ serves = [b \in Backends |-> Models]
    /\ up = [b \in Backends |-> TRUE]
    /\ slotLimit \in [Backends -> SlotLimits]
    /\ concLimit \in [Keys -> ConcLimits]
    /\ active = [b \in Backends |-> 0]
    /\ conc = [k \in Keys |-> 0]
    /\ sem = [m \in Models |-> 0]
    /\ queued = [m \in Models |-> 0]
    /\ reqs = [k \in Keys |-> [w \in Windows |-> 0]]
    /\ toks = [k \in Keys |-> [w \in Windows |-> 0]]
    /\ hits = [k \in Keys |-> 0]
    /\ arrivals = 0

-----------------------------------------------------------------------------
(* Control of a handler *)

Goto(r, step) == pc' = [pc EXCEPT ![r] = step]

\* The handler answers (or knows its outcome) and continues at step ("done", or
\* the release of what it holds).
Answer(r, step, c) ==
    /\ Goto(r, step)
    /\ rq' = [rq EXCEPT ![r].code = c]

\* Fields of the handler's closure that decide where admission goes next.
QueueStep   == IF QueueEnabled THEN "queue" ELSE "account"
ReleaseStep == IF QueueEnabled THEN "relqueue" ELSE "relconc"

-----------------------------------------------------------------------------
(* Before admission *)

\* The server starts another handler.
Arrive(r) ==
    /\ pc[r] = "done"
    /\ arrivals < MaxArrivals
    /\ arrivals' = arrivals + 1
    /\ \E q \in Incoming : rq' = [rq EXCEPT ![r] = q]
    /\ Goto(r, "idle")
    /\ UNCHANGED <<registry, counters, meters>>

\* Forward and ForwardMultipart up to the registry check: the body, JSON,
\* permission and capability errors depend on the request alone; a disabled
\* registry entry answers model_not_found.
Validate(r) ==
    /\ pc[r] = "idle"
    /\ \/ \E c \in EarlyErrors : Answer(r, "done", c)
       \/ ~enabled[Model(r)] /\ Answer(r, "done", "model_not_found")
       \/ enabled[Model(r)] /\ Goto(r, "lookup") /\ UNCHANGED rq
    /\ UNCHANGED <<registry, counters, meters, arrivals>>

\* candidates := store.BackendsForModel(internalModel), kept for the rest of
\* the handler.
Lookup(r) ==
    LET cand == {b \in Backends : Model(r) \in serves[b]}
    IN  /\ pc[r] = "lookup"
        /\ \/ cand = {} /\ Answer(r, "done", "model_not_found")
           \/ /\ cand # {}
              /\ rq' = [rq EXCEPT ![r].cand = cand]
              /\ Goto(r, IF Key(r) = NoKey THEN QueueStep ELSE "reserve")
        /\ UNCHANGED <<registry, counters, meters, arrivals>>

-----------------------------------------------------------------------------
(* Rate limiter and monthly quota *)

\* rollLocked: the counters of the windows that expired since the last access
\* restart at 0.
Roll(counts, expired) ==
    [w \in Windows |-> IF w \in expired THEN 0 ELSE counts[w]]

\* Mutant: off by one.
ReachedLate(limit, n) == limit > 0 /\ n > limit

Reached(limit, n) == limit > 0 /\ n >= limit

\* The verdict of Limiter.CheckAndReserve on a rolled bucket; "" = admitted.
LimiterVerdict(rs, ts) ==
    IF Reached(ReqLimit["minute"], rs["minute"]) THEN "rate_limit_exceeded"
    ELSE IF Reached(TokLimit["minute"], ts["minute"]) THEN "token_rate_limit_exceeded"
    ELSE IF Reached(ReqLimit["day"], rs["day"]) THEN "daily_request_limit_exceeded"
    ELSE IF Reached(TokLimit["day"], ts["day"]) THEN "daily_token_limit_exceeded"
    ELSE ""

\* Mutant: the monthly cap is compared with > instead of >=.
QuotaVerdictLate(rs, ts) ==
    IF ReachedLate(ReqLimit["month"], rs["month"]) THEN "monthly_request_quota_exceeded"
    ELSE IF ReachedLate(TokLimit["month"], ts["month"]) THEN "monthly_token_quota_exceeded"
    ELSE ""

\* The verdict of quota.Manager.Check, which admit calls with daily caps of 0.
QuotaVerdict(rs, ts) ==
    IF Reached(ReqLimit["month"], rs["month"]) THEN "monthly_request_quota_exceeded"
    ELSE IF Reached(TokLimit["month"], ts["month"]) THEN "monthly_token_quota_exceeded"
    ELSE ""

\* A rejection that is a quota code increments QuotaHits in admit, and again
\* in Forward when admit has returned the code.
CountHits(r, c) ==
    hits' = [hits EXCEPT ![Key(r)] =
                @ + (IF c \notin QuotaCodes THEN 0
                     ELSE IF rq[r].kind = "multipart" THEN 1 ELSE 2)]

\* admit step 1: CheckAndReserve validates and counts under the bucket's lock.
Reserve(r) ==
    /\ pc[r] = "reserve"
    /\ \E expired \in SUBSET (Elapsing \cap {"minute", "day"}) :
         LET rs == Roll(reqs[Key(r)], expired)
             ts == Roll(toks[Key(r)], expired)
             c  == LimiterVerdict(rs, ts)
         IN  /\ toks' = [toks EXCEPT ![Key(r)] = ts]
             /\ \/ /\ c = ""
                   /\ reqs' = [reqs EXCEPT ![Key(r)] =
                        [rs EXCEPT !["minute"] = @ + 1, !["day"] = @ + 1]]
                   /\ Goto(r, "quota")
                   /\ UNCHANGED <<rq, hits>>
                \/ /\ c # ""
                   /\ reqs' = [reqs EXCEPT ![Key(r)] = rs]
                   /\ Answer(r, "done", c)
                   /\ CountHits(r, c)
    /\ UNCHANGED <<registry, counters, arrivals>>

\* admit step 2: the monthly quota is only checked here; AddRequest counts
\* the request in step 6.
CheckQuota(r) ==
    /\ pc[r] = "quota"
    /\ \E expired \in SUBSET (Elapsing \cap {"month"}) :
         LET rs == Roll(reqs[Key(r)], expired)
             ts == Roll(toks[Key(r)], expired)
             c  == QuotaVerdict(rs, ts)
         IN  /\ reqs' = [reqs EXCEPT ![Key(r)] = rs]
             /\ toks' = [toks EXCEPT ![Key(r)] = ts]
             /\ \/ /\ c = ""
                   /\ Goto(r, "limit")
                   /\ UNCHANGED <<rq, hits>>
                \/ /\ c # ""
                   /\ Answer(r, "done", c)
                   /\ CountHits(r, c)
    /\ UNCHANGED <<registry, counters, arrivals>>

-----------------------------------------------------------------------------
(* Per-key concurrency and the QoS delay *)

\* admit step 3: the handler reads the key's limit, under no lock.  The value is
\* passed to Acquire and captured for Release; the admin API may patch the key
\* in between.
ReadLimit(r) ==
    /\ pc[r] = "limit"
    /\ rq' = [rq EXCEPT ![r].limit = concLimit[Key(r)]]
    /\ Goto(r, "concurrency")
    /\ UNCHANGED <<registry, counters, meters, arrivals>>

\* Mutant: the limit is compared with > instead of >=.
AcquireConcLate(r) ==
    LET k == Key(r)
        limit == rq[r].limit
    IN  /\ pc[r] = "concurrency"
        /\ Goto(r, QueueStep)
        /\ \/ limit = 0 /\ UNCHANGED conc
           \/ /\ limit > 0 /\ conc[k] <= limit
              /\ conc' = [conc EXCEPT ![k] = @ + 1]
        /\ UNCHANGED <<rq, registry, active, sem, queued, meters, arrivals>>

\* Concurrency.Acquire with the limit that was read; a limit of 0 is unlimited
\* and not tracked.
AcquireConc(r) ==
    LET k == Key(r)
        limit == rq[r].limit
        next == IF k \in Delayed THEN "delay" ELSE QueueStep
    IN  /\ pc[r] = "concurrency"
        /\ \/ /\ limit = 0
              /\ Goto(r, next)
              /\ UNCHANGED <<rq, conc>>
           \/ /\ limit > 0 /\ conc[k] < limit
              /\ conc' = [conc EXCEPT ![k] = @ + 1]
              /\ Goto(r, next)
              /\ UNCHANGED rq
           \/ /\ limit > 0 /\ conc[k] >= limit
              /\ Answer(r, "done", "concurrent_limit")
              /\ UNCHANGED conc
        /\ UNCHANGED <<registry, active, sem, queued, meters, arrivals>>

\* admit step 4: the delay elapses, or the client goes away first.
Delay(r) ==
    /\ pc[r] = "delay"
    /\ \/ Goto(r, QueueStep) /\ UNCHANGED rq
       \/ Answer(r, "relconc", "client_canceled")
    /\ UNCHANGED <<registry, counters, meters, arrivals>>

-----------------------------------------------------------------------------
(* Per-model queue *)

\* Mutant: the counter is compared before it includes the newcomer.
EnterQueueLate(r) ==
    LET m == Model(r)
    IN  /\ pc[r] = "queue"
        /\ queued' = [queued EXCEPT ![m] = @ + 1]
        /\ \/ queued[m] > MaxSize /\ Answer(r, "refused", "queue_full")
           \/ queued[m] <= MaxSize /\ Goto(r, "waiting") /\ UNCHANGED rq
        /\ UNCHANGED <<registry, active, conc, sem, meters, arrivals>>

\* queue.Acquire increments the scope's counter first; a value above maxSize
\* is ErrFull.
EnterQueue(r) ==
    LET m == Model(r)
    IN  /\ pc[r] = "queue"
        /\ queued' = [queued EXCEPT ![m] = @ + 1]
        /\ \/ queued[m] + 1 > MaxSize /\ Answer(r, "refused", "queue_full")
           \/ queued[m] + 1 <= MaxSize /\ Goto(r, "waiting") /\ UNCHANGED rq
        /\ UNCHANGED <<registry, active, conc, sem, meters, arrivals>>

\* The select of queue.Acquire: the send on sem succeeds while it has room ...
TakeTurn(r) ==
    LET m == Model(r)
    IN  /\ pc[r] = "waiting"
        /\ sem[m] < MaxConc
        /\ sem' = [sem EXCEPT ![m] = @ + 1]
        /\ Goto(r, "dequeue")
        /\ UNCHANGED <<rq, registry, active, conc, queued, meters, arrivals>>

\* ... or the timer fires or the client goes away; admit reports both as
\* queue_timeout.
GiveUp(r) ==
    /\ pc[r] = "waiting"
    /\ Answer(r, "refused", "queue_timeout")
    /\ UNCHANGED <<registry, counters, meters, arrivals>>

\* Mutant: the early return of ErrFull skips the decrement.
LeaveQueueLeaks(r) ==
    /\ pc[r] \in {"dequeue", "refused"}
    /\ queued' = [queued EXCEPT ![Model(r)] = IF rq[r].code = "queue_full" THEN @ ELSE @ - 1]
    /\ Goto(r, IF pc[r] = "dequeue" THEN "account" ELSE "relconc")
    /\ UNCHANGED <<rq, registry, active, conc, sem, meters, arrivals>>

\* The deferred decrement of the scope's counter; on an error doRelease runs.
LeaveQueue(r) ==
    /\ pc[r] \in {"dequeue", "refused"}
    /\ queued' = [queued EXCEPT ![Model(r)] = @ - 1]
    /\ Goto(r, IF pc[r] = "dequeue" THEN "account" ELSE "relconc")
    /\ UNCHANGED <<rq, registry, active, conc, sem, meters, arrivals>>

\* admit step 6: quota.AddRequest.
Account(r) ==
    LET k == Key(r)
    IN  /\ pc[r] = "account"
        /\ Goto(r, "route")
        /\ \/ k = NoKey /\ UNCHANGED <<reqs, toks>>
           \/ /\ k # NoKey
              /\ \E expired \in SUBSET (Elapsing \cap {"month"}) :
                   /\ reqs' = [reqs EXCEPT ![k] =
                                [Roll(reqs[k], expired) EXCEPT !["month"] = @ + 1]]
                   /\ toks' = [toks EXCEPT ![k] = Roll(toks[k], expired)]
        /\ UNCHANGED <<rq, registry, counters, hits, arrivals>>

-----------------------------------------------------------------------------
(* Choosing a backend and taking its slot *)

HasRoom(b) == slotLimit[b] = 0 \/ active[b] < slotLimit[b]

\* store.FilterRoutable.  "up" stands for enabled, a routable status and a
\* weight that is not 0.
FilterRoutable(cand) == {b \in cand : up[b] /\ HasRoom(b)}

\* Mutant: the handler waits for a routable backend.
RouteWaits(r) ==
    /\ pc[r] = "route"
    /\ \E b \in FilterRoutable(rq[r].cand) : /\ rq' = [rq EXCEPT ![r].pick = b]
                                             /\ Goto(r, "acquire")
    /\ UNCHANGED <<registry, counters, meters, arrivals>>

\* Forward filters its candidates and lets the balancer choose one of them
\* (any: the policies are not told apart here).
Route(r) ==
    LET ready == FilterRoutable(rq[r].cand)
    IN  /\ pc[r] = "route"
        /\ \/ ready = {} /\ Answer(r, ReleaseStep, "no_healthy_backend")
           \/ \E b \in ready : /\ rq' = [rq EXCEPT ![r].pick = b]
                               /\ Goto(r, "acquire")
        /\ UNCHANGED <<registry, counters, meters, arrivals>>

\* Mutant: the slot is taken on the word of the filter.
TakeSlotUnchecked(r) ==
    /\ pc[r] \in {"acquire", "reacquire"}
    /\ active' = [active EXCEPT ![rq[r].pick] = @ + 1]
    /\ Goto(r, IF rq[r].kind = "multipart" THEN "rebuild" ELSE "forward")
    /\ UNCHANGED <<rq, registry, conc, sem, queued, meters, arrivals>>

\* AcquireSlot succeeds; multipart bodies are rebuilt before they are sent.
TakeSlot(r) ==
    LET b == rq[r].pick
    IN  /\ pc[r] \in {"acquire", "reacquire"}
        /\ HasRoom(b)
        /\ active' = [active EXCEPT ![b] = @ + 1]
        /\ Goto(r, IF rq[r].kind = "multipart" THEN "rebuild" ELSE "forward")
        /\ UNCHANGED <<rq, registry, conc, sem, queued, meters, arrivals>>

\* AcquireSlot fails: Forward picks once more, everyone else gives up.
LoseSlot(r) ==
    /\ pc[r] \in {"acquire", "reacquire"}
    /\ ~HasRoom(rq[r].pick)
    /\ \/ /\ pc[r] = "acquire" /\ rq[r].kind # "multipart"
          /\ Goto(r, "reroute")
          /\ UNCHANGED rq
       \/ /\ pc[r] = "reacquire" \/ rq[r].kind = "multipart"
          /\ Answer(r, ReleaseStep, "backend_at_capacity")
    /\ UNCHANGED <<registry, counters, meters, arrivals>>

\* The second filter and choice; nothing ready makes Choose return nil.
Reroute(r) ==
    LET ready == FilterRoutable(rq[r].cand)
    IN  /\ pc[r] = "reroute"
        /\ \/ ready = {} /\ Answer(r, ReleaseStep, "backend_at_capacity")
           \/ \E b \in ready : /\ rq' = [rq EXCEPT ![r].pick = b]
                               /\ Goto(r, "reacquire")
        /\ UNCHANGED <<registry, counters, meters, arrivals>>

\* Backend.ReleaseSlot
ReleaseSlot(b) == active' = [active EXCEPT ![b] = IF @ > 0 THEN @ - 1 ELSE @]

\* Mutant: the error path forgets the slot.
RebuildLeaks(r) ==
    /\ pc[r] = "rebuild"
    /\ \/ Goto(r, "forward") /\ UNCHANGED rq
       \/ Answer(r, ReleaseStep, "invalid_request")
    /\ UNCHANGED <<registry, counters, meters, arrivals>>

\* rebuildMultipart, whose failure gives the slot back.
Rebuild(r) ==
    /\ pc[r] = "rebuild"
    /\ \/ /\ Goto(r, "forward")
          /\ UNCHANGED <<rq, active>>
       \/ /\ ReleaseSlot(rq[r].pick)
          /\ Answer(r, ReleaseStep, "invalid_request")
    /\ UNCHANGED <<registry, conc, sem, queued, meters, arrivals>>

-----------------------------------------------------------------------------
(* The upstream call, usage accounting and the deferred releases *)

\* recordUsage: limiter.AddTokens and quota.AddTokens roll the buckets of the
\* key and add n tokens; no key, or n = 0, leaves them alone.
Charge(k, n) ==
    \/ (k = NoKey \/ n = 0) /\ UNCHANGED <<reqs, toks>>
    \/ /\ k # NoKey /\ n > 0
       /\ \E expired \in SUBSET Elapsing :
            /\ reqs' = [reqs EXCEPT ![k] = Roll(reqs[k], expired)]
            /\ toks' = [toks EXCEPT ![k] =
                         [w \in Windows |-> Roll(toks[k], expired)[w] + n]]

\* OnUsage / OnStreamUsage: the proxy reports the usage block of the response
\* at most once, while the call is in progress.
ReportUsage(r) ==
    /\ pc[r] = "forward" /\ rq[r].kind # "multipart" /\ rq[r].usage = NoUsage
    /\ \E u \in Usages : /\ rq' = [rq EXCEPT ![r].usage = u]
                         /\ Charge(Key(r), u)
    /\ UNCHANGED <<pc, registry, counters, hits, arrivals>>

\* Mutant: the call only ends while its backend is routable.
FinishWhenUp(r) ==
    /\ pc[r] = "forward" /\ up[rq[r].pick]
    /\ ReleaseSlot(rq[r].pick)
    /\ Answer(r, "settle", "ok")
    /\ UNCHANGED <<registry, conc, sem, queued, meters, arrivals>>

\* proxy.Forward returns (an answer, an error, a timeout or a disconnect) and
\* the handler gives the slot back.
Finish(r) ==
    /\ pc[r] = "forward"
    /\ ReleaseSlot(rq[r].pick)
    /\ \E c \in {"ok", "backend_error"} : Answer(r, "settle", c)
    /\ UNCHANGED <<registry, conc, sem, queued, meters, arrivals>>

\* Mutant: the estimate is charged although usage was reported.
SettleTwice(r) ==
    /\ pc[r] = "settle"
    /\ Goto(r, ReleaseStep)
    /\ Charge(Key(r), IF rq[r].kind # "multipart" /\ rq[r].code = "ok" THEN Estimate ELSE 0)
    /\ UNCHANGED <<rq, registry, counters, hits, arrivals>>

\* A successful JSON answer without a usage block is charged an estimate.
Settle(r) ==
    /\ pc[r] = "settle"
    /\ Goto(r, ReleaseStep)
    /\ LET estimated == /\ rq[r].kind # "multipart" /\ rq[r].code = "ok"
                        /\ rq[r].usage = NoUsage
       IN  Charge(Key(r), IF estimated THEN Estimate ELSE 0)
    /\ UNCHANGED <<rq, registry, counters, hits, arrivals>>

\* The releases of admit run in reverse order: the receive on sem ...
ReleaseQueue(r) ==
    /\ pc[r] = "relqueue"
    /\ sem' = [sem EXCEPT ![Model(r)] = @ - 1]
    /\ Goto(r, "relconc")
    /\ UNCHANGED <<rq, registry, active, conc, queued, meters, arrivals>>

\* Mutant: the release reads the key's limit again.
ReleaseConcCurrent(r) ==
    /\ pc[r] = "relconc"
    /\ Goto(r, "done")
    /\ conc' = [k \in Keys |-> IF k = Key(r) /\ concLimit[k] > 0 /\ conc[k] > 0
                               THEN conc[k] - 1 ELSE conc[k]]
    /\ UNCHANGED <<rq, registry, active, sem, queued, meters, arrivals>>

\* ... then Concurrency.Release with the limit passed to Acquire.
ReleaseConc(r) ==
    /\ pc[r] = "relconc"
    /\ Goto(r, "done")
    /\ \/ rq[r].limit = 0 /\ UNCHANGED conc
       \/ /\ rq[r].limit > 0
          /\ conc' = [conc EXCEPT ![Key(r)] = IF @ > 0 THEN @ - 1 ELSE @]
    /\ UNCHANGED <<rq, registry, active, sem, queued, meters, arrivals>>

-----------------------------------------------------------------------------
(* The admin API and the health checker *)

\* Status changes (health checks, maintenance), enable / disable, weight.
SetUp(b) ==
    /\ b \in Flapping
    /\ up' = [up EXCEPT ![b] = ~@]
    /\ UNCHANGED <<pc, rq, enabled, serves, slotLimit, concLimit,
                   counters, meters, arrivals>>

\* createBackend, patchBackend (models), deleteBackend ({}).
SetServes(b) ==
    /\ b \in Flapping
    /\ \E ms \in SUBSET Models : serves' = [serves EXCEPT ![b] = ms]
    /\ UNCHANGED <<pc, rq, enabled, up, slotLimit, concLimit,
                   counters, meters, arrivals>>

\* patchBackend (max_concurrent_requests; only positive values are applied).
SetSlotLimit(b) ==
    /\ \E n \in SlotLimits \ {0, slotLimit[b]} :
         slotLimit' = [slotLimit EXCEPT ![b] = n]
    /\ UNCHANGED <<pc, rq, enabled, serves, up, concLimit,
                   counters, meters, arrivals>>

\* patchAPIKey (rate_limit).
SetConcLimit(k) ==
    /\ \E n \in ConcLimits \ {concLimit[k]} :
         concLimit' = [concLimit EXCEPT ![k] = n]
    /\ UNCHANGED <<pc, rq, enabled, serves, up, slotLimit,
                   counters, meters, arrivals>>

\* upsertModel, patchModel (enabled).
SetEnabled(m) ==
    /\ m \in Switchable
    /\ enabled' = [enabled EXCEPT ![m] = ~@]
    /\ UNCHANGED <<pc, rq, serves, up, slotLimit, concLimit,
                   counters, meters, arrivals>>

-----------------------------------------------------------------------------
Admit(r) == \/ Reserve(r) \/ CheckQuota(r) \/ ReadLimit(r) \/ AcquireConc(r) \/ Delay(r)
            \/ EnterQueue(r) \/ TakeTurn(r) \/ GiveUp(r) \/ LeaveQueue(r)
            \/ Account(r)

Serve(r) == \/ Route(r) \/ TakeSlot(r) \/ LoseSlot(r) \/ Reroute(r)
            \/ Rebuild(r) \/ ReportUsage(r) \/ Finish(r) \/ Settle(r)
            \/ ReleaseQueue(r) \/ ReleaseConc(r)

Handle(r) == Lookup(r) \/ Admit(r) \/ Serve(r)

Administer == \/ \E b \in Backends : SetUp(b) \/ SetServes(b) \/ SetSlotLimit(b)
              \/ \E k \in Keys : SetConcLimit(k)
              \/ \E m \in Models : SetEnabled(m)

Next == \/ \E r \in Requests : Arrive(r) \/ Validate(r) \/ Handle(r)
        \/ Administer

Spec == Init /\ [][Next]_vars

\* The call of a request that asked for a stream has no deadline: the idle
\* timer guards an event stream against silence only, a plain answer has none.
Unbounded(r) == pc[r] = "forward" /\ rq[r].kind = "stream"

\* A goroutine that can take a step eventually takes one.  For the select of
\* the queue this is its timer, for an upstream call that has one its deadline.
\* That an answer is written rests on a client that reads it.
FairSpec == Spec /\ \A r \in Requests : WF_vars(Handle(r) /\ ~Unbounded(r))

-----------------------------------------------------------------------------
(* Who holds what *)

QueueHeldSteps == {"account", "route", "acquire", "reroute", "reacquire",
                   "rebuild", "forward", "settle", "relqueue"}
ConcHeldSteps  == QueueHeldSteps \cup
                  {"delay", "queue", "waiting", "dequeue", "refused", "relconc"}

SlotHolders(b) == {r \in Requests : pc[r] \in {"rebuild", "forward"} /\ rq[r].pick = b}
ConcHolders(k) == {r \in Requests : pc[r] \in ConcHeldSteps /\ Key(r) = k /\ rq[r].limit > 0}
TurnHolders(m) == {r \in Requests : /\ Model(r) = m
                                    /\ \/ pc[r] = "dequeue"
                                       \/ QueueEnabled /\ pc[r] \in QueueHeldSteps}
InQueue(m)     == {r \in Requests : pc[r] \in {"waiting", "dequeue", "refused"} /\ Model(r) = m}
Waiting(m)     == {r \in Requests : pc[r] = "waiting" /\ Model(r) = m}

\* Requests of k that the monthly quota let through and that are not counted
\* in it yet.
Unaccounted(k) == {r \in Requests : Key(r) = k /\ pc[r] \in
                    {"limit", "concurrency", "delay", "queue", "waiting", "dequeue", "account"}}

-----------------------------------------------------------------------------
(* Properties *)

\* Every variable has its type.
TypeOK ==
    /\ pc \in [Requests -> Steps]
    /\ rq \in [Requests -> LocalType]
    /\ enabled \in [Models -> BOOLEAN]
    /\ serves \in [Backends -> SUBSET Models]
    /\ up \in [Backends -> BOOLEAN]
    /\ slotLimit \in [Backends -> Nat]
    /\ concLimit \in [Keys -> Nat]
    /\ active \in [Backends -> Nat]
    /\ conc \in [Keys -> Nat]
    /\ sem \in [Models -> Nat]
    /\ queued \in [Models -> Nat]
    /\ reqs \in [Keys -> [Windows -> Nat]]
    /\ toks \in [Keys -> [Windows -> Nat]]
    /\ hits \in [Keys -> Nat]
    /\ arrivals \in 0 .. MaxArrivals

\* A backend's activeRequests is the number of handlers that hold one of its
\* slots, whatever path they leave on and however the limit is patched
\* meanwhile: no slot leaks and none is given back twice.
SlotAccounting == \A b \in Backends : active[b] = Cardinality(SlotHolders(b))

\* A key's concurrency count is the number of its requests that were counted
\* by Concurrency.Acquire and have not run their release, although the key's
\* limit (and whether it is tracked at all) may change between the two.
ConcAccounting == \A k \in Keys : conc[k] = Cardinality(ConcHolders(k))

\* The tokens in a scope's semaphore are the requests of the model between
\* queue.Acquire and the deferred release, and its counter is the number of
\* requests inside queue.Acquire.
QueueAccounting ==
    \A m \in Models : /\ sem[m] = Cardinality(TurnHolders(m))
                      /\ queued[m] = Cardinality(InQueue(m))

\* At most per_model_limit requests of a model are being served, and at most
\* max_queue_size wait for their turn, whatever transient counts the queued
\* counter goes through.
QueueBounds ==
    \A m \in Models : /\ Cardinality(TurnHolders(m)) <= MaxConc
                      /\ Cardinality(Waiting(m)) <= MaxSize

\* The counters of the queue are exact and keep its bounds: per_model_limit
\* requests of a model run, and max_queue_size wait.
QueueIsExact == QueueAccounting /\ QueueBounds

\* CheckAndReserve counts at most the request caps of the minute and the day
\* in each of their windows, however many goroutines call it.
RateWindowHolds ==
    \A k \in Keys, w \in {"minute", "day"} :
        ReqLimit[w] > 0 => reqs[k][w] <= ReqLimit[w]

\* What a request has been charged so far: the usage its backend reported,
\* or the estimate once a successful JSON answer came without one.
Charged(r) ==
    IF rq[r].usage # NoUsage THEN rq[r].usage
    ELSE IF /\ rq[r].kind # "multipart" /\ rq[r].code = "ok"
            /\ pc[r] \in {"relqueue", "relconc", "done"}
         THEN Estimate ELSE 0

\* The tokens that the requests of k were charged, each by its request and its
\* number.
ChargedTokens(k) == UNION {{r} \X (1 .. Charged(r)) : r \in {q \in Requests : Key(q) = k}}

\* The token counters of a key are the number of tokens that its requests were
\* charged, in a window that does not expire, and never more in one that does:
\* recordUsage reaches the minute, day and month counters alike, and no request
\* is charged both its usage and an estimate.  (A handler forgets what it
\* charged when it serves a further request.)
TokenAccounting ==
    arrivals = 0 =>
        \A k \in Keys, w \in Windows :
            LET charged == Cardinality(ChargedTokens(k))
            IN  IF w \in Elapsing THEN toks[k][w] <= charged ELSE toks[k][w] = charged

\* The monthly request quota can be exceeded only by requests that were past
\* the check when the last free unit was counted: with N requests in the
\* gateway, by at most N - 1.
QuotaOvershootBounded ==
    ReqLimit["month"] > 0 =>
        \A k \in Keys : reqs[k]["month"] + Cardinality(Unaccounted(k))
                            <= ReqLimit["month"] + Cardinality(Requests) - 1

\* Every request that enters a handler leaves it and gives back what it holds,
\* whatever the others do: also if they hold the last slot, the key's limit or
\* the queue for ever.  The exception is a stream that its backend neither ends
\* nor, as an event stream, lets go silent (FairSpec).
RequestsEnd ==
    \A r \in Requests : pc[r] # "idle" ~> (pc[r] = "done" \/ []Unbounded(r))

\* Of any requests that a key's counter counts together, one read a limit that
\* admits as many: no patch between the read of the limit and Acquire lets more
\* requests in than a limit that was in force when one of them asked.
LimitsReadHold ==
    \A k \in Keys : \A S \in SUBSET ConcHolders(k) :
        S # {} => \E r \in S : Cardinality(S) <= rq[r].limit

\* Facts about where a handler stands that the accounting rests on: only
\* requests with a key pass the key's checks, no limit is known before it is
\* read, a picked backend is a backend, and the queue's steps are taken only when
\* there is a queue.
HandlerShape ==
    \A r \in Requests :
        /\ pc[r] \in {"reserve", "quota", "limit", "concurrency", "delay"} => Key(r) \in Keys
        /\ rq[r].limit > 0 => Key(r) \in Keys
        /\ pc[r] \in {"idle", "lookup", "reserve", "quota", "limit"} => rq[r].limit = 0
        /\ pc[r] \in {"acquire", "reacquire", "rebuild", "forward"} => rq[r].pick \in Backends
        /\ pc[r] \in {"queue", "waiting", "dequeue", "refused", "relqueue"} => QueueEnabled

=============================================================================
