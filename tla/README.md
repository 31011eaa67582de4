# LLMGateway in TLA+

This directory specifies the concurrent core of LLMGateway, a Go reverse proxy
that stands between OpenAI-style clients and a set of model backends. The
modules are written from the code under `src/`; TLC checks them on small
instances and TLAPS proves the most important invariants for all instances.
`PROJECT.json` lists the runs, the source lines of every definition, the
hazards, the findings and the theorems.

## The system

A request is served by one goroutine. It authenticates, resolves the model's
alias, passes admission (rate limiter, monthly quota, per-key concurrency, an
optional delay, a per-model queue), picks a backend that is routable, takes one
of its slots, forwards the body, relays the answer (plain or as an event
stream), charges the tokens and gives everything back. Requests for a virtual
model go to an orchestrator, which makes several worker calls of its own.
Beside the handlers run a health-check loop per backend, an admin API with
users and sessions that edits backends, models, aliases and keys at any time, a
mail notifier, an exporter of trace spans, and a collector of idle limiter
buckets. State is in memory, except logs, which may be in a database, and
limits, which several gateways may share in Redis.

| Part | Source | Module |
|---|---|---|
| Request pipeline, admission, slots | `handlers/handlers.go`, `handlers/audio.go`, `queue`, `quota`, `ratelimit`, `store` | `Gateway` |
| What a pool of slots promises | (abstract) | `SlotPool` |
| Limiter buckets and their collector | `ratelimit/ratelimit.go` | `RateBuckets` |
| Limiter shared by gateways | `ratelimit/redis.go` | `RedisLimiter` |
| Client address, API key checks | `netutil/clientip.go`, `auth/middleware.go` | `ClientAddress` |
| Choice of a backend | `balancer/balancer.go` | `Balancer` |
| Forwarding and streams | `proxy/proxy.go`, `proxy/stream.go` | `Forwarding` |
| Status of a backend | `store/store.go`, `backend/health.go` | `BackendHealth` |
| Life of the probe loops | `backend/health.go`, `admin/admin.go` | `ProbeLoops` |
| API keys and the hash index | `store/store.go`, `admin/admin_keys.go` | `KeyIndex` |
| Aliases, patterns, access lists | `store/store.go`, `admin/admin_models.go` | `ModelNames` |
| Configuration, model registry, list and lookup of models, capabilities | `config/config.go`, `store/store.go`, `handlers/handlers.go`, `admin/admin_models.go`, `capability` | `Catalog` |
| Admin users, roles, sessions | `admin/users.go`, `admin/session.go`, `admin/admin.go` | `AdminAccess` |
| Orchestrator | `orchestrator/*.go`, `handlers/orchestration.go` | `Orchestration` |
| Mail notifier | `notify/notify.go` | `Notifier` |
| Shutdown and trace spans | `cmd/gateway/main.go`, `tracing/tracing.go` | `Process` |
| Log store in memory | `logstore/logstore.go` | `LogStore` |
| Log stores in SQLite and PostgreSQL, statistics | `logstore/sqlite.go`, `logstore/postgres.go`, `logstore/logstore.go` | `LogTables` |

`MCGateway` and `MCOrchestration` give instance definitions to the module they are
named after, and `Forwarding` is run directly. The other `MC...` modules put
components side by side that share no state, of which one moves in each
behaviour while the others rest in an initial state: `MCAdmin` (`ProbeLoops`,
`KeyIndex`, `BackendHealth`), `MCAdmission` (`Admission`, `RedisLimiter`),
`MCLifecycle` (`Notifier`, `Process`) and `MCServices` (`Balancer`, `ModelNames`,
`Catalog`, `LogStore`, `LogTables`). `Admission` itself holds what one process does
to let a request in: `AdminAccess`, which it extends, `RateBuckets` and
`ClientAddress`. `GatewayPools` maps the counters of `Gateway` to `SlotPool`.

`MCAdmin` has a variable `alone`, chosen at the start: in behaviours where it
holds, the loop probes alone or admin requests do not overlap, and more can be
promised. It also has an observer that hears what the loop announces.

The theorems are in `GatewayProofs`, `GatewayPoolProofs`, `ForwardingProofs`,
`OrchestrationProofs`, `AdmissionProofs`, `RedisProofs` (of `RedisLimiter`),
`AdminProofs` (of the components of `MCAdmin`) and `LifecycleProofs` (of those of
`MCLifecycle`).

How the parts interact: `Gateway` sees a backend as the Boolean `up`, which is
`Routable` of `BackendHealth`; it sees the balancer as any choice among the
routable backends, which `Balancer` makes definite per policy; the limiter as one
atomic step, whose two locks are taken apart in `RateBuckets`; and the forwarded
call as one step with an outcome, whose goroutines are in `Forwarding`. The
transitions that `BackendHealth` announces are the events of `Notifier`.
`Catalog` extends `ModelNames` and decides what `Gateway`'s `Validate` and `Lookup`
are told; `LogTables` extends `LogStore` and gives both the same records.

## Modules

**Gateway.** `pc[r]` is where the goroutine of request `r` stands and `rq[r]`
holds its locals. A step is one critical section of the code with the local
code around it. `Validate`, `Lookup`: the checks before admission. `Reserve`,
`CheckQuota`, `ReadLimit`, `AcquireConc`, `Delay`, `EnterQueue`, `TakeTurn`,
`LeaveQueue`, `GiveUp`, `Account`: `admit`, in its order; the key's limit is read
in a step of its own, since a patch may come before `Acquire`. `Route`,
`TakeSlot`, `LoseSlot`, `Reroute`: the choice of a backend; the JSON handler tries a second time, the
multipart handler does not. `Rebuild`, `ReportUsage`, `Finish`, `Settle`: the
call and its accounting. `ReleaseQueue`, `ReleaseConc`: the deferred releases,
in reverse order. `SetUp`, `SetServes`, `SetSlotLimit`, `SetConcLimit`,
`SetEnabled`: the admin API and the health checker. A window that expires is a
choice at each use of the meters, which covers every placing of the boundary.
A backend's limit is read and compared under the backend's lock, which the patch
of the limit does not take: the slot counts as taken at that reading.

**SlotPool** knows the holders of every slot by name. Two counters of the code
(`activeRequests`, the semaphore) implement it under the mapping in
`GatewayPools` (`BackendSlots`, `ModelSlots`). The third, `Concurrency.current`,
does not, because its limit may change between reading and counting;
`LimitsReadHold` says what holds instead.

**BackendHealth.** Several probers of one backend; a probe gets its answer,
reads the previous status, records, and tells the observers, in four steps.
Streaks are counted up to their thresholds, beyond which the code does not tell
them apart. The thresholds are constants; a patch of them (`admin.go:510`) is not
modelled. **ProbeLoops.** The table of loops, the stop channels and the admin
handlers that create, patch and delete one ID, with a step for each lock.
**KeyIndex.** One key ID, the objects handlers hold and the index by hash;
writes to a key that is shared without a lock are steps of their own. Every
issued hash is new: a raw key that the operator supplies twice (`admin.go:800`,
`admin_keys.go:174`) would let one ID take over the entry of another.

**Forwarding.** One call: the handler, the producer goroutine, the channel, the
drainer, the idle timer, the client and the backend. A line is its number and
its kind (content, comment, usage). The timer may fire at any time that it is
armed; it is reset in one step with the line before, since Go's timers deliver no
expiry of before a `Stop`. A backend answers with a success or with an error,
whose usage is not charged if it comes as a plain answer (`proxy.go:215`).

**Orchestration.** Classification by scores, the choice of workers, the stages
thinker, worker, verifier and synthesizer with their fallbacks, the retries
over backends, the slots and the charging. Prompts are vectors of keyword hits.
The configuration (pool, conductor, budget) is chosen at the start.

**RedisLimiter.** Handlers of several gateways name a counter by their own clock
and send the script or the pipeline over a connection; the server runs it, runs
part of a pipeline, or loses it; the answer comes, is lost, or the caller times
out and lets the request pass. The client library may send a command again. The
limits, the clocks' leads and the number of retries are a `setup`, chosen at the
start. Counters expire. A call and its commands last 500 ms and not longer, so
time does not pass a command by more than `MaxLate`. Histories say what was
admitted, what was counted for nobody, and what was charged.

**ClientAddress.** A request passes trusted proxies, each of which appends its
peer to `X-Forwarded-For` or adds a line with it; `ClientIP` walks back along the
first line, which is all that `Header.Get` returns, and `Middleware` checks the
key. **AdminAccess.** A login reads the user, compares a slow hash, and signs
a token that carries the role of the first step; users are created, replaced
and deleted meanwhile; a restart reads the configuration again and draws a new
secret. No user is named like one of the built-in actors, which the code does not
enforce (`admin.go:250`). **Process.** `main` from the signal through the drain
and its deferred calls, with handlers that outlive it, the tracer's queue and its exports, and
a conversation with the mail server.

**Catalog.** Starts from every configuration of a small set that `Validate`
accepts. `ListModels` is what a key is shown, `Outcome` what a request gets; the
registry, aliases, lists and backends are edited. `patchModel` is two steps,
lookup and write, since it changes the stored entry in place: an entry that was
replaced or deleted in between is `held` by the patch and stored again. What
models a backend serves is constant; the backend is stored, switched and deleted.
**LogTables.** Statements as set expressions beside the loops of the memory
store; an insert may fail, and a purge may come at any time. The databases store
and compare milliseconds, the memory store full times; rows of one millisecond
come in any order.

**Notifier.** The conversation with the mail server is one step that succeeds,
fails, or fails after the server took the mail. **Balancer.** The candidates come
in any order, as the store iterates over a Go map (`store.go:520`). These two and
**RateBuckets**, **ModelNames** and **LogStore** follow their source files
function by function. In `ModelNames` a name is a sequence of letters because the
patterns are about letters; everywhere else names are model values. In `LogStore`
a record is its number.

## What is checked

Eleven passing runs, with their bounds in the cfg files:

| Run | Question |
|---|---|
| `counts` | Does any path of the JSON handler leak a concurrency slot or a queue place or return one twice, when any check refuses and limits change; how many requests of a key run together when its limit is patched? |
| `live` | Does every request of either handler leave it and give everything back, unless a stream never ends; is no slot leaked and no limit of a backend or the queue exceeded, while the backend's limit is patched? |
| `meters` | Is every request charged once, by its usage or by the estimate; do the request caps hold while windows expire; by how much can the monthly quota be exceeded? |
| `admission` | Do the day's limits survive the two locks and the collector; do limits in Redis hold for several gateways over a network that loses and delays, and is a refusal due; is the sender recognised behind proxies; how old may a role be, and is a logout final? |
| `health` | Do status and streaks agree, do the metric and the announcements follow the status, and does it converge? |
| `loops` | Is any probe loop lost, closed twice, or left running? |
| `keys` | Is a listed key always found, and, without overlap, nothing else? |
| `forward` | Is a stream relayed exactly, and do Forward and its goroutines end? |
| `orchestration` | Do slots, tokens, access lists, budget and outcome hold whatever calls fail, and is every request answered? |
| `lifecycle` | Does the cooldown hold after a mail that was reported as sent, does only such a mail silence; is every span exported once, shed, or left by a late handler; does the shutdown end? |
| `services` | Are the balancer's shares exact in a stable order, drained backends left out, loads respected and pins kept; do the alias walk and the greedy matcher compute what they should; do the list of models and the lookup agree, and does a valid configuration serve what it names; does eviction keep the latest records, are pages complete, and do the databases answer as the memory store does, to the millisecond? |

`counts` has three requests of the JSON handler, `live` two requests, streams and
uploads, that race for a slot; the exact count of slots is checked in `live` and
proved in general. The type
invariants of `Gateway`, `BackendHealth`, `ProbeLoops` and `KeyIndex` are theorems of
their own; those of the other modules are conjuncts of the properties that the
runs check, and proved with them for `Forwarding`, `Orchestration`, `AdminAccess`,
`RateBuckets`, `RedisLimiter`, `Notifier` and `Process`.
A property of an instance in `MCServices` is stated for the behaviours in which
its component moves.

Bounds. Two or three requests suffice for a race: one holds, one waits, one is
refused. Limits of one and two make every counter reach its limit and leave it.
A queue that runs two and counts one more fills with three requests. The
balancer takes eight turns, with two orders of three backends, so that two full
turns of the weights are seen, and four sticky calls with every order of one to
three candidates, in which a pinned backend goes and comes back.
`Forwarding` has more lines than places in the channel, so that the producer
blocks. `RateBuckets` runs over two midnights with minutes of two ticks.
`Notifier` runs for longer than a cooldown, with one mail that is doubtful. `Orchestration` has a budget that the four
stages fill and one that three fill, a worker that may not see every request,
and a configuration in which no worker is eligible. `ModelNames` has all tables
of three aliases over four names, with a hop limit of two so that chains pass
it, and all patterns of up to three symbols. `Catalog` has a backend's model, an
alias and a virtual model, whose three names may collide in every way that
validation allows; patches are explored on one model with every field of the
body present or absent. `RedisLimiter` has three setups: one request per minute
with clocks a tick apart and one retry, two requests per day over the end of a
day, and one token per minute or day with a pipeline that is cut and sent again.
Two commands are under way at most, and a command may be as late as a minute,
which is enough to name a minute that is over. `AdminAccess` runs for three
times the ttl with one restart. `ClientAddress` has two clients, two proxies and
two entries that the sender wrote, in one line or two. `Process` has three requests and a queue of
two spans, so that it is halved. `LogStore` puts six records through a store of
three; `LogTables` five, two to a millisecond, through a retention of two. Symmetry is used in safety
runs only. Deadlock is checked, except in `meters`, which ends when the bound on
requests is reached, and in `keys`, where stale entries may use up the finite
supply of hashes.

Fairness. A goroutine that can step eventually does (weak fairness of each
handler, loop and stream goroutine): the Go scheduler is preemptive and every
wait of admission has a timer. Timers fire. A plain upstream call has a deadline.
The call of a stream has none: `FairSpec` of `Gateway` does not make it end
(`Unbounded`), and `RequestsEnd` excepts a request that stays in it for ever. In
`Forwarding` the lines are finitely many and the idle timer ends a silent stream;
a plain answer to a stream request has neither timer, and `ForwardEnds` excepts
it. That an answer is written rests on a client that reads it: the server sets no
`WriteTimeout` (`main.go:300`). The probe loop has a ticker. In `Notifier` a stop is seen because `select` chooses
at random among ready cases (strong fairness of `Exit`); the mail server is not
assumed to answer, so `ShutdownReturns` is conditional on it. In `Process` the
drain and every export have a timeout; handlers need not end.

## Where code and documents differ

The run `maintenance_claim` states what `store.go:85` says, "Maintenance is set
via the admin API and persists until cleared", and TLC refutes it: the trace is a
probe that the backend answers with a 4xx and whose result is recorded after the
backend went into maintenance, where `MarkDegraded` (`store.go:76`) sets the
status whatever it was. Probes go on during maintenance and do the same, and
`RecordHealthCheck` ends it when a threshold is reached (`store.go:121`).

Other differences were met while modelling. The modules contain the behaviour,
and the properties are stated so as to allow it; each is at the line given.

| Line | The code |
|---|---|
| `handlers.go:759` | checks the monthly quota, "the hard cap" (737), and counts it (806) in separate steps; `QuotaOvershootBounded` says by how much it is exceeded |
| `handlers.go:767` | reads a key's limit before it counts the request, so a limit that is patched in between (`admin_keys.go:100`) may be exceeded; `LimitsReadHold` says by how many requests at most |
| `queue.go:78` | refuses with `queue_full` while the semaphore has room, since callers that need not wait are counted |
| `handlers.go:364` | answers `no_healthy_backend` when healthy backends are full |
| `audio.go:118` | answers `backend_at_capacity` while another backend has room |
| `handlers.go:355` | counts a quota rejection a second time in the metric |
| `handlers.go:321` | routes a queued request of a model that was disabled meanwhile |
| `health.go:337` | may announce two changes in the order opposite to their recording, so `ObserversFollow` is about the loop alone |
| `health.go:336` | may read a stale previous status, so that a recovery is announced as no change, or as one from `disabled` |
| `admin.go:533` | leaves a deleted backend probed if a create overlaps the delete, so `DeleteEndsProbing` is about requests one at a time |
| `health.go:95` | leaves the old object probed when a backend is created over its ID |
| `admin_keys.go:180` | lets a patch bring back the hash that an overlapping rotation removed, so `SequentialIndexIsExact` is about requests one at a time |
| `proxy.go:135` | returns 500 without writing it when the request cannot be built, the exception in `StatusIsWritten` |
| `proxy.go:123` | waits without a timer on a plain answer to a stream request, the exception in `ForwardEnds` |
| `conductor.go:149` | may verify a draft with the same model under another worker ID |
| `proxy.go:215` | reports the usage of a plain answer for a 2xx status only, but that of a stream whatever its status (`UsageReportedOnce`) |
| `balancer.go:63` | records no pin for an only candidate, although `src/README.md:320` says that the first request pins: a key that such a call sent elsewhere goes back to its pinned backend, so `StickyStays` is about calls with several candidates |
| `balancer.go:74` | takes turns in a list that comes in the order of a Go map (`store.go:520`), which changes from call to call: shares and evenness (`WeightedShares`, `RoundRobinIsEven`) hold as long as the order is the same |
| `balancer.go:110` | hashes into the same list |
| `clientip.go:69` | reads the first line of `X-Forwarded-For` only, so `SendersAreKnown` is about proxies that append to one line |
| `notify.go:324` | returns an error of `Quit` or `Close` after the server took the mail, so that it may be mailed again within the cooldown; `MailIsLimited` is about mails that were reported as sent |
| `ratelimit.go:68` | may drop a limiter bucket that a handler holds, the exception in `BucketKeepsTheDay` |
| `redis.go:79` | counts a request for nobody if its answer is lost and it is sent again or passes unanswered, and adds tokens again if a pipeline is repeated; `RefusedOnlyAtLimit` counts both |
| `session.go:56` | lets a token live on when its user is deleted or demoted; `RolesAreRecent` says for how long |
| `handlers.go:137` | lists a model whose name is also an alias although a request for it resolves as the alias, the exception in `NamesMeanWhatTheySay` (`ListedIsAllowed`) |
| `handlers.go:160` | hides an alias of a disabled name that itself leads on to a model or is virtual, while requests for it are served (`ServedIsListed`) |
| `handlers.go:292` | does not look at the registry's switch of a virtual model |
| `admin_models.go:51` | keeps the fields that a patch set before it is refused, and restores an entry that was replaced or deleted during the patch, its switch included, although line 25 says that properties left unset remain unchanged |
| `sqlite.go:120` | stores milliseconds where the memory store compares full times (`logstore.go:201`), so that statistics from a time within a millisecond differ, and orders by them alone (184), so that pages may come apart within one (`DriversAgree`) |
| `logstore.go:275` | does not raise a negative offset of the audit log to zero, as it does for the request log (168) |
| `sqlite.go:225` | fails `StatsSince` on a window without records, whose sums are NULL; the other stores answer zeros (`DriversAgree`) |
| `main.go:323` | drops the spans of handlers that outlive the drain (`SpansAreAccounted`) |

## What is proved

All theorems hold for every value of the constants under the named assumptions
in the modules (`LimitsAssumption`, `SetsAssumption`, `QueueAssumption`,
`LoopsAssumption`, `KeysAssumption`, `HealthAssumption`, `ForwardingAssumption`,
`PoolAssumption`, `NumbersAssumption`, `AccessAssumption`, `LimiterAssumption`,
`AddressAssumption`, `RedisAssumption`, `NotifierAssumption`, `ProcessAssumption`):
finite requests, natural limits, positive queue sizes and thresholds, which the
code's defaults and validation guarantee. `RedisAssumption` also says that the
lead of a clock and the delay of a command are together at most a day, which the
timeout of 500 ms leaves to the clocks. TLC evaluates the assumptions on every
run.

| Theorem | Property that a run checks |
|---|---|
| `GatewayProofs`: `SlotsAreCounted`, `ConcurrencyIsCounted`, `QueueHolds` | `SlotAccounting`, `ConcAccounting`, `QueueIsExact` |
| `GatewayProofs`: `RateWindowsHold`, `QuotaOvershoot`, `TokensAreAccounted` | `RateWindowHolds`, `QuotaOvershootBounded`, `TokenAccounting` |
| `GatewayProofs`: `LimitsAreKept` | `LimitsReadHold` |
| `GatewayPoolProofs`: `SlotsArePools` | `SlotsImplementPools` |
| `AdminProofs`: `StatusIsEarned`, `ObserversAreInformed` | `StatusFollowsStreaks`, `ObserversFollow` |
| `AdminProofs`: `NoLoopIsLost`, `NoDoubleClose`, `DeletedIsForgotten` | `EveryLoopCanBeStopped`, `ChannelsAreClosedOnce`, `DeleteEndsProbing` |
| `AdminProofs`: `ListedKeysWork`, `IndexHasNoLeftovers` | `ListedKeyIsIndexed`, `SequentialIndexIsExact` |
| `ForwardingProofs`: `RelayIsSafe`, `EndedStreamsAreComplete`, `ReturnedStatusIsWritten` | `RelaySafety`, `EndOfStreamMeansComplete`, `StatusIsWritten` |
| `OrchestrationProofs`: `EveryCallIsAccounted`, `DraftsDecide`, `StagesGoToTheEligible` | `CallsAreAccounted`, `DraftDecides`, `WorkersAreEligible` |
| `AdmissionProofs`: `AdminRolesAreRecent`, `LogoutsAreFinal`, `BucketsKeepTheDay` | `RolesAreRecent`, `LogoutIsFinal`, `BucketKeepsTheDay` |
| `AdmissionProofs`: `AddressesAreTheSenders` | `SendersAreKnown` |
| `RedisProofs`: `SharedCaps`, `RefusalsAreDue` | `SharedCapsHold`, `RefusedOnlyAtLimit` |
| `LifecycleProofs`: `MailsAreLimited`, `SilencedByMail`, `SpansAreKept` | `MailIsLimited`, `SilencedOnlyByMail`, `SpansAreAccounted` |

The arguments:

* `GatewayProofs`. The invariant `Inv` is the conjunction of types,
  `HandlerShape`, the three counts and the bounds of the queue. The counts are not
  inductive alone: that a release gives back what was taken needs to know which
  steps hold what (`HandlerShape`: only a request with a key passes the key's
  checks, no limit is known before it is read, a request past routing has a
  backend, the queue's steps need a queue).
  Each action is first reduced to its effect (who moves, from where to where,
  which locals it keeps) by tables; a few lemmas on sets of holders then give
  the new cardinality.
  `QuotaOvershoot` adds to the count of the month the requests that passed the
  check and are not yet counted: a check succeeds only below the quota, when at
  most the other requests are in between. `TokensAreAccounted` compares a counter
  with the number of tokens in the set of all charges; `TokenInv` adds that this
  set is finite, and that only a handler whose call has returned knows of a
  success, without which an estimate could be charged before the usage.
  `LimitsAreKept` is inductive beside `Inv`: the request that is counted last read
  a limit above the count, which is exact, and a subset without it was there
  before.
* `GatewayPoolProofs`. `SlotsArePools` joins the refinements of `SlotPool` by the
  slots of a backend and by the turns of the queue. Under the mapping each step takes, returns or resizes one slot or
  changes nothing. `Inv` is needed for the guard of `Acquire`: the code compares a
  counter with the limit, the pool the number of holders, and the two agree
  because the count is exact. That slots come back (`RequestsEnd`) needs fairness
  and is model-checked.
* `AdminProofs`, status. `StatusIsEarned` is inductive given the types;
  `FailingGetsNoTraffic` follows from it, as neither unhealthy nor maintenance is
  routable. `ObserversAreInformed` needs `LoopAnnounces`: the previous status the
  loop read is still the status when it records, and what it tells is what it
  recorded, because nobody else records in between.
* `AdminProofs`, loops. One invariant, since a loop leaves the table exactly when
  one handler becomes the one to close it. For requests one at a time,
  `OneAtATime` adds that a handler with an object works for a stored backend, and
  that a deleted backend has a loop only until its handler reaches
  `RemoveBackend`.
* `AdminProofs`, keys. The listed key may be without a hash only while a rotation
  is about to issue one. For requests one at a time, `KeysOneAtATime` adds that a
  handler works on the listed key until a rotation has taken it out.
* `ForwardingProofs`. `Inv` follows a line through the pipeline: the k-th message
  in the channel carries the line k after the last one written, the producer's
  next message the one after those, and only the last message carries an error
  (`Pipeline`); an end of stream in the channel means that all lines were read
  (`Errors`). Order, completeness and the first usage block follow.
* `OrchestrationProofs`. A step concerns one request's record, the counters of
  the slots and what the admin API and the health checker flip. So `Inv` is one
  predicate `Good` of each request, and the exact count of slots. `Good` says what
  `Handle` has established where it stands: what is left of the chain of stages,
  that the calls made and the stages left fit the budget, that a draft exists
  exactly when a later stage is next, and to whom each stage went. That the best
  of a set of candidates exists is shown with the well-foundedness of the
  naturals (`LeastNatural`, `BestIsOne`).
* `AdmissionProofs`, sessions. The invariant `Recent` adds that a token expires
  within the ttl and a login of when its user last had its role, and that a login
  or a request under way found the role when it began. `Numbered` adds that a
  token that was logged out is in the revoked list or was signed with an earlier
  secret.
* `AdmissionProofs`, limiter. Until the collector drops a bucket between a
  handler's two locks, the bucket in the map has counted everything (`Exact`).
  After that, each handler that still holds a dropped bucket may admit one
  request more (`Overshoot`), and no second bucket is dropped on that day, since
  the new one is about to be used or has counters (`InUse`): a new bucket has an
  empty minute and an empty day, so its first request is admitted. Without
  `InUse` the excess would not be bounded by the number of handlers.

* `AdmissionProofs`, addresses. Behind proxies the sender's address is in the
  header and only trusted ones follow it (`Traced`), or the sender is the peer, as
  long as the proxies append to the one line that is read; so
  the last address that is not trusted is the sender's.
* `RedisProofs`. `CallInv` says where calls and commands stand together: a command
  that has somebody to answer to carries the name its caller computed, that name
  is of a minute that has begun by some clock, and no command is later than
  `MaxLate`. `AdmitInv` has, for each minute, that the admissions the counter has
  forgotten are sixty seconds old and that the counter outlives the others, and
  for each day that the counter is exact until no command can name the day, which
  holds because 48 hours outlast the rest of the day and what is late. `TokenInv`
  bounds what pipelines under way may still charge: those that have charged the
  minute and not the day, those that have charged nothing, and the retries left.
* `LifecycleProofs`, mails. `MailInv`: `lastSent` has the latest mail of each key
  that `Send` reported and nothing else, and while a mail is under way its key has
  rested for the cooldown, since `run` is the only one to mail.
* `LifecycleProofs`, spans. `ProcInv`: every span that ended is exported, in the
  batch, in the queue or shed; these places are in the order in which spans pass
  them (`Ordered`); and from the last flush on the goroutine is gone and only late
  spans wait (`Shutdown`).

Only model-checked:

* everything under fairness (`RequestsEnd`, `ForwardEnds`, `EveryRequestIsAnswered`,
  `EveryLoopEnds`, `StatusConverges`, `ShutdownReturns`), which the prover does not
  handle;
* what the folds and recursive functions of `Balancer`, `ModelNames`, `Catalog`,
  `LogStore` and `LogTables` compute (`ChoicesFollowPolicy`,
  `NamesMeanWhatTheySay`, `LogsAreKept`), which would need induction over data;
* `StickyStays`, which is about the same modules as the folds above: the provers
  do not get through the context of those modules.

## What is not modelled

* The text of requests, answers, prompts, headers, mails and log lines, and the
  parsing of bodies, addresses and the configuration file: abstracted to what
  the properties tell apart. Prices and costs have no property.
* Counters and histograms of `metrics`, other than the backend gauge and the
  quota counter, and `logging`: output that nothing reads.
* The web console (static files), the example backend, the health-check command
  of `main`, and the building of the components at the start.
* The audit log, whose statements and loops are those of the request log, but
  for the clamp of a negative offset.
* Patches of a backend's thresholds and models, and hashes that two keys share.
* `Rescan` of the health checker, which is called nowhere, and the daily counters
  of `quota`, whose only caller passes limits of zero.
* The usage totals of a key, which are shown and not enforced.
* Replay of an orchestrated answer as a stream: one writer, no concurrency. The
  admission of orchestrated requests is that of `Gateway` and is not repeated.
* `RateBuckets` has no tokens per minute; `Gateway` has all four dimensions.
* A backend or key that a handler stores again after another one deleted it
  (`admin.go:463`) is a behaviour of `ProbeLoops` and `KeyIndex`; no document says
  which of the two requests wins, so no property does.

## What could follow

1. Admission composed with `Orchestration`, and `BackendHealth` with `Notifier`,
   so that a change of status is followed to the mail.
2. A proof of `StickyStays`, after the part of `Balancer` that holds state is
   separated from the functions it computes.
