---------------------------- MODULE Orchestration ----------------------------
(***************************************************************************)
(* The orchestrator: requests for the virtual models are classified and    *)
(* answered by one worker (the router) or by a bounded chain of thinker,   *)
(* worker, verifier and synthesizer calls (the conductor).  Each call      *)
(* picks a backend of the worker's model and takes one of its slots, in    *)
(* competition with the other requests.                                    *)
(*                                                                         *)
(* Scores, strengths and costs are in tenths.  A completion's text is only *)
(* empty or not.                                                           *)
(***************************************************************************)
EXTENDS Integers, Sequences, FiniteSets

CONSTANTS
    Requests,
    Inputs,          \* requests to consider: [virtual, prompt, level], where the
                     \* prompt is [code, reasoning, han], the signals found and
                     \* the tenths of Han runes, and level the secret level
    Configs,         \* configurations: [pool, conductor, steps] as below
    CostPenalty,
    Threshold,       \* confidence_threshold in tenths
    Backends,        \* backend -> its model
    Limit,           \* max_concurrent_requests of every backend
    Usages,          \* token counts that a completion may report
    Estimate,        \* the estimate charged when none is reported
    Flapping,        \* backends that go up and down
    Switchable,      \* models that the registry enables and disables
    NoBackend

\* config.validate: a pool, and at most five steps.
ASSUME PoolAssumption ==
    /\ \A c \in Configs : Len(c.pool) > 0 /\ c.conductor \in BOOLEAN /\ c.steps \in 0 .. 5
    /\ NoBackend \notin DOMAIN Backends /\ Limit \in Nat \ {0} /\ Estimate \in Nat \ {0}

\* The numbers of a configuration are numbers, and only known backends flap.
ASSUME NumbersAssumption ==
    /\ \A c \in Configs : Len(c.pool) \in Nat
    /\ \A c \in Configs : \A w \in 1 .. Len(c.pool) :
          c.pool[w].strength \in Int /\ c.pool[w].cost \in Int
    /\ CostPenalty \in Int /\ Usages \subseteq Nat /\ Flapping \subseteq DOMAIN Backends
    /\ IsFiniteSet(Requests)

VARIABLES
    conf,     \* the configuration: never changes
    pc,       \* [Requests -> Steps]
    rq,       \* [Requests -> the request]
    st,       \* [Requests -> the state of Handle]
    active,   \* [Backends -> Nat]: slots taken
    up,       \* backends whose status is routable
    enabled   \* models enabled in the registry

vars == <<conf, pc, rq, st, active, up, enabled>>

Pool         == conf.pool        \* the workers, in order
HasConductor == conf.conductor   \* whether conductor_model is configured
MaxSteps     == conf.steps       \* max_steps

Workers == 1 .. Len(Pool)
Models  == {Pool[w].model : w \in Workers}

NoWorker == 0
Fresh == [stages |-> << >>, solver |-> NoWorker, worker |-> NoWorker, tries |-> 0,
          backend |-> NoBackend, steps |-> << >>, calls |-> 0, critique |-> FALSE,
          tokens |-> 0, charged |-> 0, result |-> "none"]

Init ==
    /\ conf \in Configs
    /\ pc = [r \in Requests |-> "handle"]
    /\ rq \in [Requests -> {q \in Inputs : q.virtual = "conductor" => HasConductor}]
    /\ st = [r \in Requests |-> Fresh]
    /\ active = [b \in DOMAIN Backends |-> 0]
    /\ up = DOMAIN Backends
    /\ enabled = Models

-----------------------------------------------------------------------------
(* Classification and selection *)

\* classify: the mass of each task; Han text counts once it passes a fifth.
Score(p, task) ==
    CASE task = "code"      -> 10 * p.code
      [] task = "reasoning" -> 10 * p.reasoning
      [] task = "zh"        -> IF p.han > 2 THEN 10 + 3 * p.han ELSE 0
      [] task = "general"   -> 10

TaskOrder == << "code", "reasoning", "zh", "general" >>

\* The first task, in the fixed order, of the largest mass.
Task(p) ==
    LET Beats(i, j) == \/ Score(p, TaskOrder[i]) > Score(p, TaskOrder[j])
                       \/ Score(p, TaskOrder[i]) = Score(p, TaskOrder[j]) /\ i <= j
    IN  TaskOrder[CHOOSE i \in 1 .. 4 : \A j \in 1 .. 4 : Beats(i, j)]

Mass(p) == Score(p, "code") + Score(p, "reasoning") + Score(p, "zh") + Score(p, "general")

\* The task's share of the mass reaches the threshold.
Confident(p) == 10 * Score(p, Task(p)) >= Threshold * Mass(p)

\* Mutant: the level is compared the wrong way round.
EligibleSwapped(level) == {w \in Workers : Pool[w].secret = 0 \/ level >= Pool[w].secret}

\* eligibleWorkers; a negative level is clamped to 0, which admits the same
\* workers.
Eligible(level) == {w \in Workers : Pool[w].secret = 0 \/ level <= Pool[w].secret}

\* The first worker of a nonempty set with the highest score.
Best(ws, s) == CHOOSE w \in ws : \A v \in ws : s[w] > s[v] \/ (s[w] = s[v] /\ w <= v)

Strength(w) == IF Pool[w].strength = 0 THEN 5 ELSE Pool[w].strength

\* selectWorker
SelectWorker(task, ws) ==
    Best(ws, [w \in ws |->
        Strength(w) - CostPenalty * Pool[w].cost + IF task \in Pool[w].tasks THEN 10 ELSE 0])

\* strongestWorker
Strongest(ws) == Best(ws, [w \in ws |-> Strength(w)])

\* Mutant: the producer may verify itself.
SelectVerifierAny(producer, ws) ==
    Best(ws, [w \in ws |-> Strength(w) + IF "verify" \in Pool[w].tasks THEN 10 ELSE 0])

\* selectVerifier: another worker than the producer, if there is one.
SelectVerifier(producer, ws) ==
    IF ws = {producer} THEN producer ELSE
    Best(ws \ {producer},
         [w \in ws |-> Strength(w) + IF "verify" \in Pool[w].tasks THEN 10 ELSE 0])

\* runConductor: the stages that fit the budget.
Stages(budget) ==
    (IF budget >= 4 \/ budget = 2 THEN << "thinker" >> ELSE << >>) \o << "worker" >>
    \o (IF budget >= 3 THEN << "verifier", "synthesizer" >> ELSE << >>)

Budget == IF MaxSteps <= 0 THEN 5 ELSE MaxSteps

\* The worker of a stage.
WorkerFor(role, solver, ws) ==
    CASE role = "thinker"  -> SelectWorker("reasoning", ws)
      [] role = "verifier" -> SelectVerifier(solver, ws)
      [] OTHER             -> solver

-----------------------------------------------------------------------------
(* Handle *)

Set(r, step, s) == pc' = [pc EXCEPT ![r] = step] /\ st' = [st EXCEPT ![r] = s]

\* Mutant: a failed request is not charged.
ChargeSuccess(s, ok) == IF ~ok THEN 0 ELSE IF s.tokens = 0 THEN Estimate ELSE s.tokens

\* serveOrchestration after Handle: what the key is charged.  The router
\* returns no result with an error, so nothing; the conductor the tokens of
\* the steps done; a success without token counts, the estimate.
Charge(s, ok) == IF ok /\ s.tokens = 0 THEN Estimate ELSE s.tokens

\* The answer or the error is written.
Finish(r, s, ok) ==
    Set(r, "done", [s EXCEPT !.charged = Charge(s, ok), !.result = IF ok THEN "ok" ELSE "failed",
                             !.worker = NoWorker, !.backend = NoBackend, !.tries = 0])

\* Begin a stage: choose its worker.
Begin(r, s, stages) ==
    Set(r, "pick", [s EXCEPT !.stages = stages, !.tries = 0, !.backend = NoBackend,
                             !.worker = WorkerFor(Head(stages), s.solver, Eligible(rq[r].level))])

\* Handle: parse, filter the pool, classify, choose the tier.
Handle(r) ==
    /\ pc[r] = "handle"
    /\ LET ws   == Eligible(rq[r].level)
           p    == rq[r].prompt
           best == SelectWorker(Task(p), ws)
       IN  \/ Finish(r, st[r], FALSE)                             \* no messages
           \/ ws = {} /\ Finish(r, st[r], FALSE)
           \/ /\ ws # {}
              /\ \/ /\ rq[r].virtual = "conductor" \/ (~Confident(p) /\ HasConductor)
                    /\ Begin(r, [st[r] EXCEPT !.solver = best], Stages(Budget))
                 \/ /\ rq[r].virtual = "router" /\ Confident(p)
                    /\ Begin(r, [st[r] EXCEPT !.solver = best], << "route" >>)
                 \/ /\ rq[r].virtual = "router" /\ ~Confident(p) /\ ~HasConductor
                    /\ Begin(r, [st[r] EXCEPT !.solver = Strongest(ws)], << "route" >>)
    /\ UNCHANGED <<conf, rq, active, up, enabled>>

-----------------------------------------------------------------------------
(* callWorker *)

\* Mutant: an error of the verifier fails the request.
FailedFatal(r, s) == Finish(r, s, FALSE)

\* The call failed: the request does, unless it already has a draft.
Failed(r, s) == Finish(r, s, Head(s.stages) \in {"verifier", "synthesizer"})

\* Mutant: an unroutable model is waited for.
PickWaits(r) ==
    /\ pc[r] = "pick"
    /\ LET m == Pool[st[r].worker].model
       IN  /\ m \in enabled
           /\ \E b \in up : Backends[b] = m /\ active[b] < Limit
                             /\ Set(r, "acquire", [st[r] EXCEPT !.backend = b])
    /\ UNCHANGED <<conf, rq, active, up, enabled>>

\* pickBackend: the kill switch, then one of the routable backends with room.
Pick(r) ==
    /\ pc[r] = "pick"
    /\ LET m     == Pool[st[r].worker].model
           ready == {b \in up : Backends[b] = m /\ active[b] < Limit}
       IN  \/ (m \notin enabled \/ ready = {}) /\ Failed(r, st[r])
           \/ /\ m \in enabled
              /\ \E b \in ready : Set(r, "acquire", [st[r] EXCEPT !.backend = b])
    /\ UNCHANGED <<conf, rq, active, up, enabled>>

\* AcquireSlot: a lost race is tried again, three times in all.
Acquire(r) ==
    /\ pc[r] = "acquire"
    /\ LET s == st[r]
       IN  \/ /\ active[s.backend] < Limit
              /\ active' = [active EXCEPT ![s.backend] = @ + 1]
              /\ Set(r, "call", [s EXCEPT !.calls = @ + 1])
           \/ /\ active[s.backend] >= Limit
              /\ IF s.tries < 2 THEN Set(r, "pick", [s EXCEPT !.tries = @ + 1, !.backend = NoBackend])
                 ELSE Failed(r, s)
              /\ UNCHANGED active
    /\ UNCHANGED <<conf, rq, up, enabled>>

\* What follows a completion: the next stage, which is the synthesizer only
\* if there is a critique to fold in, or the answer.
Advance(r, s) ==
    LET rest == Tail(s.stages)
    IN  IF rest = << >> \/ (Head(rest) = "synthesizer" /\ ~s.critique)
        THEN Finish(r, s, TRUE) ELSE Begin(r, s, rest)

\* Mutant: the slot comes back with good completions only.
CallKeeps(r) ==
    /\ pc[r] = "call"
    /\ LET s    == st[r]
           role == Head(s.stages)
       IN  \/ Failed(r, s) /\ UNCHANGED active
           \/ /\ active' = [active EXCEPT ![s.backend] = @ - 1]
              /\ \E text \in BOOLEAN, u \in Usages :
                    Advance(r, [s EXCEPT !.steps = Append(@, [role |-> role, worker |-> s.worker]),
                                         !.tokens = @ + u,
                                         !.critique = @ \/ (role = "verifier" /\ text)])
    /\ UNCHANGED <<conf, rq, up, enabled>>

\* The request to the backend and its response: an error of any kind, or a
\* completion with or without text and some usage.  The slot comes back.
Call(r) ==
    /\ pc[r] = "call"
    /\ active' = [active EXCEPT ![st[r].backend] = @ - 1]
    /\ LET s    == st[r]
           role == Head(s.stages)
       IN  \/ Failed(r, s)
           \/ \E text \in BOOLEAN, u \in Usages :
                 Advance(r, [s EXCEPT !.steps = Append(@, [role |-> role, worker |-> s.worker]),
                                      !.tokens = @ + u,
                                      !.critique = @ \/ (role = "verifier" /\ text)])
    /\ UNCHANGED <<conf, rq, up, enabled>>

-----------------------------------------------------------------------------
(* The health checker and the admin API *)

SetUp(b) ==
    /\ up' = IF b \in up THEN up \ {b} ELSE up \cup {b}
    /\ UNCHANGED <<conf, pc, rq, st, active, enabled>>

SetEnabled(m) ==
    /\ enabled' = IF m \in enabled THEN enabled \ {m} ELSE enabled \cup {m}
    /\ UNCHANGED <<conf, pc, rq, st, active, up>>

Done == (\A r \in Requests : pc[r] = "done") /\ UNCHANGED vars

Step(r) == Handle(r) \/ Pick(r) \/ Acquire(r) \/ Call(r)

Next == \/ \E r \in Requests : Step(r)
        \/ \E b \in Flapping : SetUp(b)
        \/ \E m \in Switchable : SetEnabled(m)
        \/ Done

Spec == Init /\ [][Next]_vars

\* Handlers go on, and a backend call ends: it has a deadline.
FairSpec == Spec /\ \A r \in Requests : WF_vars(Step(r))

-----------------------------------------------------------------------------
(* Properties *)

Roles == {"route", "thinker", "worker", "verifier", "synthesizer"}

\* Every variable has its type.
TypeOK ==
    /\ pc \in [Requests -> {"handle", "pick", "acquire", "call", "done"}]
    /\ \A r \in Requests :
          /\ st[r].worker \in Workers \cup {NoWorker}
          /\ st[r].backend \in DOMAIN Backends \cup {NoBackend}
          /\ st[r].tries \in 0 .. 2
          /\ st[r].steps \in Seq([role : Roles, worker : Workers])
          /\ st[r].tokens \in Nat /\ st[r].charged \in Nat
    /\ active \in [DOMAIN Backends -> 0 .. Limit]
    /\ up \in SUBSET DOMAIN Backends /\ enabled \in SUBSET (Models \cup Switchable)

\* Every slot that is taken belongs to a call in progress, also after errors
\* in any stage.
CallsHoldSlots ==
    \A b \in DOMAIN Backends :
        active[b] = Cardinality({r \in Requests : pc[r] = "call" /\ st[r].backend = b})

\* The conductor makes at most max_steps worker calls, failed ones included.
BudgetHolds == \A r \in Requests : st[r].calls <= Budget

\* No stage of a request is given to a worker whose access list excludes the
\* request's secret level.
AccessListHolds ==
    \A r \in Requests :
        pc[r] = "call" => \/ Pool[st[r].worker].secret = 0
                          \/ rq[r].level <= Pool[st[r].worker].secret

HasStep(r, role) == \E i \in 1 .. Len(st[r].steps) : st[r].steps[i].role = role

\* Once a draft or a routed answer exists the request succeeds, whatever the
\* later stages do; without one it fails.
DraftDecides ==
    \A r \in Requests : pc[r] = "done" =>
        (st[r].result = "ok" <=> HasStep(r, "worker") \/ HasStep(r, "route"))

\* The key pays for the tokens of all completed steps, of failed requests
\* too, and a successful request is never free.
TokensAreCharged ==
    \A r \in Requests : pc[r] = "done" =>
        /\ st[r].tokens > 0 => st[r].charged = st[r].tokens
        /\ st[r].result = "ok" => st[r].charged > 0

\* If two workers are eligible, the one that verifies a draft is not the one
\* that wrote it.
VerifierIsAnotherWorker ==
    \A r \in Requests : \A i, j \in 1 .. Len(st[r].steps) :
        /\ st[r].steps[i].role = "worker" /\ st[r].steps[j].role = "verifier"
        /\ Cardinality(Eligible(rq[r].level)) > 1
        => st[r].steps[i].worker # st[r].steps[j].worker

\* Every request is answered (FairSpec).
EveryRequestIsAnswered == \A r \in Requests : <>(pc[r] = "done")

\* Slots are held by calls in progress only, the calls of a request stay within
\* the budget, and the key pays for the tokens of all of them, whatever stage
\* fails.
CallsAreAccounted == TypeOK /\ CallsHoldSlots /\ BudgetHolds /\ TokensAreCharged

\* No worker sees what its access list excludes, and none verifies its own
\* draft if another one is eligible, whatever fallbacks are taken.
WorkersAreEligible == AccessListHolds /\ VerifierIsAnotherWorker

=============================================================================
