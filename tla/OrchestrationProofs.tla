------------------------- MODULE OrchestrationProofs -------------------------
(***************************************************************************)
(* Proofs about Orchestration, for any requests, configurations, backends  *)
(* and limits.                                                             *)
(*                                                                         *)
(* A request's steps only concern its own record, the active counters and  *)
(* what the admin API and the health checker flip, so the inductive        *)
(* invariant is one predicate Good of each request, which says what Handle *)
(* has established at every point of the chain, and the exact count of the *)
(* slots.                                                                  *)
(***************************************************************************)
EXTENDS Orchestration, FiniteSetTheorems, WellFoundedInduction, TLAPS

-----------------------------------------------------------------------------
(* The inductive invariant *)

\* The order of the stages.
Leads(x, y) == \/ x = "thinker"  /\ y = "worker"
               \/ x = "worker"   /\ y = "verifier"
               \/ x = "verifier" /\ y = "synthesizer"

\* What may be left of a chain of stages.
IsChain(c) ==
    /\ Len(c) > 0 /\ c[Len(c)] # "thinker"
    /\ \A i \in 1 .. Len(c) - 1 : Leads(c[i], c[i + 1])

StepRecords == [role : Roles, worker : Workers]

State == [stages : Seq(Roles), solver : Workers \cup {NoWorker},
          worker : Workers \cup {NoWorker}, tries : 0 .. 2,
          backend : DOMAIN Backends \cup {NoBackend}, steps : Seq(StepRecords),
          calls : Nat, critique : BOOLEAN, tokens : Nat, charged : Nat,
          result : {"none", "ok", "failed"}]

\* A draft or a routed answer exists.
Drafted(steps) == \E i \in 1 .. Len(steps) : steps[i].role \in {"worker", "route"}

\* After the draft only the verifier and the synthesizer are left.
Late == {"verifier", "synthesizer"}

\* w may verify what v wrote.
MayVerify(level, v, w) == w # v \/ Eligible(level) = {v}

\* Who takes a stage: the solver itself, or, to verify, somebody else.
Assigned(level, solver, role, w) ==
    /\ w \in Eligible(level)
    /\ role = "worker" => w = solver
    /\ role = "verifier" => MayVerify(level, solver, w)

StepsFit(level, s) ==
    \A i \in 1 .. Len(s.steps) :
        Assigned(level, s.solver, s.steps[i].role, s.steps[i].worker)

\* Between Handle's choice of a tier and the answer.
Running(level, step, s) ==
    /\ IsChain(s.stages)
    /\ s.solver \in Eligible(level)
    /\ Assigned(level, s.solver, Head(s.stages), s.worker)
    /\ Drafted(s.steps) <=> Head(s.stages) \in Late
    /\ s.calls + Len(s.stages) <= Budget + (IF step = "call" THEN 1 ELSE 0)
    /\ step \in {"acquire", "call"} => s.backend \in DOMAIN Backends

Answered(s) ==
    /\ s.result = "ok" <=> Drafted(s.steps)
    /\ s.tokens > 0 => s.charged = s.tokens
    /\ s.result = "ok" => s.charged > 0

\* What holds of a request at each point of Handle.
Good(level, step, s) ==
    /\ step \in {"handle", "pick", "acquire", "call", "done"}
    /\ s \in State
    /\ s.calls <= Budget
    /\ StepsFit(level, s)
    /\ step = "handle" => s = Fresh
    /\ step \in {"pick", "acquire", "call"} => Running(level, step, s)
    /\ step = "done" => Answered(s)

\* The inductive invariant.
Inv ==
    /\ conf \in Configs
    /\ pc = [r \in Requests |-> pc[r]] /\ st = [r \in Requests |-> st[r]]
    /\ \A r \in Requests : Good(rq[r].level, pc[r], st[r])
    /\ active \in [DOMAIN Backends -> 0 .. Limit]
    /\ up \in SUBSET DOMAIN Backends /\ enabled \in SUBSET (Models \cup Switchable)
    /\ CallsHoldSlots

-----------------------------------------------------------------------------
(* The choice of workers *)

\* A nonempty set of natural numbers has a least element.
LEMMA LeastNatural ==
    ASSUME NEW S \in SUBSET Nat, S # {}
    PROVE  \E m \in S : \A n \in S : ~(n < m)
<1>1. IsWellFoundedOn(OpToRel(<, Nat), Nat)
  BY NatLessThanWellFounded, Zenon
<1>2. PICK m \in S : \A n \in S : ~(<<n, m>> \in OpToRel(<, Nat))
  BY <1>1, WFMin, Zenon
<1>3. \A n \in S : ~(n < m)
  BY <1>2, Zenon DEF OpToRel
<1> QED BY <1>3, Zenon

\* Best is defined: a finite set of workers has a first one of the highest
\* score.
LEMMA BestIsOne ==
    ASSUME NEW n \in Nat, NEW ws \in SUBSET (1 .. n), ws # {},
           NEW s, \A w \in ws : s[w] \in Int
    PROVE  Best(ws, s) \in ws
<1> DEFINE Beats(w, v) == s[w] > s[v] \/ (s[w] = s[v] /\ w <= v)
           Has(T) == \E w \in T : \A v \in T : Beats(w, v)
           Bad == {k \in Nat : \E T \in SUBSET ws : T # {} /\ T \subseteq 1 .. k /\ ~Has(T)}
<1>1. Bad = {}
  <2> SUFFICES ASSUME Bad # {} PROVE FALSE
    BY Zenon
  <2>1. PICK k \in Bad : \A j \in Bad : ~(j < k)
    <3>1. Bad \in SUBSET Nat
      BY Zenon
    <3> HIDE DEF Bad
    <3> QED BY <3>1, LeastNatural, Zenon
  <2>2. k \in Nat
    BY Zenon
  <2>3. PICK T \in SUBSET ws : T # {} /\ T \subseteq 1 .. k /\ ~Has(T)
    BY Zenon
  <2>4. k \in T
    <3> SUFFICES ASSUME k \notin T PROVE FALSE
      BY Zenon
    <3>1. PICK t \in T : TRUE
      BY <2>3, Zenon
    <3>2. k # 0 /\ k - 1 \in Nat
      BY <2>2, <2>3, <3>1
    <3>3. ASSUME NEW u \in T PROVE u \in 1 .. (k - 1)
      <4>1. u \in 1 .. k /\ u # k
        BY <2>3, Zenon
      <4> HIDE DEF Bad
      <4> QED BY <2>2, <4>1
    <3>4. k - 1 \in Bad
      BY <2>3, <3>2, <3>3, Zenon
    <3>5. k - 1 < k
      BY <2>2
    <3> HIDE DEF Bad
    <3> QED BY <2>1, <3>4, <3>5, Zenon
  <2>5. CASE T = {k}
    <3>1. Beats(k, k)
      BY <2>2, <2>4
    <3> QED BY <2>3, <2>5, <3>1, Zenon
  <2>6. CASE T # {k}
    <3> DEFINE U == T \ {k}
    <3>1. U \in SUBSET ws /\ U # {} /\ U \subseteq 1 .. (k - 1) /\ k - 1 \in Nat
      BY <2>2, <2>3, <2>4, <2>6
    <3>2. k - 1 \notin Bad
      <4>1. k - 1 < k
        BY <2>2
      <4> HIDE DEF Bad
      <4> QED BY <2>1, <4>1, Zenon
    <3>3. Has(U)
      BY <3>1, <3>2, Zenon
    <3>4. PICK w \in U : \A v \in U : Beats(w, v)
      BY <3>3, Zenon
    <3>5. w \in Int /\ k \in Int /\ s[w] \in Int /\ s[k] \in Int /\ \A v \in U : v \in Int /\ s[v] \in Int
      BY <2>4, <3>1
    <3>6. CASE s[w] >= s[k]
      <4>1. Beats(w, k)
        BY <2>2, <3>1, <3>5, <3>6
      <4> QED BY <2>3, <3>4, <4>1, Zenon
    <3>7. CASE s[k] > s[w]
      <4>1. \A v \in U : s[w] >= s[v]
        BY <3>4, <3>5
      <4>2. \A v \in U : s[k] > s[v]
        BY <3>5, <3>7, <4>1
      <4>3. Beats(k, k)
        BY <3>5
      <4> QED BY <2>3, <2>4, <4>2, <4>3
    <3> QED BY <3>5, <3>6, <3>7
  <2> QED BY <2>5, <2>6, Zenon
<1>2. Has(ws)
  <2>1. n \notin Bad
    BY <1>1, Zenon
  <2> QED BY <2>1, Zenon
<1> QED BY <1>2, Zenon DEF Best

\* The eligible workers are workers, so each selection picks one of them.
LEMMA SelectionsAreEligible ==
    ASSUME conf \in Configs
    PROVE  /\ Workers \in SUBSET Nat
           /\ \A level : Eligible(level) \in SUBSET Workers
           /\ \A task, ws : ws \in SUBSET Workers /\ ws # {} => SelectWorker(task, ws) \in ws
           /\ \A ws : ws \in SUBSET Workers /\ ws # {} => Strongest(ws) \in ws
           /\ \A v, ws : ws \in SUBSET Workers /\ v \in ws =>
                 /\ SelectVerifier(v, ws) \in ws
                 /\ SelectVerifier(v, ws) # v \/ ws = {v}
<1>1. Len(Pool) \in Nat /\ Workers = 1 .. Len(Pool)
  BY NumbersAssumption, Zenon DEF Workers, Pool
<1>2. ASSUME NEW w \in Workers PROVE Strength(w) \in Int /\ CostPenalty * Pool[w].cost \in Int
  BY NumbersAssumption DEF Workers, Pool, Strength
<1>3. ASSUME NEW task, NEW ws \in SUBSET Workers, ws # {}
      PROVE  SelectWorker(task, ws) \in ws
  <2> DEFINE s == [w \in ws |-> Strength(w) - CostPenalty * Pool[w].cost
                                + IF task \in Pool[w].tasks THEN 10 ELSE 0]
  <2>1. \A w \in ws : s[w] \in Int
    BY <1>2
  <2>2. SelectWorker(task, ws) = Best(ws, s)
    BY Zenon DEF SelectWorker
  <2> HIDE DEF s
  <2> QED BY <1>1, <1>3, <2>1, <2>2, BestIsOne, Zenon
<1>4. ASSUME NEW ws \in SUBSET Workers, ws # {}
      PROVE  Strongest(ws) \in ws
  <2> DEFINE s == [w \in ws |-> Strength(w)]
  <2>1. \A w \in ws : s[w] \in Int
    BY <1>2, Zenon
  <2>2. Strongest(ws) = Best(ws, s)
    BY Zenon DEF Strongest
  <2> HIDE DEF s
  <2> QED BY <1>1, <1>4, <2>1, <2>2, BestIsOne, Zenon
<1>5. ASSUME NEW ws \in SUBSET Workers, NEW v \in ws
      PROVE  /\ SelectVerifier(v, ws) \in ws
             /\ SelectVerifier(v, ws) # v \/ ws = {v}
  <2> DEFINE s == [w \in ws |-> Strength(w) + IF "verify" \in Pool[w].tasks THEN 10 ELSE 0]
  <2>1. CASE ws = {v}
    BY <2>1, Zenon DEF SelectVerifier
  <2>2. CASE ws # {v}
    <3>1. \A w \in ws \ {v} : s[w] \in Int
      BY <1>2
    <3>2. SelectVerifier(v, ws) = Best(ws \ {v}, s)
      BY <2>2, Zenon DEF SelectVerifier
    <3>3. ws \ {v} # {} /\ ws \ {v} \in SUBSET Workers
      BY <2>2, Zenon
    <3> HIDE DEF s
    <3>4. Best(ws \ {v}, s) \in ws \ {v}
      BY <1>1, <3>1, <3>3, BestIsOne, Zenon
    <3> QED BY <3>2, <3>4, Zenon
  <2> QED BY <2>1, <2>2, Zenon
<1>6. \A level : Eligible(level) \in SUBSET Workers
  BY Zenon DEF Eligible
<1>7. Workers \in SUBSET Nat
  BY <1>1
<1> QED BY <1>3, <1>4, <1>5, <1>6, <1>7, Zenon

\* Each stage is given to an eligible worker, the draft to the solver and its
\* verification to another one if there is another.
LEMMA StagesAreAssigned ==
    ASSUME conf \in Configs, NEW level, NEW solver \in Eligible(level), NEW role \in Roles
    PROVE  Assigned(level, solver, role, WorkerFor(role, solver, Eligible(level)))
<1>1. Eligible(level) \in SUBSET Workers /\ Eligible(level) # {}
  BY SelectionsAreEligible, Zenon
<1>2. CASE role = "thinker"
  BY <1>1, <1>2, SelectionsAreEligible, Zenon DEF WorkerFor, Assigned
<1>3. CASE role = "verifier"
  BY <1>1, <1>3, SelectionsAreEligible, Zenon DEF WorkerFor, Assigned, MayVerify
<1>4. CASE role \notin {"thinker", "verifier"}
  BY <1>4, Zenon DEF WorkerFor, Assigned
<1> QED BY <1>2, <1>3, <1>4, Zenon

-----------------------------------------------------------------------------
(* The chain of stages *)

\* A chain without stages is the empty one.
LEMMA EmptyChain == \A c \in Seq(Roles) : c = << >> <=> Len(c) = 0
  OBVIOUS

\* How a chain goes on: a draft is followed by its verification only, and
\* only a thinker comes before it.
LEMMA ChainsGoOn ==
    ASSUME NEW c \in Seq(Roles), IsChain(c)
    PROVE  /\ Head(c) \in Roles /\ Len(c) \in Nat \ {0}
           /\ Tail(c) \in Seq(Roles)
           /\ Tail(c) = << >> \/ IsChain(Tail(c))
           /\ Len(Tail(c)) = Len(c) - 1
           /\ Head(c) = "thinker" => Tail(c) # << >> /\ Head(Tail(c)) = "worker"
           /\ Head(c) # "thinker" /\ Tail(c) # << >> => Head(Tail(c)) \in Late
<1> DEFINE t == Tail(c)
<1>1. c # << >> /\ Len(c) \in Nat \ {0} /\ Head(c) = c[1] /\ c[1] \in Roles
  BY EmptyChain DEF IsChain
<1>2. t \in Seq(Roles) /\ Len(t) = Len(c) - 1 /\ \A i \in 1 .. Len(c) - 1 : t[i] = c[i + 1]
  BY <1>1
<1> HIDE DEF t
<1>3. CASE Len(c) = 1
  <2>1. c[1] # "thinker"
    BY <1>3, Zenon DEF IsChain
  <2>2. Len(t) = 0
    BY <1>2, <1>3
  <2>3. t = << >>
    BY <1>2, <2>2, EmptyChain, Zenon
  <2> QED BY <1>1, <1>2, <2>1, <2>3, Zenon DEF t
<1>4. CASE Len(c) > 1
  <2>1. Len(t) > 0 /\ t[1] = c[2]
    BY <1>1, <1>2, <1>4
  <2>2. t # << >>
    BY <1>2, <2>1, EmptyChain
  <2>3. Head(t) = c[2]
    BY <1>2, <2>1, <2>2
  <2>4. Leads(c[1], c[2])
    BY <1>1, <1>4 DEF IsChain
  <2>5. t[Len(t)] # "thinker"
    BY <1>1, <1>2, <1>4 DEF IsChain
  <2>6. ASSUME NEW i \in 1 .. Len(t) - 1
        PROVE  Leads(t[i], t[i + 1])
    <3>1. i \in 1 .. Len(c) - 1 /\ i + 1 \in 1 .. Len(c) - 1
      BY <1>1, <1>2
    <3>2. t[i] = c[i + 1] /\ t[i + 1] = c[(i + 1) + 1]
      BY <1>2, <3>1, Zenon
    <3> QED BY <3>1, <3>2, Zenon DEF IsChain
  <2>7. IsChain(t)
    BY <2>1, <2>5, <2>6, Zenon DEF IsChain
  <2>8. /\ c[1] = "thinker" => Head(t) = "worker"
        /\ c[1] # "thinker" => Head(t) \in Late
    BY <2>3, <2>4, Zenon DEF Leads, Late
  <2> QED BY <1>1, <1>2, <2>2, <2>7, <2>8, Zenon DEF t
<1>5. Len(c) = 1 \/ Len(c) > 1
  <2>1. Len(c) \in Nat \ {0}
    BY <1>1, Zenon
  <2>2. \A n \in Nat \ {0} : n = 1 \/ n > 1
    OBVIOUS
  <2> QED BY <2>1, <2>2, Zenon
<1> QED BY <1>3, <1>4, <1>5, Zenon

\* The chain that the conductor runs fits the budget, and the one of the router
\* is a single call.
LEMMA StagesFit ==
    ASSUME conf \in Configs
    PROVE  /\ Budget \in 1 .. 5
           /\ Stages(Budget) \in Seq(Roles) /\ IsChain(Stages(Budget))
           /\ Len(Stages(Budget)) <= Budget
           /\ Head(Stages(Budget)) \in {"thinker", "worker"}
           /\ << "route" >> \in Seq(Roles) /\ IsChain(<< "route" >>)
           /\ Len(<< "route" >>) = 1 /\ Head(<< "route" >>) = "route"
<1>1. Budget \in 1 .. 5
  BY PoolAssumption DEF Budget, MaxSteps
<1>2. ASSUME NEW b \in 1 .. 5
      PROVE  /\ Stages(b) \in Seq(Roles) /\ IsChain(Stages(b))
             /\ Len(Stages(b)) <= b /\ Head(Stages(b)) \in {"thinker", "worker"}
  <2> DEFINE first == IF b >= 4 \/ b = 2 THEN << "thinker" >> ELSE << >>
             last  == IF b >= 3 THEN << "verifier", "synthesizer" >> ELSE << >>
             c     == Stages(b)
  <2>1. first \in Seq(Roles) /\ last \in Seq(Roles) /\ << "worker" >> \in Seq(Roles)
    <3>1. << "thinker" >> \in Seq(Roles) /\ << "worker" >> \in Seq(Roles) /\ << >> \in Seq(Roles)
      BY DEF Roles
    <3>2. << "verifier", "synthesizer" >> \in Seq(Roles)
      BY DEF Roles
    <3> QED BY <3>1, <3>2, Zenon
  <2>2. c = first \o << "worker" >> \o last
    BY Zenon DEF Stages
  <2>3. CASE b = 1
    <3>1. c \in Seq(Roles) /\ Len(c) = 1 /\ c[1] = "worker"
      BY <2>1, <2>2, <2>3
    <3>2. Head(c) = c[1] /\ IsChain(c)
      BY <3>1 DEF IsChain
    <3> QED BY <2>3, <3>1, <3>2
  <2>4. CASE b = 2
    <3>1. c \in Seq(Roles) /\ Len(c) = 2 /\ c[1] = "thinker" /\ c[2] = "worker"
      BY <2>1, <2>2, <2>4
    <3>2. Head(c) = c[1] /\ IsChain(c)
      BY <3>1 DEF IsChain, Leads
    <3>3. Len(c) <= b
      BY <2>4, <3>1
    <3> QED BY <3>1, <3>2, <3>3, Zenon
  <2>5. CASE b = 3
    <3>1. c \in Seq(Roles) /\ Len(c) = 3
          /\ c[1] = "worker" /\ c[2] = "verifier" /\ c[3] = "synthesizer"
      BY <2>1, <2>2, <2>5
    <3>2. Head(c) = c[1] /\ IsChain(c)
      BY <3>1 DEF IsChain, Leads
    <3> QED BY <2>5, <3>1, <3>2
  <2>6. CASE b \in {4, 5}
    <3>1. c \in Seq(Roles) /\ Len(c) = 4
          /\ c[1] = "thinker" /\ c[2] = "worker" /\ c[3] = "verifier" /\ c[4] = "synthesizer"
      BY <2>1, <2>2, <2>6
    <3>2. Head(c) = c[1] /\ IsChain(c)
      BY <3>1 DEF IsChain, Leads
    <3> QED BY <2>6, <3>1, <3>2
  <2> QED BY <2>3, <2>4, <2>5, <2>6
<1>3. << "route" >> \in Seq(Roles) /\ IsChain(<< "route" >>)
      /\ Len(<< "route" >>) = 1 /\ Head(<< "route" >>) = "route"
  BY DEF Roles, IsChain
<1> QED BY <1>1, <1>2, <1>3, Zenon

-----------------------------------------------------------------------------
(* What the steps of a request leave *)

\* A request that is answered is good if it succeeds just when it has a draft.
LEMMA FinishedIsGood ==
    ASSUME NEW level, NEW s \in State, NEW ok \in BOOLEAN,
           s.calls <= Budget, StepsFit(level, s), ok <=> Drafted(s.steps)
    PROVE  Good(level, "done",
                [s EXCEPT !.charged = Charge(s, ok), !.result = IF ok THEN "ok" ELSE "failed",
                          !.worker = NoWorker, !.backend = NoBackend, !.tries = 0])
<1> DEFINE t == [s EXCEPT !.charged = Charge(s, ok), !.result = IF ok THEN "ok" ELSE "failed",
                          !.worker = NoWorker, !.backend = NoBackend, !.tries = 0]
<1>1. s.tokens \in Nat /\ Charge(s, ok) \in Nat
  BY PoolAssumption, Zenon DEF State, Charge
<1>2. t \in State
  <2>1. 0 \in 0 .. 2
    OBVIOUS
  <2>2. ASSUME NEW c \in Nat, NEW a \in {"none", "ok", "failed"}
        PROVE  [s EXCEPT !.charged = c, !.result = a, !.worker = NoWorker,
                         !.backend = NoBackend, !.tries = 0] \in State
    BY <2>1, Zenon DEF State
  <2> QED BY <1>1, <2>2, Zenon
<1>3. /\ t.calls = s.calls /\ t.steps = s.steps /\ t.solver = s.solver /\ t.tokens = s.tokens
      /\ t.charged = Charge(s, ok) /\ t.result = (IF ok THEN "ok" ELSE "failed")
  BY Zenon DEF State
<1> HIDE DEF t
<1>4. StepsFit(level, t)
  BY <1>3, Zenon DEF StepsFit
<1>5. Answered(t)
  BY <1>1, <1>3, PoolAssumption DEF Answered, Charge
<1>6. Good(level, "done", t)
  BY <1>2, <1>3, <1>4, <1>5, Zenon DEF Good
<1> QED BY <1>6, Zenon DEF t

\* A request that begins a stage is good if the stages that are left fit the
\* budget and follow what has been done.
LEMMA BegunIsGood ==
    ASSUME conf \in Configs, NEW level, NEW s \in State,
           NEW stages \in Seq(Roles), IsChain(stages),
           s.solver \in Eligible(level), StepsFit(level, s),
           s.calls + Len(stages) <= Budget,
           Drafted(s.steps) <=> Head(stages) \in Late
    PROVE  Good(level, "pick",
                [s EXCEPT !.stages = stages, !.tries = 0, !.backend = NoBackend,
                          !.worker = WorkerFor(Head(stages), s.solver, Eligible(level))])
<1> DEFINE w == WorkerFor(Head(stages), s.solver, Eligible(level))
           t == [s EXCEPT !.stages = stages, !.tries = 0, !.backend = NoBackend, !.worker = w]
<1>1. Head(stages) \in Roles /\ Len(stages) \in Nat \ {0}
  BY ChainsGoOn, Zenon
<1>2. Assigned(level, s.solver, Head(stages), w)
  BY <1>1, StagesAreAssigned, Zenon
<1>3. w \in Workers
  BY <1>2, SelectionsAreEligible, Zenon DEF Assigned
<1> HIDE DEF w
<1>4. t \in State
  <2>1. 0 \in 0 .. 2
    OBVIOUS
  <2> QED BY <1>3, <2>1, Zenon DEF State
<1>5. /\ t.calls = s.calls /\ t.steps = s.steps /\ t.solver = s.solver
      /\ t.stages = stages /\ t.worker = w
  BY Zenon DEF State
<1> HIDE DEF t
<1>6. StepsFit(level, t)
  BY <1>5, Zenon DEF StepsFit
<1>7. Running(level, "pick", t)
  BY <1>2, <1>5, StagesFit DEF Running
<1>8. t.calls <= Budget
  <2>1. s.calls \in Nat /\ Budget \in Nat
    BY StagesFit DEF State
  <2> QED BY <1>1, <1>5, <2>1
<1>9. Good(level, "pick", t)
  BY <1>4, <1>6, <1>7, <1>8, Zenon DEF Good
<1> QED BY <1>9, Zenon DEF t, w

\* What Call makes of the record of a completed call.
Completed(s, text, u) ==
    [s EXCEPT !.steps = Append(@, [role |-> Head(s.stages), worker |-> s.worker]),
              !.tokens = @ + u,
              !.critique = @ \/ (Head(s.stages) = "verifier" /\ text)]

\* A completed call adds its step.
LEMMA CompletedFits ==
    ASSUME conf \in Configs, NEW level, NEW s \in State, StepsFit(level, s),
           Running(level, "call", s), NEW text \in BOOLEAN, NEW u \in Usages,
           NEW t, t = Completed(s, text, u)
    PROVE  /\ t \in State /\ StepsFit(level, t)
           /\ t.stages = s.stages /\ t.calls = s.calls /\ t.solver = s.solver
           /\ Drafted(t.steps) <=> Drafted(s.steps) \/ Head(s.stages) \in {"worker", "route"}
<1> DEFINE e == [role |-> Head(s.stages), worker |-> s.worker]
           more == Append(s.steps, e)
<1>1. Head(s.stages) \in Roles
  BY ChainsGoOn, Zenon DEF Running, State
<1>2. s.worker \in Workers
  BY SelectionsAreEligible, Zenon DEF Running, Assigned
<1>3. e \in StepRecords /\ e.role = Head(s.stages) /\ e.worker = s.worker
  BY <1>1, <1>2, Zenon DEF StepRecords
<1>4. s.steps \in Seq(StepRecords) /\ s.tokens + u \in Nat
  BY NumbersAssumption DEF State
<1> HIDE DEF e
<1>5. /\ more \in Seq(StepRecords) /\ Len(more) = Len(s.steps) + 1 /\ Len(s.steps) \in Nat
      /\ more[Len(more)] = e /\ \A i \in 1 .. Len(s.steps) : more[i] = s.steps[i]
  BY <1>3, <1>4
<1>6. t = [s EXCEPT !.steps = more, !.tokens = s.tokens + u,
                    !.critique = s.critique \/ (Head(s.stages) = "verifier" /\ text)]
  BY Zenon DEF e, Completed
<1> HIDE DEF more
<1>7. t \in State
  BY <1>4, <1>5, <1>6, Zenon DEF State
<1>8. t.steps = more /\ t.stages = s.stages /\ t.calls = s.calls /\ t.solver = s.solver
  BY <1>6, Zenon DEF State
<1>9. StepsFit(level, t)
  <2> SUFFICES ASSUME NEW i \in 1 .. Len(more)
               PROVE  Assigned(level, s.solver, more[i].role, more[i].worker)
    BY <1>8, Zenon DEF StepsFit
  <2>1. CASE i = Len(more)
    BY <1>3, <1>5, <2>1, Zenon DEF Running
  <2>2. CASE i # Len(more)
    BY <1>5, <2>2 DEF StepsFit
  <2> QED BY <2>1, <2>2, Zenon
<1>10. Drafted(more) <=> Drafted(s.steps) \/ Head(s.stages) \in {"worker", "route"}
  <2>1. ASSUME Drafted(more) PROVE Drafted(s.steps) \/ Head(s.stages) \in {"worker", "route"}
    <3>1. PICK i \in 1 .. Len(more) : more[i].role \in {"worker", "route"}
      BY <2>1, Zenon DEF Drafted
    <3>2. CASE i = Len(more)
      BY <1>3, <1>5, <3>1, <3>2, Zenon
    <3>3. CASE i # Len(more)
      <4>1. i \in 1 .. Len(s.steps)
        BY <1>5, <3>3
      <4> QED BY <1>5, <3>1, <4>1, Zenon DEF Drafted
    <3> QED BY <3>2, <3>3, Zenon
  <2>2. ASSUME Drafted(s.steps) PROVE Drafted(more)
    BY <1>5, <2>2 DEF Drafted
  <2>3. ASSUME Head(s.stages) \in {"worker", "route"} PROVE Drafted(more)
    BY <1>3, <1>5, <2>3 DEF Drafted
  <2> QED BY <2>1, <2>2, <2>3, Zenon
<1> QED BY <1>7, <1>8, <1>9, <1>10, Zenon

\* A step of a request leaves its record good, and takes or returns a slot just
\* when the call begins or ends.
Moves(r, step, s) ==
    /\ Set(r, step, s) /\ Good(rq[r].level, step, s)
    /\ \/ pc[r] # "call" /\ step # "call" /\ active' = active
       \/ /\ pc[r] # "call" /\ step = "call" /\ active[s.backend] < Limit
          /\ active' = [active EXCEPT ![s.backend] = @ + 1]
       \/ /\ pc[r] = "call" /\ step # "call"
          /\ active' = [active EXCEPT ![st[r].backend] = @ - 1]

\* Handle fails the request at once or begins its first stage.
LEMMA HandleMoves ==
    ASSUME Inv, NEW r \in Requests, Handle(r)
    PROVE  \E step, s : Moves(r, step, s)
<1> DEFINE level == rq[r].level
           ws    == Eligible(level)
<1>1. pc[r] = "handle" /\ st[r] = Fresh /\ st[r] \in State /\ active' = active
  BY Zenon DEF Inv, Good, Handle
<1>2. conf \in Configs /\ Budget \in 1 .. 5
  BY StagesFit, Zenon DEF Inv
<1>3. ASSUME NEW s, s \in State, s.steps = << >>
      PROVE  StepsFit(level, s) /\ ~Drafted(s.steps)
  BY <1>3 DEF StepsFit, Drafted
<1>4. ASSUME Finish(r, st[r], FALSE) PROVE \E step, s : Moves(r, step, s)
  <2>1. st[r].steps = << >> /\ st[r].calls = 0
    BY <1>1 DEF Fresh
  <2>2. StepsFit(level, st[r]) /\ ~Drafted(st[r].steps) /\ st[r].calls <= Budget
    BY <1>1, <1>2, <1>3, <2>1
  <2> DEFINE t == [st[r] EXCEPT !.charged = Charge(st[r], FALSE),
                                !.result = IF FALSE THEN "ok" ELSE "failed",
                                !.worker = NoWorker, !.backend = NoBackend, !.tries = 0]
  <2>3. Good(level, "done", t)
    BY <1>1, <2>2, FinishedIsGood, Zenon
  <2>4. Set(r, "done", t)
    BY <1>4, Zenon DEF Finish
  <2> HIDE DEF t
  <2>5. Moves(r, "done", t)
    BY <1>1, <2>3, <2>4, Zenon DEF Moves
  <2> QED BY <2>5, Zenon
<1>5. ASSUME NEW best \in ws, NEW stages \in Seq(Roles), IsChain(stages), Len(stages) <= Budget,
             Head(stages) \notin Late, Begin(r, [st[r] EXCEPT !.solver = best], stages)
      PROVE  \E step, s : Moves(r, step, s)
  <2> DEFINE s == [st[r] EXCEPT !.solver = best]
             t == [s EXCEPT !.stages = stages, !.tries = 0, !.backend = NoBackend,
                            !.worker = WorkerFor(Head(stages), s.solver, ws)]
  <2>1. best \in Workers
    BY <1>2, SelectionsAreEligible, Zenon
  <2>2. s \in State /\ s.steps = << >> /\ s.calls = 0 /\ s.solver = best
    <3>1. s \in State
      BY <1>1, <2>1, Zenon DEF State
    <3>2. s.steps = << >> /\ s.calls = 0 /\ s.solver = best
      BY <1>1 DEF Fresh
    <3> QED BY <3>1, <3>2, Zenon
  <2>3. Set(r, "pick", t)
    BY <1>5, Zenon DEF Begin
  <2> HIDE DEF s
  <2>4. StepsFit(level, s) /\ ~Drafted(s.steps)
    BY <1>3, <2>2, Zenon
  <2>5. s.calls + Len(stages) <= Budget
    BY <1>2, <1>5, <2>2
  <2>6. Good(level, "pick", t)
    BY <1>2, <1>5, <2>2, <2>4, <2>5, BegunIsGood, Zenon
  <2> HIDE DEF t
  <2>7. Moves(r, "pick", t)
    BY <1>1, <2>3, <2>6, Zenon DEF Moves
  <2> QED BY <2>7, Zenon
<1>6. ws \in SUBSET Workers
  BY <1>2, SelectionsAreEligible, Zenon
<1>7. CASE Finish(r, st[r], FALSE)
  BY <1>4, <1>7, Zenon
<1>8. CASE ws # {} /\ Begin(r, [st[r] EXCEPT !.solver = SelectWorker(Task(rq[r].prompt), ws)], Stages(Budget))
  <2>1. SelectWorker(Task(rq[r].prompt), ws) \in ws
    BY <1>2, <1>6, <1>8, SelectionsAreEligible
  <2> QED BY <1>2, <1>5, <1>8, <2>1, StagesFit, Zenon DEF Late
<1> DEFINE route == << "route" >>
<1>9. route \in Seq(Roles) /\ IsChain(route) /\ Len(route) <= Budget /\ Head(route) \notin Late
  <2>1. Len(route) = 1 /\ Head(route) = "route" /\ route \in Seq(Roles) /\ IsChain(route)
    BY <1>2, StagesFit, Zenon
  <2> HIDE DEF route
  <2> QED BY <1>2, <2>1 DEF Late
<1> HIDE DEF route
<1>10. CASE ws # {} /\ Begin(r, [st[r] EXCEPT !.solver = SelectWorker(Task(rq[r].prompt), ws)], route)
  <2>1. SelectWorker(Task(rq[r].prompt), ws) \in ws
    BY <1>2, <1>6, <1>10, SelectionsAreEligible
  <2> QED BY <1>5, <1>10, <1>9, <2>1, Zenon
<1>11. CASE ws # {} /\ Begin(r, [st[r] EXCEPT !.solver = Strongest(ws)], route)
  <2>1. Strongest(ws) \in ws
    BY <1>2, <1>6, <1>11, SelectionsAreEligible
  <2> QED BY <1>5, <1>11, <1>9, <2>1, Zenon
<1> QED BY <1>7, <1>8, <1>10, <1>11, Zenon DEF Handle, route

\* A failed call ends the request with the draft if there is one.
LEMMA FailedMoves ==
    ASSUME Inv, NEW r \in Requests, pc[r] \in {"pick", "acquire", "call"}, Failed(r, st[r]),
           IF pc[r] = "call" THEN active' = [active EXCEPT ![st[r].backend] = @ - 1]
                             ELSE active' = active
    PROVE  \E step, s : Moves(r, step, s)
<1> DEFINE s  == st[r]
           ok == Head(s.stages) \in {"verifier", "synthesizer"}
           t  == [s EXCEPT !.charged = Charge(s, ok), !.result = IF ok THEN "ok" ELSE "failed",
                           !.worker = NoWorker, !.backend = NoBackend, !.tries = 0]
<1>1. Good(rq[r].level, pc[r], s)
  BY Zenon DEF Inv
<1>2. s \in State /\ s.calls <= Budget /\ StepsFit(rq[r].level, s) /\ ok \in BOOLEAN
  BY <1>1 DEF Good
<1>3. ok <=> Drafted(s.steps)
  BY <1>1, Zenon DEF Good, Running, Late
<1>4. Set(r, "done", t)
  BY Zenon DEF Failed, Finish
<1>5. Good(rq[r].level, "done", t)
  <2> HIDE DEF s, ok
  <2> QED BY <1>2, <1>3, FinishedIsGood, Zenon
<1> HIDE DEF t
<1>6. Moves(r, "done", t)
  BY <1>4, <1>5, Zenon DEF Moves
<1> QED BY <1>6, Zenon

\* A backend with room is chosen, or the call fails.
LEMMA PickMoves ==
    ASSUME Inv, NEW r \in Requests, Pick(r)
    PROVE  \E step, s : Moves(r, step, s)
<1>1. pc[r] = "pick" /\ active' = active
  BY Zenon DEF Pick
<1>2. CASE Failed(r, st[r])
  BY <1>1, <1>2, FailedMoves, Zenon
<1>3. ASSUME NEW b \in up, Set(r, "acquire", [st[r] EXCEPT !.backend = b])
      PROVE  \E step, s : Moves(r, step, s)
  <2> DEFINE s == st[r]
             t == [s EXCEPT !.backend = b]
  <2>1. Good(rq[r].level, "pick", s) /\ b \in DOMAIN Backends
    BY <1>1, Zenon DEF Inv
  <2> HIDE DEF s
  <2>2. t \in State
    BY <2>1, Zenon DEF Good, State
  <2>3. /\ t.calls = s.calls /\ t.steps = s.steps /\ t.solver = s.solver
        /\ t.stages = s.stages /\ t.worker = s.worker /\ t.backend = b
    BY <2>1, Zenon DEF Good, State
  <2> HIDE DEF t
  <2>4. StepsFit(rq[r].level, t)
    BY <2>1, <2>3, Zenon DEF Good, StepsFit
  <2>5. Running(rq[r].level, "acquire", t)
    BY <2>1, <2>3, Zenon DEF Good, Running
  <2>6. Good(rq[r].level, "acquire", t)
    BY <2>1, <2>2, <2>3, <2>4, <2>5, Zenon DEF Good
  <2>7. Moves(r, "acquire", t)
    BY <1>1, <1>3, <2>6, Zenon DEF Moves, t, s
  <2> QED BY <2>7, Zenon
<1> QED BY <1>2, <1>3, Zenon DEF Pick

\* The slot is taken, or lost to another request and tried for again.
LEMMA AcquireMoves ==
    ASSUME Inv, NEW r \in Requests, Acquire(r)
    PROVE  \E step, s : Moves(r, step, s)
<1> DEFINE s == st[r]
<1>1. pc[r] = "acquire" /\ Good(rq[r].level, "acquire", s)
  BY Zenon DEF Acquire, Inv
<1>2. conf \in Configs /\ Budget \in 1 .. 5
  BY StagesFit, Zenon DEF Inv
<1>3. s \in State /\ StepsFit(rq[r].level, s) /\ Running(rq[r].level, "acquire", s)
  BY <1>1, Zenon DEF Good
<1>4. s.calls \in Nat /\ Len(s.stages) \in Nat \ {0}
  BY <1>3, ChainsGoOn, Zenon DEF State, Running
<1>5. CASE /\ active[s.backend] < Limit
           /\ active' = [active EXCEPT ![s.backend] = @ + 1]
           /\ Set(r, "call", [s EXCEPT !.calls = @ + 1])
  <2> DEFINE t == [s EXCEPT !.calls = @ + 1]
  <2>1. Set(r, "call", t)
    BY <1>5, Zenon
  <2> HIDE DEF s
  <2>2. t \in State
    <3>1. s.calls + 1 \in Nat
      BY <1>4
    <3> QED BY <1>3, <3>1, Zenon DEF State
  <2>3. /\ t.calls = s.calls + 1 /\ t.steps = s.steps /\ t.solver = s.solver
        /\ t.stages = s.stages /\ t.worker = s.worker /\ t.backend = s.backend
    BY <1>3, Zenon DEF State
  <2> HIDE DEF t
  <2>4. StepsFit(rq[r].level, t)
    BY <1>3, <2>3, Zenon DEF StepsFit
  <2>5. t.calls <= Budget /\ t.calls + Len(t.stages) <= Budget + 1
    <3>1. s.calls + Len(s.stages) <= Budget + 0
      BY <1>3, Zenon DEF Running
    <3> HIDE DEF s
    <3> QED BY <1>2, <1>4, <2>3, <3>1
  <2>6. Running(rq[r].level, "call", t)
    BY <1>3, <2>3, <2>5, Zenon DEF Running
  <2>7. Good(rq[r].level, "call", t)
    BY <2>2, <2>4, <2>5, <2>6, Zenon DEF Good
  <2>8. Moves(r, "call", t)
    BY <1>1, <1>5, <2>1, <2>3, <2>7, Zenon DEF Moves
  <2> QED BY <2>8, Zenon
<1>6. CASE /\ s.tries < 2 /\ active' = active
           /\ Set(r, "pick", [s EXCEPT !.tries = @ + 1, !.backend = NoBackend])
  <2> DEFINE t == [s EXCEPT !.tries = @ + 1, !.backend = NoBackend]
  <2>1. Set(r, "pick", t)
    BY <1>6, Zenon
  <2>2. s.tries + 1 \in 0 .. 2
    BY <1>3, <1>6 DEF State
  <2> HIDE DEF s
  <2>3. t \in State
    BY <1>3, <2>2, Zenon DEF State
  <2>4. /\ t.calls = s.calls /\ t.steps = s.steps /\ t.solver = s.solver
        /\ t.stages = s.stages /\ t.worker = s.worker
    BY <1>3, Zenon DEF State
  <2> HIDE DEF t
  <2>5. StepsFit(rq[r].level, t)
    BY <1>3, <2>4, Zenon DEF StepsFit
  <2>6. Running(rq[r].level, "pick", t)
    BY <1>3, <2>4, Zenon DEF Running
  <2>7. Good(rq[r].level, "pick", t)
    BY <1>1, <2>3, <2>4, <2>5, <2>6, Zenon DEF Good
  <2>8. Moves(r, "pick", t)
    BY <1>1, <1>6, <2>1, <2>7, Zenon DEF Moves
  <2> QED BY <2>8, Zenon
<1>7. CASE Failed(r, s) /\ active' = active
  BY <1>1, <1>7, FailedMoves, Zenon
<1> QED BY <1>5, <1>6, <1>7, Zenon DEF Acquire

\* The call fails, completes the chain or leads to the next stage.
LEMMA CallMoves ==
    ASSUME Inv, NEW r \in Requests, Call(r)
    PROVE  \E step, s : Moves(r, step, s)
<1> DEFINE s     == st[r]
           level == rq[r].level
<1>1. /\ pc[r] = "call" /\ Good(level, "call", s)
      /\ active' = [active EXCEPT ![s.backend] = @ - 1]
  BY Zenon DEF Call, Inv
<1>2. conf \in Configs /\ Budget \in 1 .. 5
  BY StagesFit, Zenon DEF Inv
<1>3. s \in State /\ StepsFit(level, s) /\ Running(level, "call", s) /\ s.calls <= Budget
  BY <1>1, Zenon DEF Good
<1>4. CASE Failed(r, s)
  BY <1>1, <1>4, FailedMoves, Zenon
<1>5. ASSUME NEW text \in BOOLEAN, NEW u \in Usages, NEW t,
             t = Completed(s, text, u), Advance(r, t)
      PROVE  \E step, x : Moves(r, step, x)
  <2> DEFINE c    == s.stages
             rest == Tail(c)
  <2>1. /\ t \in State /\ StepsFit(level, t)
        /\ t.stages = c /\ t.calls = s.calls /\ t.solver = s.solver
        /\ Drafted(t.steps) <=> Drafted(s.steps) \/ Head(c) \in {"worker", "route"}
    <3> HIDE DEF s, level
    <3> QED BY <1>2, <1>3, <1>5, CompletedFits
  <2>2. c \in Seq(Roles) /\ IsChain(c) /\ (Drafted(s.steps) <=> Head(c) \in Late)
    BY <1>3, Zenon DEF State, Running
  <2> HIDE DEF c
  <2>3. /\ Head(c) \in Roles /\ Len(c) \in Nat \ {0}
        /\ rest \in Seq(Roles) /\ (rest = << >> \/ IsChain(rest)) /\ Len(rest) = Len(c) - 1
        /\ Head(c) = "thinker" => rest # << >> /\ Head(rest) = "worker"
        /\ Head(c) # "thinker" /\ rest # << >> => Head(rest) \in Late
    BY <2>2, ChainsGoOn, Zenon
  <2> HIDE DEF rest
  <2>4. Drafted(t.steps) <=> Head(c) # "thinker"
    BY <2>1, <2>2, <2>3, Zenon DEF Roles, Late
  <2>5. CASE (rest = << >> \/ Head(rest) = "synthesizer") /\ Finish(r, t, TRUE)
    <3> DEFINE x == [t EXCEPT !.charged = Charge(t, TRUE),
                              !.result = IF TRUE THEN "ok" ELSE "failed",
                              !.worker = NoWorker, !.backend = NoBackend, !.tries = 0]
    <3>1. Drafted(t.steps)
      BY <2>3, <2>4, <2>5, Zenon
    <3>2. Good(level, "done", x)
      BY <1>3, <2>1, <3>1, FinishedIsGood, Zenon
    <3>3. Set(r, "done", x)
      BY <2>5, Zenon DEF Finish
    <3> HIDE DEF x
    <3>4. Moves(r, "done", x)
      BY <1>1, <3>2, <3>3, Zenon DEF Moves
    <3> QED BY <3>4, Zenon
  <2>6. CASE rest # << >> /\ Begin(r, t, rest)
    <3> DEFINE x == [t EXCEPT !.stages = rest, !.tries = 0, !.backend = NoBackend,
                              !.worker = WorkerFor(Head(rest), t.solver, Eligible(level))]
    <3>1. Drafted(t.steps) <=> Head(rest) \in Late
      BY <2>3, <2>4, <2>6, Zenon DEF Late
    <3>2. t.calls + Len(rest) <= Budget
      <4>1. s.calls \in Nat /\ s.calls + Len(c) <= Budget + 1
        BY <1>3, Zenon DEF State, Running, c
      <4> QED BY <1>2, <2>1, <2>3, <4>1
    <3>3. t.solver \in Eligible(level)
      BY <1>3, <2>1, Zenon DEF Running
    <3>4. Good(level, "pick", x)
      BY <1>2, <2>1, <2>3, <2>6, <3>1, <3>2, <3>3, BegunIsGood, Zenon
    <3>5. Set(r, "pick", x)
      BY <2>6, Zenon DEF Begin
    <3> HIDE DEF x
    <3>6. Moves(r, "pick", x)
      BY <1>1, <3>4, <3>5, Zenon DEF Moves
    <3> QED BY <3>6, Zenon
  <2> QED BY <1>5, <2>1, <2>5, <2>6, Zenon DEF Advance, rest
<1> QED BY <1>4, <1>5, Zenon DEF Call, Completed

-----------------------------------------------------------------------------
(* The invariant *)

\* Every step of a request moves it as described.
LEMMA StepMoves ==
    ASSUME Inv, NEW r \in Requests, Step(r)
    PROVE  /\ \E step, s : Moves(r, step, s)
           /\ UNCHANGED <<conf, rq, up, enabled>>
<1>1. UNCHANGED <<conf, rq, up, enabled>>
  BY Zenon DEF Step, Handle, Pick, Acquire, Call
<1> QED BY <1>1, HandleMoves, PickMoves, AcquireMoves, CallMoves, Zenon DEF Step

\* Good is about the configuration, which never changes.
LEMMA GoodStays ==
    ASSUME conf' = conf, rq' = rq,
           NEW r, Good(rq[r].level, pc'[r], st'[r])
    PROVE  Good(rq[r].level, pc[r], st[r])'
  BY Zenon DEF Good, State, StepsFit, Running, Assigned, MayVerify, Answered, Eligible, Budget,
         MaxSteps, Workers, Pool, StepRecords

\* The requests that call a backend.
Callers(b) == {r \in Requests : pc[r] = "call" /\ st[r].backend = b}

\* The counters stay exact: a slot is taken and returned with the call.
LEMMA SlotsStep ==
    ASSUME Inv, NEW r \in Requests, NEW step, NEW s, Moves(r, step, s)
    PROVE  active' \in [DOMAIN Backends -> 0 .. Limit] /\ CallsHoldSlots'
<1>1. pc' = [pc EXCEPT ![r] = step] /\ st' = [st EXCEPT ![r] = s]
  BY Zenon DEF Moves, Set
<1>2. /\ DOMAIN pc = Requests /\ DOMAIN st = Requests
      /\ \A q \in Requests : pc'[q] = (IF q = r THEN step ELSE pc[q])
      /\ \A q \in Requests : st'[q] = (IF q = r THEN s ELSE st[q])
  <2>1. pc = [q \in Requests |-> pc[q]] /\ st = [q \in Requests |-> st[q]]
    BY Zenon DEF Inv
  <2> QED BY <1>1, <2>1, Zenon
<1>3. active \in [DOMAIN Backends -> 0 .. Limit] /\ Limit \in Nat
  BY PoolAssumption, Zenon DEF Inv
<1>4. ASSUME NEW b \in DOMAIN Backends
      PROVE  /\ IsFiniteSet(Callers(b)) /\ Cardinality(Callers(b)) = active[b]
             /\ active[b] \in Nat /\ IsFiniteSet(Callers(b)')
  <2>1. IsFiniteSet(Requests) /\ Callers(b) \subseteq Requests /\ Callers(b)' \subseteq Requests
    BY NumbersAssumption, Zenon DEF Callers
  <2>2. IsFiniteSet(Callers(b)) /\ IsFiniteSet(Callers(b)')
    BY <2>1, FS_Subset, Zenon
  <2>3. Cardinality(Callers(b)) = active[b]
    BY Zenon DEF Inv, CallsHoldSlots, Callers
  <2>4. active[b] \in Nat
    BY <1>3
  <2> QED BY <2>2, <2>3, <2>4, Zenon
<1>5. SUFFICES /\ active' \in [DOMAIN Backends -> 0 .. Limit]
               /\ \A b \in DOMAIN Backends : active'[b] = Cardinality(Callers(b)')
  BY Zenon DEF CallsHoldSlots, Callers
<1>6. CASE pc[r] # "call" /\ step # "call" /\ active' = active
  <2>1. ASSUME NEW b \in DOMAIN Backends PROVE Callers(b)' = Callers(b)
    BY <1>2, <1>6, Zenon DEF Callers
  <2> QED BY <1>3, <1>4, <1>6, <2>1, Zenon
<1>7. CASE /\ pc[r] # "call" /\ step = "call" /\ active[s.backend] < Limit
           /\ active' = [active EXCEPT ![s.backend] = @ + 1]
  <2>1. s.backend \in DOMAIN Backends
    BY <1>7, Zenon DEF Moves, Good, Running
  <2>2. active[s.backend] \in Nat /\ active[s.backend] + 1 \in 0 .. Limit
    BY <1>3, <1>4, <1>7, <2>1
  <2>3. active' \in [DOMAIN Backends -> 0 .. Limit]
    BY <1>3, <1>7, <2>2, Zenon
  <2>4. ASSUME NEW b \in DOMAIN Backends PROVE active'[b] = Cardinality(Callers(b)')
    <3>1. CASE b = s.backend
      <4>1. Callers(b)' = Callers(b) \cup {r} /\ r \notin Callers(b)
        BY <1>2, <1>7, <3>1, Zenon DEF Callers
      <4>2. Cardinality(Callers(b) \cup {r}) = Cardinality(Callers(b)) + 1
        BY <1>4, <4>1, FS_AddElement, Zenon
      <4> QED BY <1>3, <1>4, <1>7, <3>1, <4>1, <4>2, Zenon
    <3>2. CASE b # s.backend
      <4>1. Callers(b)' = Callers(b)
        BY <1>2, <1>7, <3>2, Zenon DEF Callers
      <4> QED BY <1>3, <1>4, <1>7, <3>2, <4>1, Zenon
    <3> QED BY <3>1, <3>2, Zenon
  <2> QED BY <2>3, <2>4, Zenon
<1>8. CASE /\ pc[r] = "call" /\ step # "call"
           /\ active' = [active EXCEPT ![st[r].backend] = @ - 1]
  <2> DEFINE a == st[r].backend
  <2>1. a \in DOMAIN Backends
    BY <1>8, Zenon DEF Inv, Good, Running
  <2>2. r \in Callers(a)
    BY <1>8, Zenon DEF Callers
  <2>3. Cardinality(Callers(a) \ {r}) = active[a] - 1 /\ active[a] - 1 \in Nat
    <3>1. IsFiniteSet(Callers(a)) /\ Cardinality(Callers(a)) = active[a]
      BY <1>4, <2>1, Zenon
    <3>2. Cardinality(Callers(a) \ {r}) = Cardinality(Callers(a)) - 1
          /\ IsFiniteSet(Callers(a) \ {r})
      BY <2>2, <3>1, FS_RemoveElement, Zenon
    <3>3. Cardinality(Callers(a) \ {r}) \in Nat
      BY <3>2, FS_CardinalityType, Zenon
    <3> QED BY <3>1, <3>2, <3>3, Zenon
  <2>4. active' \in [DOMAIN Backends -> 0 .. Limit]
    <3>1. active[a] \in 0 .. Limit
      BY <1>3, <2>1, Zenon
    <3>2. active[a] - 1 \in 0 .. Limit
      BY <1>3, <2>3, <3>1
    <3> QED BY <1>3, <1>8, <3>2, Zenon
  <2>5. ASSUME NEW b \in DOMAIN Backends PROVE active'[b] = Cardinality(Callers(b)')
    <3>1. CASE b = a
      <4>1. Callers(b)' = Callers(b) \ {r}
        BY <1>2, <1>8, <3>1, Zenon DEF Callers
      <4> QED BY <1>3, <1>8, <2>3, <3>1, <4>1, Zenon
    <3>2. CASE b # a
      <4>1. Callers(b)' = Callers(b)
        BY <1>2, <1>8, <3>2, Zenon DEF Callers
      <4> QED BY <1>3, <1>4, <1>8, <3>2, <4>1, Zenon
    <3> QED BY <3>1, <3>2, Zenon
  <2> QED BY <2>4, <2>5, Zenon
<1> QED BY <1>6, <1>7, <1>8, Zenon DEF Moves

\* The invariant holds of a system that starts.
LEMMA InvInit == Init => Inv
<1> SUFFICES ASSUME Init PROVE Inv
  BY Zenon
<1>1. conf \in Configs /\ Budget \in 1 .. 5
  BY StagesFit, Zenon DEF Init
<1>2. Fresh \in State
  <2>1. 0 \in 0 .. 2 /\ << >> \in Seq(Roles) /\ << >> \in Seq(StepRecords)
    OBVIOUS
  <2> QED BY <2>1, Zenon DEF Fresh, State, NoWorker
<1>3. Fresh.calls = 0 /\ Fresh.steps = << >>
  BY Zenon DEF Fresh
<1>4. ASSUME NEW level PROVE Good(level, "handle", Fresh)
  <2>1. StepsFit(level, Fresh)
    BY <1>3 DEF StepsFit
  <2> QED BY <1>1, <1>2, <1>3, <2>1 DEF Good
<1>5. CallsHoldSlots
  <2> SUFFICES ASSUME NEW b \in DOMAIN Backends
               PROVE  active[b] = Cardinality({r \in Requests : pc[r] = "call" /\ st[r].backend = b})
    BY Zenon DEF CallsHoldSlots
  <2>1. {r \in Requests : pc[r] = "call" /\ st[r].backend = b} = {}
    BY Zenon DEF Init
  <2> QED BY <2>1, FS_EmptySet, Zenon DEF Init
<1>6. \A r \in Requests : Good(rq[r].level, pc[r], st[r])
  BY <1>4, Zenon DEF Init
<1>7. active \in [DOMAIN Backends -> 0 .. Limit]
  BY PoolAssumption DEF Init
<1> QED BY <1>1, <1>5, <1>6, <1>7, Zenon DEF Inv, Init

\* Every step keeps the invariant.
LEMMA InvStep == Inv /\ [Next]_vars => Inv'
<1>1. ASSUME Inv, NEW r \in Requests, Step(r) PROVE Inv'
  <2>1. /\ conf' = conf /\ rq' = rq /\ up' = up /\ enabled' = enabled
    BY <1>1, StepMoves, Zenon
  <2>2. PICK step, s : Moves(r, step, s)
    BY <1>1, StepMoves, Zenon
  <2>3. pc' = [pc EXCEPT ![r] = step] /\ st' = [st EXCEPT ![r] = s] /\ Good(rq[r].level, step, s)
    BY <2>2, Zenon DEF Moves, Set
  <2>4. pc = [q \in Requests |-> pc[q]] /\ st = [q \in Requests |-> st[q]]
    BY <1>1, Zenon DEF Inv
  <2>5. pc' = [q \in Requests |-> pc'[q]] /\ st' = [q \in Requests |-> st'[q]]
    BY <2>3, <2>4, Zenon
  <2>6. ASSUME NEW q \in Requests PROVE Good(rq[q].level, pc[q], st[q])'
    <3>1. CASE q = r
      <4>1. pc'[q] = step /\ st'[q] = s
        BY <2>3, <2>4, <3>1, Zenon
      <4> QED BY <2>1, <2>3, <3>1, <4>1, GoodStays, Zenon
    <3>2. CASE q # r
      <4>1. pc'[q] = pc[q] /\ st'[q] = st[q]
        BY <2>3, <2>4, <3>2, Zenon
      <4>2. Good(rq[q].level, pc[q], st[q])
        BY <1>1, Zenon DEF Inv
      <4> QED BY <2>1, <4>1, <4>2, GoodStays, Zenon
    <3> QED BY <3>1, <3>2, Zenon
  <2>7. active' \in [DOMAIN Backends -> 0 .. Limit] /\ CallsHoldSlots'
    BY <1>1, <2>2, SlotsStep, Zenon
  <2>8. /\ conf' \in Configs /\ up' \in SUBSET DOMAIN Backends
        /\ enabled' \in SUBSET (Models \cup Switchable)'
    BY <1>1, <2>1, Zenon DEF Inv, Models, Workers, Pool
  <2> QED BY <2>5, <2>6, <2>7, <2>8, Zenon DEF Inv
<1>2. ASSUME Inv, UNCHANGED <<conf, pc, rq, st, active>>, up' \in SUBSET DOMAIN Backends,
             enabled' \in SUBSET (Models \cup Switchable)
      PROVE  Inv'
  <2>1. ASSUME NEW q \in Requests PROVE Good(rq[q].level, pc[q], st[q])'
    <3>1. Good(rq[q].level, pc[q], st[q])
      BY <1>2, Zenon DEF Inv
    <3>2. Good(rq[q].level, pc'[q], st'[q])
      BY <1>2, <3>1, Zenon
    <3> QED BY <1>2, <3>2, GoodStays, Zenon
  <2>2. CallsHoldSlots'
    BY <1>2, Zenon DEF Inv, CallsHoldSlots
  <2>3. (Models \cup Switchable)' = Models \cup Switchable
    BY <1>2, Zenon DEF Models, Workers, Pool
  <2> QED BY <1>2, <2>1, <2>2, <2>3, Zenon DEF Inv
<1>3. ASSUME Inv, NEW b \in Flapping, SetUp(b) PROVE Inv'
  BY <1>2, <1>3, NumbersAssumption, Zenon DEF SetUp, Inv
<1>4. ASSUME Inv, NEW m \in Switchable, SetEnabled(m) PROVE Inv'
  BY <1>2, <1>4, Zenon DEF SetEnabled, Inv
<1>5. ASSUME Inv, UNCHANGED vars PROVE Inv'
  BY <1>2, <1>5, Zenon DEF vars, Inv
<1> QED BY <1>1, <1>3, <1>4, <1>5, Zenon DEF Next, Done

-----------------------------------------------------------------------------
(* The theorems *)

\* What Handle has established holds at every point of every request, whatever
\* the other requests, the health checker and the admin API do.
THEOREM OrchestrationInvariance == Spec => []Inv
  BY InvInit, InvStep, PTL DEF Spec

\* The slots, the budget and the charge of callWorker and serveOrchestration:
\* slots are held by calls in progress only, no request makes more calls than
\* max_steps, and the key pays for the tokens of all completed steps.
THEOREM EveryCallIsAccounted == Spec => []CallsAreAccounted
<1>1. Inv => CallsAreAccounted
  <2> SUFFICES ASSUME Inv PROVE CallsAreAccounted
    BY Zenon
  <2>1. \A r \in Requests : Good(rq[r].level, pc[r], st[r])
    BY Zenon DEF Inv
  <2>2. pc \in [Requests -> {"handle", "pick", "acquire", "call", "done"}]
    BY <2>1, Zenon DEF Inv, Good
  <2>3. ASSUME NEW r \in Requests
        PROVE  /\ st[r].worker \in Workers \cup {NoWorker}
               /\ st[r].backend \in DOMAIN Backends \cup {NoBackend}
               /\ st[r].tries \in 0 .. 2
               /\ st[r].steps \in Seq([role : Roles, worker : Workers])
               /\ st[r].tokens \in Nat /\ st[r].charged \in Nat
    <3>1. st[r] \in State
      BY <2>1, Zenon DEF Good
    <3> QED BY <3>1, Zenon DEF State, StepRecords
  <2>4. TypeOK
    BY <2>2, <2>3, Zenon DEF TypeOK, Inv
  <2>5. BudgetHolds
    BY <2>1, Zenon DEF BudgetHolds, Good
  <2>6. TokensAreCharged
    BY <2>1, Zenon DEF TokensAreCharged, Good, Answered
  <2> QED BY <2>4, <2>5, <2>6, Zenon DEF CallsAreAccounted, Inv
<1> QED BY <1>1, OrchestrationInvariance, PTL

\* The fallbacks of runConductor: a request succeeds exactly if it has a draft
\* or a routed answer, whatever the later stages do.
THEOREM DraftsDecide == Spec => []DraftDecides
<1>1. Inv => DraftDecides
  <2> SUFFICES ASSUME Inv, NEW r \in Requests, pc[r] = "done"
               PROVE  st[r].result = "ok" <=> HasStep(r, "worker") \/ HasStep(r, "route")
    BY Zenon DEF DraftDecides
  <2>1. st[r].result = "ok" <=> Drafted(st[r].steps)
    BY Zenon DEF Inv, Good, Answered
  <2>2. Drafted(st[r].steps) <=> HasStep(r, "worker") \/ HasStep(r, "route")
    BY Zenon DEF Drafted, HasStep
  <2> QED BY <2>1, <2>2, Zenon
<1> QED BY <1>1, OrchestrationInvariance, PTL

\* eligibleWorkers and selectVerifier: no stage goes to a worker whose access
\* list excludes the request's level, and nobody verifies their own draft if
\* another worker is eligible.
THEOREM StagesGoToTheEligible == Spec => []WorkersAreEligible
<1>1. Inv => WorkersAreEligible
  <2> SUFFICES ASSUME Inv PROVE WorkersAreEligible
    BY Zenon
  <2>1. AccessListHolds
    <3> SUFFICES ASSUME NEW r \in Requests, pc[r] = "call"
                 PROVE  Pool[st[r].worker].secret = 0 \/ rq[r].level <= Pool[st[r].worker].secret
      BY Zenon DEF AccessListHolds
    <3>1. st[r].worker \in Eligible(rq[r].level)
      BY Zenon DEF Inv, Good, Running, Assigned
    <3> QED BY <3>1, Zenon DEF Eligible
  <2>2. VerifierIsAnotherWorker
    <3> SUFFICES ASSUME NEW r \in Requests,
                        NEW i \in 1 .. Len(st[r].steps), NEW j \in 1 .. Len(st[r].steps),
                        st[r].steps[i].role = "worker", st[r].steps[j].role = "verifier",
                        Cardinality(Eligible(rq[r].level)) > 1
                 PROVE  st[r].steps[i].worker # st[r].steps[j].worker
      BY Zenon DEF VerifierIsAnotherWorker
    <3>1. StepsFit(rq[r].level, st[r])
      BY Zenon DEF Inv, Good
    <3>2. /\ st[r].steps[i].worker = st[r].solver
          /\ MayVerify(rq[r].level, st[r].solver, st[r].steps[j].worker)
      BY <3>1, Zenon DEF StepsFit, Assigned
    <3>3. Eligible(rq[r].level) # {st[r].solver}
      <4>1. Cardinality({st[r].solver}) = 1
        BY FS_Singleton, Zenon
      <4>2. ~(1 > 1)
        OBVIOUS
      <4> QED BY <4>1, <4>2, Zenon
    <3> QED BY <3>2, <3>3, Zenon DEF MayVerify
  <2> QED BY <2>1, <2>2, Zenon DEF WorkersAreEligible
<1> QED BY <1>1, OrchestrationInvariance, PTL

=============================================================================
