--------------------------- MODULE MCOrchestration ---------------------------
(* Small instances of Orchestration for TLC. *)
EXTENDS Orchestration

\* Two on-premises workers and one that may see level-1 data only.
ThreeWorkers ==
    << [model |-> "coder",    strength |-> 8, cost |-> 2, tasks |-> {"code", "zh", "verify"}, secret |-> 0],
       [model |-> "reasoner", strength |-> 9, cost |-> 5, tasks |-> {"reasoning", "verify"},  secret |-> 1],
       [model |-> "small",    strength |-> 0, cost |-> 1, tasks |-> {"general"},              secret |-> 0] >>

\* Two workers that only see level-1 data.
CloudOnly ==
    << [model |-> "reasoner", strength |-> 9, cost |-> 5, tasks |-> {"reasoning"}, secret |-> 1],
       [model |-> "small",    strength |-> 7, cost |-> 1, tasks |-> {"general"},   secret |-> 1] >>

OneEach == [coder |-> "coder", reasoner |-> "reasoner", small |-> "small"]

\* Both tiers with a budget that the chain fills, with one that the pair of
\* verifier and synthesizer fills with the draft, and the router alone.
ThreeConfigs ==
    {[pool |-> ThreeWorkers, conductor |-> TRUE,  steps |-> 4],
     [pool |-> ThreeWorkers, conductor |-> TRUE,  steps |-> 3],
     [pool |-> CloudOnly,    conductor |-> FALSE, steps |-> 0]}

Code    == [code |-> 2, reasoning |-> 0, han |-> 0]
Mixed   == [code |-> 1, reasoning |-> 2, han |-> 5]

\* Both virtual models, a clear and an unclear prompt, both levels.
FourInputs ==
    {[virtual |-> "router",    prompt |-> Code,  level |-> 2],
     [virtual |-> "router",    prompt |-> Mixed, level |-> 0],
     [virtual |-> "conductor", prompt |-> Code,  level |-> 0],
     [virtual |-> "conductor", prompt |-> Mixed, level |-> 2]}

=============================================================================
