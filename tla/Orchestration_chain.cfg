\* Two requests and three configurations; backends with one slot, one of them
\* flapping, and a model that is switched off and on.
SPECIFICATION FairSpec
CONSTANTS
    Requests = {r1, r2}
    Inputs <- FourInputs
    Configs <- ThreeConfigs
    CostPenalty = 0
    Threshold = 6
    Backends <- OneEach
    Limit = 1
    Usages = {0, 1}
    Estimate = 3
    Flapping = {"coder"}
    Switchable = {"reasoner"}
    NoBackend = NoBackend
INVARIANTS CallsAreAccounted WorkersAreEligible DraftDecides
PROPERTIES EveryRequestIsAnswered
