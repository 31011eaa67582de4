------------------------------ MODULE Balancer ------------------------------
(***************************************************************************)
(* The balancer's choice among the routable backends of one model, call    *)
(* after call.  Calls overlap in the program, but each takes its turn with *)
(* one atomic addition to the model's counter, or under the sticky lock.   *)
(*                                                                         *)
(* The candidates come from the iteration of a Go map, whose order varies  *)
(* from call to call: Lists says which sequences are passed.               *)
(***************************************************************************)
EXTENDS Integers, Sequences, SequencesExt, FiniteSets

CONSTANTS
    Backends,
    Keys,        \* API key IDs
    Policies,    \* configured routing policies to consider
    Lists,       \* candidate lists, each without repetition
    Weights,     \* weights that backends are configured with
    Loads,       \* values of a backend's active requests or latency
    HashOf,      \* [Keys -> Nat]: FNV-1a of the key
    MaxCalls,    \* bound on the calls
    None

VARIABLES
    policy,    \* the model's routing policy
    weight,    \* [Backends -> Weights]
    counter,   \* the model's counter
    sticky,    \* [Keys -> Backends \cup {None}]
    calls,     \* calls so far
    order,     \* the list that every call so far was passed, << >> if they differ
    picks,     \* [Backends -> Nat]: how often each was chosen
    last,      \* [Keys -> Backends \cup {None}]: the last choice for the key among several
    call       \* the last call: its candidates, loads, key and choice

vars == <<policy, weight, counter, sticky, calls, order, picks, last, call>>

Init ==
    /\ policy \in Policies
    /\ weight \in [Backends -> Weights]
    /\ counter = 0 /\ calls = 0 /\ order = << >>
    /\ sticky = [k \in Keys |-> None]
    /\ last = [k \in Keys |-> None]
    /\ picks = [b \in Backends |-> 0]
    /\ call = [cs |-> << >>, load |-> << >>, key |-> None, picked |-> None]

-----------------------------------------------------------------------------

\* A negative weight counts as one.
W(b) == IF weight[b] < 0 THEN 1 ELSE weight[b]

\* The weights of the first i candidates.
Upto(cs, i) == FoldLeft(LAMBDA acc, b : acc + W(b), 0, SubSeq(cs, 1, i))

\* Mutant: the walk stops one too late.
ChooseWeightedLate(cs) ==
    LET total  == Upto(cs, Len(cs))
        target == counter % total
    IN  IF total <= 0 THEN Head(cs)
        ELSE cs[CHOOSE i \in 1 .. Len(cs) :
                   target <= Upto(cs, i) /\ \A j \in 1 .. i - 1 : target > Upto(cs, j)]

\* chooseWeightedRR: the candidate in whose share of the total the turn falls.
ChooseWeightedRR(cs) ==
    LET total  == Upto(cs, Len(cs))
        target == counter % total
    IN  IF total <= 0 THEN Head(cs)
        ELSE cs[CHOOSE i \in 1 .. Len(cs) : Upto(cs, i - 1) <= target /\ target < Upto(cs, i)]

\* Whether chooseWeightedRR advances the counter.
Counts(cs) == IF Upto(cs, Len(cs)) > 0 THEN 1 ELSE 0

\* Choose, round_robin: the candidate at the turn.
ChooseRoundRobin(cs) == cs[(counter % Len(cs)) + 1]

\* chooseLeastLatency: a scan; zero means not measured.
ChooseLeastLatency(cs, load) ==
    FoldLeft(LAMBDA best, c : IF load[c] > 0 /\ (load[best] = 0 \/ load[c] < load[best]) THEN c ELSE best,
             Head(cs), cs)

\* chooseLeast
ChooseLeast(cs, load) ==
    FoldLeft(LAMBDA best, c : IF load[c] < load[best] THEN c ELSE best, Head(cs), cs)

\* chooseHash; a request without key gets the first candidate.
ChooseHash(cs, k) == IF k = None THEN Head(cs) ELSE cs[(HashOf[k] % Len(cs)) + 1]

\* Mutant: the pin is written but not read.
PinnedIgnored(cs, k) == FALSE

\* The key has a backend, and it is a candidate.
Pinned(cs, k) == k # None /\ sticky[k] \in Range(cs)

\* What a policy chooses.
Chosen(cs, load, k) ==
    CASE Len(cs) = 1                                    -> {Head(cs)}
      [] Len(cs) > 1 /\ policy = "random"               -> Range(cs)
      [] Len(cs) > 1 /\ policy = "least_connections"    -> {ChooseLeast(cs, load)}
      [] Len(cs) > 1 /\ policy = "least_latency"        -> {ChooseLeastLatency(cs, load)}
      [] Len(cs) > 1 /\ policy = "round_robin"          -> {ChooseRoundRobin(cs)}
      [] Len(cs) > 1 /\ policy = "hash"                 -> {ChooseHash(cs, k)}
      [] Len(cs) > 1 /\ policy = "sticky" /\ Pinned(cs, k) -> {sticky[k]}
      [] OTHER                                          -> {ChooseWeightedRR(cs)}

\* How far the counter moves: a choice that is not by turn leaves it.
Advance(cs, k) ==
    CASE Len(cs) > 1 /\ policy = "round_robin" -> 1
      [] Len(cs) > 1 /\ policy \in {"weighted_round_robin", "unset"} -> Counts(cs)
      [] Len(cs) > 1 /\ policy = "sticky" /\ ~Pinned(cs, k) -> Counts(cs)
      [] OTHER -> 0

\* Choose: one call.  The sticky policy records its new choice, but not the
\* only candidate.
Choose(cs, load, k) ==
    /\ calls < MaxCalls /\ calls' = calls + 1
    /\ \E b \in Chosen(cs, load, k) :
          /\ counter' = counter + Advance(cs, k)
          /\ sticky' = IF policy = "sticky" /\ k # None /\ Len(cs) > 1
                       THEN [sticky EXCEPT ![k] = b] ELSE sticky
          /\ picks' = [picks EXCEPT ![b] = @ + 1]
          /\ order' = IF calls = 0 \/ order = cs THEN cs ELSE << >>
          /\ last' = IF k # None /\ Len(cs) > 1 THEN [last EXCEPT ![k] = b] ELSE last
          /\ call' = [cs |-> cs, load |-> load, key |-> k, picked |-> b]
    /\ UNCHANGED <<policy, weight>>

Over == calls = MaxCalls /\ UNCHANGED vars

Next ==
    \/ \E cs \in Lists, k \in Keys \cup {None} : \E load \in [Range(cs) -> Loads] : Choose(cs, load, k)
    \/ Over

Spec == Init /\ [][Next]_vars

-----------------------------------------------------------------------------
(* Properties *)

\* Every choice is one of the candidates.
TypeOK ==
    /\ counter \in 0 .. calls
    /\ sticky \in [Keys -> Backends \cup {None}]
    /\ calls > 0 => call.picked \in Range(call.cs)

\* In whatever order the candidates come, a drained one gets nothing from the
\* weighted round robin while another has weight; and as long as they come in
\* the same order, every full turn gives each exactly its weight.
WeightedShares ==
    policy \in {"weighted_round_robin", "unset"} =>
        /\ (calls > 0 /\ Len(call.cs) > 1 /\ \E b \in Range(call.cs) : W(b) > 0) => W(call.picked) > 0
        /\ LET total == Upto(order, Len(order))
           IN  Len(order) > 1 /\ total > 0 /\ calls % total = 0
               => \A b \in Range(order) : picks[b] = W(b) * (calls \div total)

\* As long as the candidates come in the same order, the round robin never
\* favours one by more than one request.
RoundRobinIsEven ==
    policy = "round_robin" => \A a, b \in Range(order) : picks[a] - picks[b] \in -1 .. 1

\* The backend of least latency is chosen among those measured, if any.
LeastLatencyIsLeast ==
    policy = "least_latency" /\ calls > 0 =>
        \A b \in Range(call.cs) : call.load[b] > 0 =>
            call.load[call.picked] \in 1 .. call.load[b]

\* From its first choice among several candidates on a key stays: whenever the
\* backend of its last such choice is a candidate it gets the request, and
\* where one stood in that was the only candidate is not remembered.
StickyStays ==
    [][policy = "sticky" /\ calls' > calls /\ call'.key # None =>
          (last[call'.key] \in Range(call'.cs) => call'.picked = last[call'.key])]_vars

=============================================================================
