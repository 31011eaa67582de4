----------------------------- MODULE MCServices -----------------------------
(***************************************************************************)
(* Small instances for TLC of components that share no state: the          *)
(* balancer, the catalog of models with its names, and the log stores.     *)
(* One of them moves in a behaviour, the others rest in their initial      *)
(* states: what holds of each alone holds of them side by side, and their  *)
(* states add up instead of multiplying.                                   *)
(***************************************************************************)
EXTENDS LogStore

CONSTANTS Backends, Keys, None

VARIABLES
    part,                                                            \* what moves
    policy, weight, counter, sticky, calls, order, picks, last, call,   \* Balancer
    aliases, denied, allowed,                                        \* ModelNames
    config, models, backends, patch, fresh,                          \* Catalog
    table, failed                                                    \* LogTables

lookups == <<policy, weight, counter, sticky, calls, order, picks, last, call>>
names   == <<aliases, denied, allowed>>
listing == <<config, models, backends, patch, fresh>>
rest    == <<vars, table, failed>>
allvars == <<part, lookups, names, listing, rest>>

-----------------------------------------------------------------------------
(* The instances *)

\* Too small, in range, too large.
SomeLimits == {-1, 1, 2, 4}

\* Every order of one or more backends, and two orders of all of them.
OneOrMore == SetToAllKPermutations(Backends) \ {<< >>}
TwoOrders == {SetToSeq(Backends), Reverse(SetToSeq(Backends))}
Hashes    == [k \in Keys |-> IF k = "k1" THEN 4 ELSE 7]

Turns == INSTANCE Balancer WITH
            Keys <- {}, Policies <- {"weighted_round_robin", "round_robin", "unset"},
            Lists <- TwoOrders, Weights <- {-1, 0, 2}, Loads <- {0},
            HashOf <- << >>, MaxCalls <- 8

Loaded == INSTANCE Balancer WITH
            Keys <- {}, Policies <- {"least_latency", "least_connections", "random"},
            Lists <- OneOrMore, Weights <- {1}, Loads <- {0, 1, 2},
            HashOf <- << >>, MaxCalls <- 2

Keyed == INSTANCE Balancer WITH
            Policies <- {"sticky", "hash"}, Lists <- OneOrMore, Weights <- {1}, Loads <- {0},
            HashOf <- Hashes, MaxCalls <- 4

Words(letters, n) == UNION {[1 .. k -> letters] : k \in 1 .. n}

FourNames == Words({"a", "b", "c", "m"}, 1)

Aliased == INSTANCE ModelNames WITH
            Names <- FourNames, AliasNames <- FourNames \ {<<"m">>}, Patterns <- {},
            FirstAliases <- {[n \in {} |-> {}]}, MaxHops <- 2

\* Up to three symbols, and longer ones that begin and end with a letter.
AllPatterns == Words({"a", "b", "*"}, 3) \cup {<<x, "*", y, "*", z>> : x, y, z \in {"a", "b"}}

Listed == INSTANCE ModelNames WITH
            Names <- Words({"a", "b"}, 4), AliasNames <- {}, Patterns <- AllPatterns,
            FirstAliases <- {[n \in {<<"a">>} |-> [to |-> <<"b">>, enabled |-> TRUE, keep |-> FALSE]]},
            MaxHops <- 2

Empty == [x \in {} |-> {}]

\* One backend that serves m, which may be disabled or have another name; the
\* orchestrator off, or on with the virtual name v, or wrongly with m.
Files ==
    [enabled : BOOLEAN, router : {None, <<"v">>, <<"m">>}, conductor : {None},
     workers : {{<<"m">>}, {<<"a">>}}, steps : {0, 6},
     models : {Empty} \cup [{<<"v">>} -> [enabled : {FALSE}, mode : {"strict"}, caps : {Empty}]]
                     \cup [{<<"m">>} -> [enabled : {FALSE}, mode : {"", "other"}, caps : {Empty}]],
     aliases : {Empty} \cup [{<<"v">>} -> [to : {<<"m">>}, enabled : {TRUE}, keep : {FALSE}]]
                      \cup [{<<"a">>} -> [to : {<<"v">>}, enabled : {TRUE}, keep : {TRUE}]],
     backends : {Empty} \cup [{"b1"} -> BOOLEAN]]

ListedModels == INSTANCE Catalog WITH
            Names <- Words({"a", "m", "v"}, 1), AliasNames <- Words({"a", "m"}, 1),
            Patterns <- {<<"m">>}, FirstAliases <- {}, MaxHops <- 2, Configs <- Files,
            Serves <- [b \in {"b1"} |-> {<<"m">>}], Modes <- {"", "other"}, Descriptors <- {Empty},
            Registered <- Words({"m", "v"}, 1), Features <- {}, NoName <- None

PatchedModels == INSTANCE Catalog WITH
            Names <- Words({"a", "m", "v"}, 1), AliasNames <- {},
            Patterns <- {}, FirstAliases <- {}, MaxHops <- 2, Configs <- Files,
            Serves <- [b \in {"b1"} |-> {<<"m">>}], Modes <- {"strict", "other"},
            Descriptors <- {Empty} \cup [{"vision"} -> BOOLEAN],
            Registered <- Words({"m"}, 1), Features <- {"vision", "tool_call"}, NoName <- None

\* Successes and errors of two models, one record without a client address.
Attributes ==
    [r \in 1 .. 5 |-> [status |-> <<200, 404, 302, 502, 200>>[r], model |-> <<"m", "m", "", "m", "">>[r],
                       ip |-> <<"i", "j", "", "i", "i">>[r], tokens |-> r]]

Tables == INSTANCE LogTables WITH MaxCreated <- 5, Attr <- Attributes, Retention <- 2, PerMilli <- 2

-----------------------------------------------------------------------------

\* What does not move.
Idle ==
    /\ part \notin {"catalog", "patched"} => /\ config = Empty /\ models = Empty /\ backends = Empty
                                            /\ patch = ListedModels!NoPatch /\ fresh = FALSE
    /\ table = {} /\ failed = {}

MCInit ==
    /\ Init
    /\ \/ part = "turns"   /\ Turns!Init  /\ Listed!Init
       \/ part = "loaded"  /\ Loaded!Init /\ Listed!Init
       \/ part = "keyed"   /\ Keyed!Init  /\ Listed!Init
       \/ part = "aliased" /\ Loaded!Init /\ policy = "random" /\ Aliased!Init
       \/ part \in {"listed", "logs", "tables"} /\ Loaded!Init /\ policy = "random" /\ Listed!Init
       \/ part \in {"catalog", "patched"} /\ Loaded!Init /\ policy = "random" /\ ListedModels!CatInit
    /\ Idle

MCNext ==
    \/ part = "turns"   /\ Turns!Next   /\ UNCHANGED <<part, names, listing, rest>>
    \/ part = "loaded"  /\ Loaded!Next  /\ UNCHANGED <<part, names, listing, rest>>
    \/ part = "keyed"   /\ Keyed!Next   /\ UNCHANGED <<part, names, listing, rest>>
    \/ part = "aliased" /\ Aliased!Next /\ UNCHANGED <<part, lookups, listing, rest>>
    \/ part = "listed"  /\ Listed!Next  /\ UNCHANGED <<part, lookups, listing, rest>>
    \/ /\ part = "catalog" /\ ListedModels!CatNext /\ patch' = patch
       /\ UNCHANGED <<part, lookups, rest>>
    \/ part = "patched" /\ PatchedModels!CatNext /\ UNCHANGED <<part, lookups, rest>>
    \/ part = "logs"    /\ Next         /\ UNCHANGED <<part, lookups, names, listing, table, failed>>
    \/ part = "tables"  /\ Tables!TablesNext /\ UNCHANGED <<part, lookups, names, listing>>

MCSpec == MCInit /\ [][MCNext]_allvars

-----------------------------------------------------------------------------
(* Properties: those of the instances, each where it is about the part     *)
(* that moves                                                              *)

\* Each policy chooses what it says, among the candidates: as long as they
\* come in the same order, full turns of the weighted round robin give each
\* backend exactly its weight and the round robin favours none by more than one
\* request; in any order a drained backend gets nothing, and the least latency
\* wins among those measured.
ChoicesFollowPolicy ==
    /\ part = "turns"  => Turns!TypeOK /\ Turns!WeightedShares /\ Turns!RoundRobinIsEven
    /\ part = "loaded" => Loaded!TypeOK /\ Loaded!LeastLatencyIsLeast

\* A key stays with the backend it was pinned to when there were several
\* candidates, whenever that is one (chooseSticky).
StickyStays == Keyed!StickyStays

\* ResolveAlias follows a chain within the limit of hops to its end, and a cycle
\* to a name on it; matchPattern decides what a pattern means; no alias leads
\* around a key's lists; /v1/models and the lookup of a request agree on what
\* is there; a valid configuration serves what it names; and strict capability
\* checks refuse what declared ones do.
NamesMeanWhatTheySay ==
    /\ part = "aliased" => Aliased!TypeOK /\ Aliased!AliasesResolve
    /\ part = "listed"  => Listed!TypeOK /\ Listed!PatternsMatch /\ Listed!ListsAreObeyed
    /\ part = "catalog" => /\ ListedModels!CatTypeOK /\ ListedModels!ListedIsAllowed
                           /\ ListedModels!ServedIsListed /\ ListedModels!StartServes
    /\ part = "patched" => PatchedModels!CatTypeOK /\ PatchedModels!StrictIsStricter

\* The memory store keeps the latest records within its bound and gives an
\* undisturbed client every matching one once, page by page; the databases,
\* which know milliseconds only, answer as it does up to the order of records
\* within one, and a purge leaves what is within the retention (AppendRequest,
\* QueryRequests, StatsSince, Purge).
LogsAreKept ==
    /\ TypeOK /\ KeepsTheLatest /\ PagesAreComplete
    /\ part = "tables" => Tables!DriversAgree /\ Tables!StatsAddUp /\ Tables!RetentionHolds

=============================================================================
