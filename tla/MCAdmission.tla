----------------------------- MODULE MCAdmission -----------------------------
(***************************************************************************)
(* Small instances for TLC of what lets requests in: users, sessions, the  *)
(* limiter in the process and the address and key of a request             *)
(* (Admission), and the limiter in Redis (RedisLimiter).  One of them      *)
(* moves in a behaviour, the others rest in an initial state.              *)
(***************************************************************************)
EXTENDS Admission, RedisLimiter, TLC

VARIABLE part   \* what moves

address == <<sender, at, xff, inFirst, real, relays, verdict>>
allvars == <<part, redis, address, limiter, vars>>

-----------------------------------------------------------------------------
(* The instances *)

Together == [c \in Callers |-> 0]
OneAhead == [c \in Callers |-> IF c = "c1" THEN 0 ELSE 1]

\* One request per minute, from gateways whose clocks differ.
Minutely == [rpm |-> 1, tpm |-> 0, dayReq |-> 0, dayTok |-> 0, lead |-> OneAhead,
             retries |-> 1, horizon |-> 3, reports |-> 0]

\* Two requests per day, and the counters of the day over its end.
Daily == [rpm |-> 0, tpm |-> 0, dayReq |-> 2, dayTok |-> 0, lead |-> Together,
          retries |-> 0, horizon |-> 5, reports |-> 0]

\* One token per minute or day, and pipelines that are cut and sent again.
Metered == [rpm |-> 1, tpm |-> 1, dayReq |-> 0, dayTok |-> 1, lead |-> OneAhead,
            retries |-> 1, horizon |-> 1, reports |-> 1]

Limited == {Minutely, Daily, Metered}

\* The connections are alike.
Alike == Permutations(Slots)

\* A user whom the bind token deletes, demotes or makes a super_admin.
Bob == [u \in {"bob"} |-> "operator"]

Good == [known |-> TRUE, enabled |-> TRUE, expired |-> FALSE, denied |-> {}, allowed |-> {}]

\* Keys of every kind.
KeyKinds ==
    {Good, [Good EXCEPT !.known = FALSE], [Good EXCEPT !.enabled = FALSE], [Good EXCEPT !.expired = TRUE],
     [Good EXCEPT !.denied = {"x1", "p1"}], [Good EXCEPT !.allowed = {"x1", "p2"}],
     [Good EXCEPT !.denied = {"x1"}, !.allowed = {"x1", "x2"}]}

-----------------------------------------------------------------------------

MCInit ==
    /\ Init /\ Limiter!Init /\ Arrivals!Init /\ RedisInit
    /\ part \in {"redis", "buckets", "sessions", "arrivals"}
    /\ part # "arrivals" => sender = "x1" /\ xff = << >> /\ real = "absent"
    /\ part # "redis" => setup = Daily

\* The clocks of the instances end, and with the last call under way they stop.
MCNext ==
    \/ part = "redis"    /\ RedisNext     /\ UNCHANGED <<part, address, limiter, vars>>
    \/ part = "buckets"  /\ Limiter!Next  /\ UNCHANGED <<part, address, redis, vars>>
    \/ part = "sessions" /\ Next          /\ UNCHANGED <<part, address, redis, limiter>>
    \/ part = "arrivals" /\ Arrivals!Next /\ UNCHANGED <<part, redis, limiter, vars>>

MCSpec == MCInit /\ [][MCNext]_allvars

=============================================================================
