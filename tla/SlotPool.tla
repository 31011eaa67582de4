------------------------------ MODULE SlotPool ------------------------------
(***************************************************************************)
(* What a pool of slots promises: it hands out at most as many slots as    *)
(* its capacity at that moment, every holder is known by name, and only a  *)
(* holder gives a slot back.  A capacity of 0 is unlimited; a pool may be  *)
(* resized while slots are out.                                            *)
(*                                                                         *)
(* The implementations keep a counter instead of the set of holders        *)
(* (Backend.activeRequests, the queue's semaphore).                        *)
(***************************************************************************)
EXTENDS Integers, FiniteSets

CONSTANTS Pools, Clients, Capacities

VARIABLES holders,  \* [Pools -> SUBSET Clients]
          capacity  \* [Pools -> Capacities]

poolVars == <<holders, capacity>>

PoolInit ==
    /\ holders = [p \in Pools |-> {}]
    /\ capacity \in [Pools -> Capacities]

Acquire(c, p) ==
    /\ c \notin holders[p]
    /\ capacity[p] = 0 \/ Cardinality(holders[p]) < capacity[p]
    /\ holders' = [holders EXCEPT ![p] = @ \cup {c}]
    /\ UNCHANGED capacity

Release(c, p) ==
    /\ c \in holders[p]
    /\ holders' = [holders EXCEPT ![p] = @ \ {c}]
    /\ UNCHANGED capacity

Resize(p) ==
    /\ \E n \in Capacities : capacity' = [capacity EXCEPT ![p] = n]
    /\ UNCHANGED holders

PoolNext ==
    \E p \in Pools : \/ \E c \in Clients : Acquire(c, p) \/ Release(c, p)
                     \/ Resize(p)

PoolSpec == PoolInit /\ [][PoolNext]_poolVars

=============================================================================
