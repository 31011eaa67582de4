---------------------------- MODULE GatewayPools ----------------------------
(***************************************************************************)
(* The two pools of slots behind the handlers of Gateway, each a SlotPool: *)
(* the slots of a backend and the turns of a model's queue.  A key's       *)
(* concurrency is none: its limit is read before the slot is taken.        *)
(***************************************************************************)
EXTENDS Gateway

BackendSlots == INSTANCE SlotPool WITH
    Pools <- Backends, Clients <- Requests, Capacities <- SlotLimits,
    holders <- [b \in Backends |-> SlotHolders(b)], capacity <- slotLimit

ModelSlots == INSTANCE SlotPool WITH
    Pools <- Models, Clients <- Requests, Capacities <- {MaxConc},
    holders <- [m \in Models |-> TurnHolders(m)],
    capacity <- [m \in Models |-> MaxConc]

\* Backend slots behave like a pool of max_concurrent_requests named slots,
\* although the limit is patched while slots are out, and the turns of a model's
\* queue like a pool of per_model_limit ones: AcquireSlot and the semaphore
\* never exceed the limit in force, and only a holder gives a slot back.
SlotsImplementPools == BackendSlots!PoolSpec /\ ModelSlots!PoolSpec

=============================================================================
