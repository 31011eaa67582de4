------------------------- MODULE GatewayPoolProofs -------------------------
(***************************************************************************)
(* The slots of the backends and the turns of the queues behind the        *)
(* handlers of Gateway are pools of named slots, for every value of its    *)
(* constants.                                                              *)
(***************************************************************************)
EXTENDS GatewayPools, GatewayProofs

-----------------------------------------------------------------------------
(***************************************************************************)
(* Every step of a handler or of the admin API takes, returns or resizes   *)
(* one slot of SlotPool, or leaves the pool as it is.                      *)
(***************************************************************************)

(***************************************************************************)
(* Slots of the backends.                                                  *)
(***************************************************************************)

\* A step that leaves every backend's holders and limit leaves the pool.
LEMMA BackendPoolKept ==
    ASSUME \A b \in Backends : SlotHolders(b)' = SlotHolders(b), slotLimit' = slotLimit
    PROVE  UNCHANGED BackendSlots!poolVars
  <1>1. [b \in Backends |-> SlotHolders(b)]' = [b \in Backends |-> SlotHolders(b)]
    BY Zenon
  <1> QED
    BY <1>1, Zenon DEF BackendSlots!poolVars

\* r moves and no slot changes hands.
LEMMA BackendHoldersKept ==
    ASSUME NEW r \in Requests, OnlyMoves(r), slotLimit' = slotLimit,
           \/ pc[r] \notin SlotSteps /\ pc'[r] \notin SlotSteps
           \/ pc[r] \in SlotSteps /\ pc'[r] \in SlotSteps /\ SamePick(r)
    PROVE  UNCHANGED BackendSlots!poolVars
  <1>1. \A b \in Backends : SlotHolders(b)' = SlotHolders(b)
    BY Zenon DEF SlotHolders, OnlyMoves, SlotSteps, SamePick
  <1> QED
    BY <1>1, BackendPoolKept, Zenon

\* r gets a slot of the backend it picked, which has room.
LEMMA BackendAcquires ==
    ASSUME Inv, NEW r \in Requests, OnlyMoves(r), SamePick(r), slotLimit' = slotLimit,
           pc[r] \notin SlotSteps, pc'[r] \in SlotSteps, rq[r].pick \in Backends,
           HasRoom(rq[r].pick)
    PROVE  BackendSlots!Acquire(r, rq[r].pick)
  <1> DEFINE p == rq[r].pick
             h == [b \in Backends |-> SlotHolders(b)]
  <1>1. r \notin SlotHolders(p)
    BY Zenon DEF SlotHolders, SlotSteps
  <1>2. slotLimit[p] = 0 \/ Cardinality(SlotHolders(p)) < slotLimit[p]
    BY Zenon DEF Inv, SlotAccounting, HasRoom
  <1>3. \A b \in Backends :
            SlotHolders(b)' = IF b = p THEN SlotHolders(b) \cup {r} ELSE SlotHolders(b)
    BY Zenon DEF SlotHolders, OnlyMoves, SlotSteps, SamePick
  <1>4. h' = [h EXCEPT ![p] = h[p] \cup {r}]
    BY <1>3, Zenon
  <1>5. BackendSlots!Cardinality(SlotHolders(p)) = Cardinality(SlotHolders(p))
    BY Zenon DEF BackendSlots!Cardinality, Cardinality
  <1> QED
    BY <1>1, <1>2, <1>4, <1>5, Zenon DEF BackendSlots!Acquire

\* r returns the slot of the backend it picked.
LEMMA BackendReleases ==
    ASSUME NEW r \in Requests, OnlyMoves(r), SamePick(r), slotLimit' = slotLimit,
           pc[r] \in SlotSteps, pc'[r] \notin SlotSteps, rq[r].pick \in Backends
    PROVE  BackendSlots!Release(r, rq[r].pick)
  <1> DEFINE p == rq[r].pick
             h == [b \in Backends |-> SlotHolders(b)]
  <1>1. r \in SlotHolders(p)
    BY Zenon DEF SlotHolders, SlotSteps
  <1>2. \A b \in Backends :
            SlotHolders(b)' = IF b = p THEN SlotHolders(b) \ {r} ELSE SlotHolders(b)
    BY Zenon DEF SlotHolders, OnlyMoves, SlotSteps, SamePick
  <1>3. h' = [h EXCEPT ![p] = h[p] \ {r}]
    BY <1>2, Zenon
  <1> QED
    BY <1>1, <1>3, Zenon DEF BackendSlots!Release

\* Every step of Gateway is a step of the pool of backend slots, or none.
LEMMA BackendPoolStep ==
    ASSUME Inv, Next
    PROVE  BackendSlots!PoolNext \/ UNCHANGED BackendSlots!poolVars
  <1> USE DEF SlotSteps, QueueStep, ReleaseStep
  <1> TypeOK /\ HandlerShape
    BY Zenon DEF Inv
  <1>1. ASSUME NEW r \in Requests, Arrive(r) PROVE UNCHANGED BackendSlots!poolVars
    <2>1. OnlyMoves(r) /\ pc[r] = "done" /\ pc'[r] = "idle" /\ slotLimit' = slotLimit
      BY <1>1, GotoEffect, IncomingEffect, StepFacts, Zenon DEF TypeOK, Arrive, OnlyMoves, registry
    <2> QED
      BY <2>1, BackendHoldersKept, Zenon
  <1>2. ASSUME NEW r \in Requests, Validate(r) \/ Lookup(r) \/ Reserve(r) \/ CheckQuota(r)
                                   \/ ReadLimit(r) \/ AcquireConc(r) \/ Delay(r)
        PROVE UNCHANGED BackendSlots!poolVars
    <2>1. slotLimit' = slotLimit
      BY <1>2, Zenon DEF Validate, Lookup, Reserve, CheckQuota, ReadLimit, AcquireConc, Delay, registry
    <2> QED
      BY <1>2, <2>1, AdmissionTable, BackendHoldersKept, Zenon DEF Moves
  <1>3. ASSUME NEW r \in Requests, EnterQueue(r) \/ TakeTurn(r) \/ GiveUp(r) \/ LeaveQueue(r)
                                   \/ Account(r)
        PROVE UNCHANGED BackendSlots!poolVars
    <2>1. slotLimit' = slotLimit
      BY <1>3, Zenon DEF EnterQueue, TakeTurn, GiveUp, LeaveQueue, Account, registry
    <2> QED
      BY <1>3, <2>1, QueueTable, BackendHoldersKept, Zenon DEF Moves
  <1>4. ASSUME NEW r \in Requests, Route(r) \/ LoseSlot(r) \/ Reroute(r) \/ ReportUsage(r)
                                   \/ Settle(r) \/ ReleaseQueue(r) \/ ReleaseConc(r)
        PROVE UNCHANGED BackendSlots!poolVars
    <2>1. slotLimit' = slotLimit
      BY <1>4, Zenon DEF Route, LoseSlot, Reroute, ReportUsage, Settle, ReleaseQueue, ReleaseConc, registry
    <2> QED
      BY <1>4, <2>1, ServeTable, BackendHoldersKept, Zenon DEF Moves
  <1>5. ASSUME NEW r \in Requests, TakeSlot(r) PROVE BackendSlots!PoolNext
    <2>1. slotLimit' = slotLimit /\ rq[r].pick \in Backends /\ HasRoom(rq[r].pick)
      BY <1>5, Zenon DEF TakeSlot, HandlerShape, registry
    <2>2. BackendSlots!Acquire(r, rq[r].pick)
      BY <1>5, <2>1, ServeTable, BackendAcquires, Zenon DEF Moves
    <2> QED
      BY <2>1, <2>2, Zenon DEF BackendSlots!PoolNext
  <1>6. ASSUME NEW r \in Requests, Rebuild(r)
        PROVE  BackendSlots!PoolNext \/ UNCHANGED BackendSlots!poolVars
    <2>1. slotLimit' = slotLimit /\ rq[r].pick \in Backends
      BY <1>6, Zenon DEF Rebuild, HandlerShape, registry
    <2>2. BackendSlots!Release(r, rq[r].pick) \/ UNCHANGED BackendSlots!poolVars
      BY <1>6, <2>1, ServeTable, BackendHoldersKept, BackendReleases, Zenon DEF Moves
    <2> QED
      BY <2>1, <2>2, Zenon DEF BackendSlots!PoolNext
  <1>7. ASSUME NEW r \in Requests, Finish(r) PROVE BackendSlots!PoolNext
    <2>1. slotLimit' = slotLimit /\ rq[r].pick \in Backends
      BY <1>7, Zenon DEF Finish, HandlerShape, registry
    <2>2. BackendSlots!Release(r, rq[r].pick)
      BY <1>7, <2>1, ServeTable, BackendReleases, Zenon DEF Moves
    <2> QED
      BY <2>1, <2>2, Zenon DEF BackendSlots!PoolNext
  <1>8. ASSUME Administer PROVE BackendSlots!PoolNext \/ UNCHANGED BackendSlots!poolVars
    <2>1. pc' = pc /\ rq' = rq
      BY <1>8, Zenon DEF Administer, SetUp, SetServes, SetSlotLimit, SetConcLimit, SetEnabled
    <2>2. \A b \in Backends : SlotHolders(b)' = SlotHolders(b)
      BY <2>1, Zenon DEF SlotHolders
    <2>3. CASE slotLimit' = slotLimit
      BY <2>2, <2>3, BackendPoolKept, Zenon
    <2>4. ASSUME NEW b \in Backends, SetSlotLimit(b) PROVE BackendSlots!Resize(b)
      <3>1. \E n \in SlotLimits : slotLimit' = [slotLimit EXCEPT ![b] = n]
        BY <2>4, Zenon DEF SetSlotLimit
      <3>2. [c \in Backends |-> SlotHolders(c)]' = [c \in Backends |-> SlotHolders(c)]
        BY <2>2, Zenon
      <3> QED
        BY <3>1, <3>2, Zenon DEF BackendSlots!Resize
    <2>5. slotLimit' = slotLimit \/ \E b \in Backends : SetSlotLimit(b)
      BY <1>8, Zenon DEF Administer, SetUp, SetServes, SetConcLimit, SetEnabled
    <2> QED
      BY <2>3, <2>4, <2>5, Zenon DEF BackendSlots!PoolNext
  <1> QED
    BY <1>1, <1>2, <1>3, <1>4, <1>5, <1>6, <1>7, <1>8, Zenon DEF Next, Handle, Admit, Serve

\* activeRequests with AcquireSlot and ReleaseSlot implements a pool of
\* max_concurrent_requests named slots per backend.
THEOREM BackendSlotsArePool == Spec => BackendSlots!PoolSpec
  <1>1. Init => BackendSlots!PoolInit
    <2> SUFFICES ASSUME Init PROVE BackendSlots!PoolInit
      BY Zenon
    <2>1. \A b \in Backends : SlotHolders(b) = {}
      BY Zenon DEF Init, SlotHolders
    <2> QED
      BY <2>1, Zenon DEF Init, BackendSlots!PoolInit
  <1>2. Inv /\ [Next]_vars => [BackendSlots!PoolNext]_(BackendSlots!poolVars)
    <2>1. ASSUME UNCHANGED vars PROVE UNCHANGED BackendSlots!poolVars
      <3>1. pc' = pc /\ rq' = rq /\ slotLimit' = slotLimit
        BY <2>1, Zenon DEF vars, registry
      <3>2. \A b \in Backends : SlotHolders(b)' = SlotHolders(b)
        BY <3>1, Zenon DEF SlotHolders
      <3> QED
        BY <3>1, <3>2, BackendPoolKept, Zenon
    <2> QED
      BY <2>1, BackendPoolStep, Zenon
  <1> QED
    BY <1>1, <1>2, Invariance, PTL DEF Spec, BackendSlots!PoolSpec

(***************************************************************************)
(* Turns of the per-model queue.                                           *)
(***************************************************************************)

\* A step that leaves the requests with a turn leaves the pool.
LEMMA ModelPoolKept ==
    ASSUME \A m \in Models : TurnHolders(m)' = TurnHolders(m)
    PROVE  UNCHANGED ModelSlots!poolVars
  <1>1. [m \in Models |-> TurnHolders(m)]' = [m \in Models |-> TurnHolders(m)]
    BY Zenon
  <1> QED
    BY <1>1, Zenon DEF ModelSlots!poolVars

\* r moves and keeps its turn, or has none.
LEMMA TurnKept ==
    ASSUME NEW r \in Requests, OnlyMoves(r), KeepsName(r),
           pc[r] \in TurnSteps <=> pc'[r] \in TurnSteps
    PROVE  UNCHANGED ModelSlots!poolVars
  <1>1. \A m \in Models : TurnHolders(m)' = TurnHolders(m)
    BY TurnMoves, Zenon
  <1> QED
    BY <1>1, ModelPoolKept, Zenon

\* The send on the semaphore takes a turn, within per_model_limit.
LEMMA TurnTaken ==
    ASSUME Inv, NEW r \in Requests, TakeTurn(r)
    PROVE  ModelSlots!Acquire(r, Model(r))
  <1> DEFINE p == Model(r)
             h == [m \in Models |-> TurnHolders(m)]
  <1>1. Moves(r, {"waiting"}, {"dequeue"}) /\ p \in Models
    BY QueueTable, LocalFields, Zenon DEF Inv, TypeOK, Model
  <1>2. pc[r] \notin TurnSteps /\ pc'[r] \in TurnSteps
    BY <1>1, Zenon DEF Moves, TurnSteps, QueueHeldSteps
  <1>3. /\ \A m \in Models : TurnHolders(m)' = IF m = p THEN TurnHolders(m) \cup {r} ELSE TurnHolders(m)
        /\ r \notin TurnHolders(p)
    BY <1>1, <1>2, TurnMoves, Zenon DEF Moves
  <1>4. h' = [h EXCEPT ![p] = h[p] \cup {r}]
    BY <1>3, Zenon
  <1>5. ModelSlots!Cardinality(TurnHolders(p)) = Cardinality(TurnHolders(p))
    BY Zenon DEF ModelSlots!Cardinality, Cardinality
  <1>6. Cardinality(TurnHolders(p)) < MaxConc
    BY <1>1, Zenon DEF Inv, QueueAccounting, TakeTurn
  <1> QED
    BY <1>1, <1>3, <1>4, <1>5, <1>6, Zenon DEF ModelSlots!Acquire

\* The receive from the semaphore gives the turn back.
LEMMA TurnGiven ==
    ASSUME Inv, NEW r \in Requests, ReleaseQueue(r)
    PROVE  ModelSlots!Release(r, Model(r)) /\ Model(r) \in Models
  <1> DEFINE p == Model(r)
             h == [m \in Models |-> TurnHolders(m)]
  <1>1. Moves(r, {"relqueue"}, {"relconc"}) /\ p \in Models
    BY ServeTable, LocalFields, Zenon DEF Inv, TypeOK, Model
  <1>2. QueueEnabled
    BY <1>1, Zenon DEF Moves, Inv, HandlerShape
  <1>3. pc[r] \in TurnSteps /\ pc'[r] \notin TurnSteps
    BY <1>1, <1>2, Zenon DEF Moves, TurnSteps, QueueHeldSteps
  <1>4. /\ \A m \in Models : TurnHolders(m)' = IF m = p THEN TurnHolders(m) \ {r} ELSE TurnHolders(m)
        /\ r \in TurnHolders(p)
    BY <1>1, <1>3, TurnMoves, Zenon DEF Moves
  <1>5. h' = [h EXCEPT ![p] = h[p] \ {r}]
    BY <1>4, Zenon
  <1> QED
    BY <1>1, <1>4, <1>5, Zenon DEF ModelSlots!Release

\* Every step of Gateway is a step of the pool of a model's turns, or none.
LEMMA ModelPoolStep ==
    ASSUME Inv, Next
    PROVE  ModelSlots!PoolNext \/ UNCHANGED ModelSlots!poolVars
  <1> TypeOK /\ HandlerShape
    BY Zenon DEF Inv
  <1>1. ASSUME NEW r \in Requests, Arrive(r) PROVE UNCHANGED ModelSlots!poolVars
    <2>1. OnlyMoves(r) /\ pc[r] = "done" /\ pc'[r] = "idle"
      BY <1>1, GotoEffect, IncomingEffect, StepFacts, Zenon DEF TypeOK, Arrive, OnlyMoves
    <2>2. \A m \in Models : TurnHolders(m)' = TurnHolders(m)
      BY <2>1, Zenon DEF OnlyMoves, Model, TurnHolders, QueueHeldSteps
    <2> QED
      BY <2>2, ModelPoolKept, Zenon
  <1>2. ASSUME NEW r \in Requests, Validate(r) \/ Lookup(r) \/ Reserve(r) \/ CheckQuota(r)
                                   \/ ReadLimit(r) \/ AcquireConc(r) \/ Delay(r)
        PROVE UNCHANGED ModelSlots!poolVars
    <2>1. /\ OnlyMoves(r) /\ KeepsName(r)
          /\ pc[r] \in {"idle", "lookup", "reserve", "quota", "limit", "concurrency", "delay"}
          /\ pc'[r] \in {"done", "lookup", "reserve", "quota", "limit", "concurrency", "delay",
                         "relconc", QueueStep}
      BY <1>2, AdmissionTable, Zenon DEF Moves
    <2>2. pc[r] \notin TurnSteps /\ pc'[r] \notin TurnSteps
      BY <2>1, Zenon DEF QueueStep, TurnSteps, QueueHeldSteps
    <2> QED
      BY <2>1, <2>2, TurnKept, Zenon
  <1>3. ASSUME NEW r \in Requests, EnterQueue(r) \/ GiveUp(r) \/ LeaveQueue(r) \/ Account(r)
        PROVE UNCHANGED ModelSlots!poolVars
    <2>1. /\ OnlyMoves(r) /\ KeepsName(r)
          /\ \/ pc[r] = "dequeue" /\ pc'[r] = "account"
             \/ pc[r] = "account" /\ pc'[r] = "route"
             \/ pc[r] \in {"queue", "waiting", "refused"} /\ pc'[r] \in {"refused", "waiting", "relconc"}
      BY <1>3, QueueTable, Zenon DEF Moves
    <2>2. pc[r] = "dequeue" => QueueEnabled
      BY Zenon DEF HandlerShape
    <2>3. pc[r] \in TurnSteps <=> pc'[r] \in TurnSteps
      BY <2>1, <2>2, Zenon DEF TurnSteps, QueueHeldSteps
    <2> QED
      BY <2>1, <2>3, TurnKept, Zenon
  <1>4. ASSUME NEW r \in Requests, Route(r) \/ TakeSlot(r) \/ LoseSlot(r) \/ Reroute(r) \/ Rebuild(r)
                                   \/ ReportUsage(r) \/ Finish(r) \/ Settle(r)
        PROVE UNCHANGED ModelSlots!poolVars
    <2>1. /\ OnlyMoves(r) /\ KeepsName(r) /\ pc[r] \in QueueHeldSteps
          /\ pc'[r] \in QueueHeldSteps \/ (~QueueEnabled /\ pc'[r] = "relconc")
      BY <1>4, ServeTable, Zenon DEF Moves, ReleaseStep, QueueHeldSteps
    <2>2. pc[r] \in TurnSteps <=> pc'[r] \in TurnSteps
      BY <2>1, Zenon DEF TurnSteps, QueueHeldSteps
    <2> QED
      BY <2>1, <2>2, TurnKept, Zenon
  <1>5. ASSUME NEW r \in Requests, ReleaseConc(r) PROVE UNCHANGED ModelSlots!poolVars
    <2>1. Moves(r, {"relconc"}, {"done"})
      BY <1>5, ServeTable, Zenon
    <2>2. pc[r] \notin TurnSteps /\ pc'[r] \notin TurnSteps
      BY <2>1, Zenon DEF Moves, TurnSteps, QueueHeldSteps
    <2> QED
      BY <2>1, <2>2, TurnKept, Zenon DEF Moves
  <1>6. ASSUME NEW r \in Requests, TakeTurn(r) \/ ReleaseQueue(r) PROVE ModelSlots!PoolNext
    <2>1. Model(r) \in Models
      BY LocalFields, Zenon DEF TypeOK, Model
    <2> QED
      BY <1>6, <2>1, TurnTaken, TurnGiven, Zenon DEF ModelSlots!PoolNext
  <1>7. ASSUME Administer PROVE UNCHANGED ModelSlots!poolVars
    <2>1. pc' = pc /\ rq' = rq
      BY <1>7, Zenon DEF Administer, SetUp, SetServes, SetSlotLimit, SetConcLimit, SetEnabled
    <2>2. \A m \in Models : TurnHolders(m)' = TurnHolders(m)
      BY <2>1, Zenon DEF TurnHolders, Model
    <2> QED
      BY <2>2, ModelPoolKept, Zenon
  <1> QED
    BY <1>1, <1>2, <1>3, <1>4, <1>5, <1>6, <1>7, Zenon DEF Next, Handle, Admit, Serve

\* The queue's semaphore implements a pool of per_model_limit named turns per
\* model: a timer or a cancellation that wins the select holds none.
THEOREM TurnsArePool == Spec => ModelSlots!PoolSpec
  <1>1. Init => ModelSlots!PoolInit
    <2> SUFFICES ASSUME Init PROVE ModelSlots!PoolInit
      BY Zenon
    <2>1. \A m \in Models : TurnHolders(m) = {}
      BY Zenon DEF Init, TurnHolders, QueueHeldSteps
    <2> QED
      BY <2>1, Zenon DEF ModelSlots!PoolInit
  <1>2. Inv /\ [Next]_vars => [ModelSlots!PoolNext]_(ModelSlots!poolVars)
    <2>1. ASSUME UNCHANGED vars PROVE UNCHANGED ModelSlots!poolVars
      <3>1. pc' = pc /\ rq' = rq
        BY <2>1, Zenon DEF vars
      <3>2. \A m \in Models : TurnHolders(m)' = TurnHolders(m)
        BY <3>1, Zenon DEF TurnHolders, Model
      <3> QED
        BY <3>2, ModelPoolKept, Zenon
    <2> QED
      BY <2>1, ModelPoolStep, Zenon
  <1> QED
    BY <1>1, <1>2, Invariance, PTL DEF Spec, ModelSlots!PoolSpec

\* Both: AcquireSlot and the semaphore never exceed the limit in force, and only
\* a holder gives a slot or a turn back.
THEOREM SlotsArePools == Spec => SlotsImplementPools
  BY BackendSlotsArePool, TurnsArePool, Zenon DEF SlotsImplementPools

=============================================================================
