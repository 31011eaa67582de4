---------------------------- MODULE AdminProofs ----------------------------
(***************************************************************************)
(* Proofs about concurrent admin requests and probes: the loops of a       *)
(* backend, the tables of API keys and the status of a backend, for any    *)
(* number of requests, objects, goroutines, hashes and probers and for any *)
(* thresholds.                                                             *)
(***************************************************************************)
EXTENDS MCAdmin, TLAPS

(* The loops of a backend *)

\* The handlers' locals: a handler between its lookup and AddBackend holds an
\* object, one that is closing holds a channel, and no one else does.
Locals ==
    \A a \in Admins :
        /\ pc[a] \in {"patching", "adding"} => held[a] # None
        /\ pc[a] = "closing" <=> victim[a] # None

Inv == /\ TypeOK /\ Locals
       /\ EveryLoopCanBeStopped /\ ChannelsAreClosedOnce
       /\ registered \notin closed

Safe == EveryLoopCanBeStopped /\ ChannelsAreClosedOnce /\ registered \notin closed

\* Inv holds when the checker has started its loops.
LEMMA LoopsInit == Init => Inv
<1> SUFFICES ASSUME Init PROVE Inv
  BY Zenon
<1>1. TypeOK
  BY Zenon DEF Init, TypeOK, Steps
<1>2. Locals /\ EveryLoopCanBeStopped /\ ChannelsAreClosedOnce /\ registered \notin closed
  BY Zenon DEF Init, Locals, EveryLoopCanBeStopped, ChannelsAreClosedOnce, Closing, Running
<1> QED BY <1>1, <1>2, Zenon DEF Inv

\* Types and locals survive every step of the handlers and the loops.
LEMMA LoopsTypeStep == TypeOK /\ Locals /\ [Next]_vars => (TypeOK /\ Locals)'
<1> SUFFICES ASSUME TypeOK, Locals, [Next]_vars PROVE (TypeOK /\ Locals)'
  BY Zenon
<1> USE LoopsAssumption DEF TypeOK, Locals, table, threads, Steps
<1>1. ASSUME NEW a \in Admins, Create(a) PROVE (TypeOK /\ Locals)'
  BY <1>1 DEF Create
<1>2. ASSUME NEW a \in Admins, Load(a) PROVE (TypeOK /\ Locals)'
  BY <1>2, Zenon DEF Load
<1>3. ASSUME NEW a \in Admins, Store(a) PROVE (TypeOK /\ Locals)'
  BY <1>3 DEF Store
<1>4. ASSUME NEW a \in Admins, Delete(a) PROVE (TypeOK /\ Locals)'
  BY <1>4, Zenon DEF Delete
<1>5. ASSUME NEW a \in Admins, Unregister(a) PROVE (TypeOK /\ Locals)'
  BY <1>5 DEF Unregister, AfterRemove
<1>6. ASSUME NEW a \in Admins, CloseChannel(a) PROVE (TypeOK /\ Locals)'
  BY <1>6, Zenon DEF CloseChannel, AfterRemove
<1>7. ASSUME NEW a \in Admins, AddBackend(a) PROVE (TypeOK /\ Locals)'
  BY <1>7 DEF AddBackend
<1>8. ASSUME NEW g \in Loops, Live(g) PROVE (TypeOK /\ Locals)'
  BY <1>8 DEF Live, Begin, Exit
<1>9. CASE Stop
  BY <1>9, Zenon DEF Stop
<1>10. CASE UNCHANGED vars
  BY <1>10, Zenon DEF vars
<1> QED
  BY <1>1, <1>2, <1>3, <1>4, <1>5, <1>6, <1>7, <1>8, <1>9, <1>10, Zenon
  DEF Next, Start, Continue, Stopped, Tick

\* No step loses a running loop or closes a channel twice.
LEMMA LoopsSafetyStep ==
    Inv /\ [Next]_vars => Safe'
<1> SUFFICES ASSUME Inv, [Next]_vars
             PROVE  Safe'
  BY Zenon
<1> USE LoopsAssumption
    DEF Inv, Safe, TypeOK, Locals, EveryLoopCanBeStopped, ChannelsAreClosedOnce,
        Closing, Running, table, threads, Steps
<1>1. CASE UNCHANGED <<registered, state, closed, victim>> /\
           \A b \in Admins : pc'[b] = "closing" <=> pc[b] = "closing"
  BY <1>1
<1>2. ASSUME NEW a \in Admins, Create(a) \/ Load(a) \/ Store(a) \/ Delete(a)
      PROVE  Safe'
  BY <1>1, <1>2 DEF Create, Load, Store, Delete
<1>3. ASSUME NEW a \in Admins, Unregister(a)
      PROVE  Safe'
  <2>1. CASE registered = None
    BY <1>3, <2>1, <1>1 DEF Unregister, AfterRemove
  <2>2. CASE registered # None
    <3>1. /\ registered' = None /\ victim'[a] = registered /\ pc'[a] = "closing"
          /\ \A b \in Admins \ {a} : pc'[b] = pc[b] /\ victim'[b] = victim[b]
          /\ UNCHANGED <<state, closed>>
      BY <1>3, <2>2 DEF Unregister
    <3>2. EveryLoopCanBeStopped'
      <4> SUFFICES ASSUME NEW g \in Loops, Running(g)', g \notin closed'
                   PROVE  \E b \in Admins : Closing(b, g)'
        BY <3>1, Zenon
      <4>1. CASE g = registered
        BY <4>1, <3>1, Zenon
      <4>2. CASE g # registered
        <5>1. PICK b \in Admins : Closing(b, g)
          BY <4>2, <3>1, Zenon
        <5>2. b # a
          BY <5>1, <1>3, Zenon DEF Unregister
        <5> QED BY <5>1, <5>2, <3>1, Zenon
      <4> QED BY <4>1, <4>2, Zenon
    <3>3. ChannelsAreClosedOnce' /\ registered' \notin closed'
      BY <3>1, <2>2
    <3> QED BY <3>2, <3>3, Zenon
  <2> QED BY <2>1, <2>2, Zenon
<1>4. ASSUME NEW a \in Admins, CloseChannel(a)
      PROVE  Safe'
  BY <1>4 DEF CloseChannel, AfterRemove
<1>5. ASSUME NEW a \in Admins, AddBackend(a)
      PROVE  Safe'
  BY <1>5 DEF AddBackend, NewLoop
<1>6. ASSUME NEW g \in Loops, Live(g)
      PROVE  Safe'
  BY <1>6 DEF Live, Begin, Exit
<1>7. CASE Stop \/ UNCHANGED vars
  BY <1>7, <1>1, Zenon DEF Stop, vars
<1> QED
  BY <1>2, <1>3, <1>4, <1>5, <1>6, <1>7, Zenon DEF Next, Start, Continue, Stopped, Tick

\* Inv is inductive, so it holds in every reachable state.
THEOREM LoopsInvariance == Spec => []Inv
<1>1. Inv /\ [Next]_vars => Inv'
  BY LoopsTypeStep, LoopsSafetyStep, Zenon DEF Inv, Safe
<1> QED BY LoopsInit, <1>1, PTL DEF Spec

\* Every variable of the checker, the handlers and the loops keeps its type.
THEOREM LoopsTypeCorrect == Spec => []TypeOK
BY LoopsInvariance, PTL DEF Inv

\* However create, patch and delete interleave, a running loop is registered,
\* told to stop, or about to be told: no goroutine is out of reach.
THEOREM NoLoopIsLost == Spec => []EveryLoopCanBeStopped
BY LoopsInvariance, PTL DEF Inv

\* No two RemoveBackend calls close the same channel.
THEOREM NoDoubleClose == Spec => []ChannelsAreClosedOnce
BY LoopsInvariance, PTL DEF Inv

-----------------------------------------------------------------------------
(* Requests on the backend that come one at a time *)

\* One handler is under way at most; one that holds an object works for a
\* stored backend, and a deleted backend has a loop only until its handler
\* has reached RemoveBackend.
OneAtATime ==
    /\ \A a \in Admins : pc[a] = "idle" => held[a] = None
    /\ alone => /\ \A a, c \in Admins : pc[a] # "idle" /\ pc[c] # "idle" => a = c
                /\ \A a \in Admins : held[a] # None => stored # None
                /\ stored = None => registered = None \/ \E a \in Admins : pc[a] = "removing"

\* No step of a handler or a loop breaks that.
LEMMA OneAtATimeStep == Inv /\ OneAtATime /\ [LoopsNext]_adminvars => OneAtATime'
<1> SUFFICES ASSUME Inv, OneAtATime, [LoopsNext]_adminvars PROVE OneAtATime'
  BY Zenon
<1>1. CASE UNCHANGED adminvars
  BY <1>1, Zenon DEF OneAtATime, adminvars, vars, table
<1>2. CASE LoopsNext
  <2>1. /\ alone' = alone
        /\ alone => \A a, c \in Admins : pc'[a] # "idle" /\ pc'[c] # "idle" => a = c
    BY <1>2, Zenon DEF LoopsNext
  <2> USE <2>1, LoopsAssumption DEF Inv, TypeOK, Locals, OneAtATime, table, threads, Steps
  <2>2. ASSUME NEW a \in Admins, Create(a) PROVE OneAtATime'
    BY <2>2 DEF Create
  <2>3. ASSUME NEW a \in Admins, Load(a) PROVE OneAtATime'
    BY <2>3, Zenon DEF Load
  <2>4. ASSUME NEW a \in Admins, Store(a) PROVE OneAtATime'
    BY <2>4 DEF Store
  <2>5. ASSUME NEW a \in Admins, Delete(a) PROVE OneAtATime'
    BY <2>5 DEF Delete
  <2>6. ASSUME NEW a \in Admins, Unregister(a) PROVE OneAtATime'
    BY <2>6 DEF Unregister, AfterRemove
  <2>7. ASSUME NEW a \in Admins, CloseChannel(a) PROVE OneAtATime'
    BY <2>7, Zenon DEF CloseChannel, AfterRemove
  <2>8. ASSUME NEW a \in Admins, AddBackend(a) PROVE OneAtATime'
    BY <2>8 DEF AddBackend
  <2>9. CASE UNCHANGED <<stored, registered, pc, held>>
    BY <2>9, Zenon
  <2> QED
    BY <1>2, <2>2, <2>3, <2>4, <2>5, <2>6, <2>7, <2>8, <2>9, Zenon
    DEF LoopsNext, Next, Start, Continue, Live, Begin, Exit, Tick, Stop, Stopped, vars
<1> QED BY <1>1, <1>2, Zenon

\* With admin requests one at a time, for any number of objects and loops,
\* a deleted backend has no loop in the checker's table once deleteBackend
\* has returned.
THEOREM DeletedIsForgotten == LoopsSpec => []DeleteEndsProbing
<1>1. MCInit => OneAtATime
  BY LoopsAssumption, Zenon DEF MCInit, Init, OneAtATime
<1>2. LoopsSpec => Spec
  <2>1. [LoopsNext]_adminvars => [Next]_vars
    BY Zenon DEF LoopsNext, adminvars
  <2> QED BY <2>1, PTL DEF LoopsSpec, TablesInit, MCInit, Spec
<1>3. LoopsSpec => []Inv
  BY <1>2, LoopsInvariance, PTL
<1>4. OneAtATime => DeleteEndsProbing
  BY Zenon DEF OneAtATime, DeleteEndsProbing, DeletedIsNotProbed, Quiet
<1> QED BY <1>1, <1>3, <1>4, OneAtATimeStep, PTL DEF LoopsSpec, TablesInit

-----------------------------------------------------------------------------
(* The tables of API keys *)

\* An object in use has a hash unless a rotation is about to give it one.
HashOrIssuing ==
    \A o \in KeyObjects : /\ o = entry \/ \E a \in Admins : keyHeld[a] = o
                          /\ hash[o] = None
                          => Keys!Issuing(o)

\* The index agrees with the listed key as long as that has a hash.
ListedHashIndexed ==
    entry # None /\ hash[entry] # None => index[hash[entry]] = entry

KeysInv == Keys!TypeOK /\ HashOrIssuing /\ ListedHashIndexed

\* What a store operation and a handler step do to the typed state.
LEMMA KeysTypeStep == Keys!TypeOK /\ [Keys!Next]_(Keys!vars) => Keys!TypeOK'
<1> SUFFICES ASSUME Keys!TypeOK, [Keys!Next]_(Keys!vars) PROVE Keys!TypeOK'
  BY Zenon
<1> USE KeysAssumption DEF Keys!WellFormed, Keys!TypeOK, Keys!Steps, Keys!Goto
<1>1. ASSUME NEW a \in Admins, Keys!Create(a) PROVE Keys!TypeOK'
  BY <1>1 DEF Keys!Create, Keys!UpsertAPIKey
<1>2. ASSUME NEW a \in Admins, Keys!Delete(a) PROVE Keys!TypeOK'
  BY <1>2, Zenon DEF Keys!Delete, Keys!DeleteAPIKey
<1>3. ASSUME NEW a \in Admins, Keys!Load(a) PROVE Keys!TypeOK'
  BY <1>3 DEF Keys!Load, Keys!Found
<1>4. ASSUME NEW a \in Admins, Keys!Patch(a) PROVE Keys!TypeOK'
  BY <1>4, Zenon DEF Keys!Patch, Keys!UpsertAPIKey
<1>5. ASSUME NEW a \in Admins, Keys!RotateDelete(a) PROVE Keys!TypeOK'
  BY <1>5, Zenon DEF Keys!RotateDelete, Keys!DeleteAPIKey
<1>6. ASSUME NEW a \in Admins, Keys!RotateClear(a) PROVE Keys!TypeOK'
  BY <1>6, Zenon DEF Keys!RotateClear
<1>7. ASSUME NEW a \in Admins, Keys!RotateIssue(a) PROVE Keys!TypeOK'
  BY <1>7 DEF Keys!RotateIssue, Keys!UpsertAPIKey
<1>8. CASE UNCHANGED Keys!vars
  BY <1>8, Zenon DEF Keys!vars
<1> QED BY <1>1, <1>2, <1>3, <1>4, <1>5, <1>6, <1>7, <1>8, Zenon DEF Keys!Next

\* Every step keeps the listed key's hash in the index and lets only a
\* rotation in progress leave a key without a hash.
LEMMA KeysStep == KeysInv /\ [Keys!Next]_(Keys!vars) => (HashOrIssuing /\ ListedHashIndexed)'
<1> SUFFICES ASSUME KeysInv, [Keys!Next]_(Keys!vars) PROVE (HashOrIssuing /\ ListedHashIndexed)'
  BY Zenon
<1> USE KeysAssumption
    DEF Keys!WellFormed, KeysInv, Keys!TypeOK, HashOrIssuing, ListedHashIndexed,
        Keys!Issuing, Keys!Steps, Keys!Goto
<1>1. ASSUME NEW a \in Admins, Keys!Create(a) PROVE (HashOrIssuing /\ ListedHashIndexed)'
  BY <1>1 DEF Keys!Create, Keys!UpsertAPIKey, Keys!NewObject
<1>2. ASSUME NEW a \in Admins, Keys!Delete(a) PROVE (HashOrIssuing /\ ListedHashIndexed)'
  BY <1>2, Zenon DEF Keys!Delete, Keys!DeleteAPIKey
<1>3. ASSUME NEW a \in Admins, Keys!Load(a) PROVE (HashOrIssuing /\ ListedHashIndexed)'
  BY <1>3 DEF Keys!Load, Keys!Found
<1>4. ASSUME NEW a \in Admins, Keys!Patch(a) PROVE (HashOrIssuing /\ ListedHashIndexed)'
  BY <1>4 DEF Keys!Patch, Keys!UpsertAPIKey
<1>5. ASSUME NEW a \in Admins, Keys!RotateDelete(a) PROVE (HashOrIssuing /\ ListedHashIndexed)'
  BY <1>5, Zenon DEF Keys!RotateDelete, Keys!DeleteAPIKey
<1>6. ASSUME NEW a \in Admins, Keys!RotateClear(a) PROVE (HashOrIssuing /\ ListedHashIndexed)'
  BY <1>6, Zenon DEF Keys!RotateClear
<1>7. ASSUME NEW a \in Admins, Keys!RotateIssue(a) PROVE (HashOrIssuing /\ ListedHashIndexed)'
  BY <1>7 DEF Keys!RotateIssue, Keys!UpsertAPIKey
<1>8. CASE UNCHANGED Keys!vars
  BY <1>8, Zenon DEF Keys!vars
<1> QED BY <1>1, <1>2, <1>3, <1>4, <1>5, <1>6, <1>7, <1>8, Zenon DEF Keys!Next

\* KeysInv is inductive, so it holds in every reachable state.
THEOREM KeysInvariance == Keys!Spec => []KeysInv
<1>1. Keys!Init => KeysInv
  BY KeysAssumption, Zenon
  DEF Keys!WellFormed, Keys!Init, KeysInv, Keys!TypeOK, HashOrIssuing, ListedHashIndexed, Keys!Steps
<1>2. KeysInv /\ [Keys!Next]_(Keys!vars) => KeysInv'
  BY KeysTypeStep, KeysStep, Zenon DEF KeysInv
<1> QED BY <1>1, <1>2, PTL DEF Keys!Spec

\* Both tables and the handlers' locals keep their types.
THEOREM KeysTypeCorrect == Keys!Spec => []Keys!TypeOK
BY KeysInvariance, PTL DEF KeysInv

\* A key that the admin API lists can authenticate, whatever admin requests
\* overlap: UpsertAPIKey never lists a key it does not index.
THEOREM ListedKeysWork == Keys!Spec => []ListedKeyIsIndexed
<1>1. KeysInv => ListedKeyIsIndexed
  BY Zenon
  DEF KeysInv, Keys!TypeOK, HashOrIssuing, ListedHashIndexed, ListedKeyIsIndexed,
      Keys!ListedKeyIsIndexed
<1> QED BY <1>1, KeysInvariance, PTL

-----------------------------------------------------------------------------
(* Requests on the key that come one at a time *)

\* One handler is under way at most, and it works on the listed key until a
\* rotation has taken that out of the tables; a hash finds the listed key
\* only, and only by its current hash.
KeysOneAtATime ==
    alone => /\ \A a, c \in Admins : keyPc[a] # "idle" /\ keyPc[c] # "idle" => a = c
             /\ \A a \in Admins : keyPc[a] \in {"patching", "rotating"} => keyHeld[a] = entry
             /\ \A a \in Admins : keyPc[a] \in {"clearing", "issuing"} => entry = None
             /\ \A h \in Hashes : index[h] # None => index[h] = entry /\ hash[entry] = h

\* No handler step breaks that.
LEMMA KeysOneAtATimeStep == KeysInv /\ KeysOneAtATime /\ [KeysNext]_adminvars => KeysOneAtATime'
<1> SUFFICES ASSUME KeysInv, KeysOneAtATime, alone, [KeysNext]_adminvars PROVE KeysOneAtATime'
  BY Zenon DEF KeysOneAtATime, KeysNext, adminvars
<1>1. CASE UNCHANGED adminvars
  BY <1>1, Zenon DEF KeysOneAtATime, adminvars, keyvars
<1>2. CASE KeysNext
  <2>1. /\ alone'
        /\ \A a, c \in Admins : keyPc'[a] # "idle" /\ keyPc'[c] # "idle" => a = c
        /\ entry # None => entry' \in {entry, None}
        /\ entry' # entry => \A a \in Admins : keyPc[a] # "idle" => keyPc'[a] # keyPc[a]
    BY <1>2, Zenon DEF KeysNext
  <2> USE <2>1, KeysAssumption
      DEF Keys!WellFormed, KeysInv, Keys!TypeOK, HashOrIssuing, Keys!Issuing,
          ListedHashIndexed, KeysOneAtATime, Keys!Steps, Keys!Goto
  <2>2. ASSUME NEW a \in Admins, Keys!Create(a) PROVE KeysOneAtATime'
    BY <2>2 DEF Keys!Create, Keys!UpsertAPIKey, Keys!NewObject, Keys!NewHash
  <2>3. ASSUME NEW a \in Admins, Keys!Delete(a) PROVE KeysOneAtATime'
    BY <2>3, Zenon DEF Keys!Delete, Keys!DeleteAPIKey
  <2>4. ASSUME NEW a \in Admins, Keys!Load(a) PROVE KeysOneAtATime'
    BY <2>4 DEF Keys!Load, Keys!Found
  <2>5. ASSUME NEW a \in Admins, Keys!Patch(a) PROVE KeysOneAtATime'
    BY <2>5 DEF Keys!Patch, Keys!UpsertAPIKey
  <2>6. ASSUME NEW a \in Admins, Keys!RotateDelete(a) PROVE KeysOneAtATime'
    BY <2>6 DEF Keys!RotateDelete, Keys!DeleteAPIKey
  <2>7. ASSUME NEW a \in Admins, Keys!RotateClear(a) PROVE KeysOneAtATime'
    BY <2>7, Zenon DEF Keys!RotateClear
  <2>8. ASSUME NEW a \in Admins, Keys!RotateIssue(a) PROVE KeysOneAtATime'
    BY <2>8 DEF Keys!RotateIssue, Keys!UpsertAPIKey, Keys!NewHash
  <2> QED BY <1>2, <2>2, <2>3, <2>4, <2>5, <2>6, <2>7, <2>8, Zenon DEF KeysNext, Keys!Next
<1> QED BY <1>1, <1>2, Zenon

\* With admin requests one at a time, for any number of keys and hashes, no
\* create, patch, rotation or delete leaves an entry of keyByHash behind.
THEOREM IndexHasNoLeftovers == KeysSpec => []SequentialIndexIsExact
<1>1. MCInit => KeysOneAtATime
  BY KeysAssumption, Zenon DEF Keys!WellFormed, MCInit, Keys!Init, KeysOneAtATime
<1>2. KeysSpec => Keys!Spec
  <2>1. [KeysNext]_adminvars => [Keys!Next]_(Keys!vars)
    BY Zenon DEF KeysNext, adminvars, keyvars, Keys!vars
  <2> QED BY <2>1, PTL DEF KeysSpec, TablesInit, MCInit, Keys!Spec
<1>3. KeysSpec => []KeysInv
  BY <1>2, KeysInvariance, PTL
<1>4. KeysOneAtATime => SequentialIndexIsExact
  BY Zenon DEF KeysOneAtATime, SequentialIndexIsExact, Keys!IndexIsExact
<1> QED BY <1>1, <1>3, <1>4, KeysOneAtATimeStep, PTL DEF KeysSpec, TablesInit

-----------------------------------------------------------------------------
(* The status of a backend *)

\* Every variable keeps its type: no order of probes and admin requests
\* records a status or a streak outside its range.
THEOREM HealthTypeCorrect == Health!Spec => []Health!TypeOK
<1>1. Health!Init => Health!TypeOK
  BY HealthAssumption
  DEF Health!WellFormed, Health!Init, Health!TypeOK, Health!Probers, Health!Statuses,
      Health!Answers, Health!NoAnswer, Health!NoStatus
<1>2. Health!TypeOK /\ [Health!Next]_(Health!vars) => Health!TypeOK'
  <2> SUFFICES ASSUME Health!TypeOK, [Health!Next]_(Health!vars) PROVE Health!TypeOK'
    BY Zenon
  <2> USE HealthAssumption DEF Health!WellFormed, Health!TypeOK, Health!backend
  <2>1. ASSUME NEW p \in Health!Probers, Health!Probe(p) PROVE Health!TypeOK'
    BY <2>1, Zenon DEF Health!Probe
  <2>2. ASSUME NEW p \in Health!Probers, Health!ReadPrev(p) PROVE Health!TypeOK'
    BY <2>2, Zenon DEF Health!ReadPrev, Health!Status, Health!Statuses
  <2>3. ASSUME NEW p \in Health!Probers, Health!Record(p) PROVE Health!TypeOK'
    <3>1. status' \in Health!Statuses /\ fails' \in 0 .. FailThr /\ succs' \in 0 .. SuccThr
      BY <2>3
      DEF Health!Record, Health!RecordSuccess, Health!RecordFailure, Health!MarkDegraded,
          Health!Bump, Health!Statuses
    <3>2. /\ probePc' \in [Health!Probers -> {"idle", "answered", "recording", "telling"}]
          /\ answer' \in [Health!Probers -> Health!Answers]
          /\ prev' \in [Health!Probers -> Health!Statuses \cup {"disabled"}]
          /\ told' \in [Health!Probers -> Health!Statuses]
      BY <2>3, <3>1, Zenon
      DEF Health!Record, Health!NoStatus, Health!NoAnswer, Health!Statuses, Health!Answers
    <3>3. UNCHANGED <<enabled, condition, gauge>>
      BY <2>3, Zenon DEF Health!Record
    <3> QED BY <3>1, <3>2, <3>3, Zenon
  <2>4. ASSUME NEW p \in Health!Probers, Health!Tell(p) PROVE Health!TypeOK'
    BY <2>4, Zenon DEF Health!Tell, Health!NoStatus, Health!Statuses
  <2>5. ASSUME NEW on \in BOOLEAN, Health!Maintain(on) PROVE Health!TypeOK'
    BY <2>5 DEF Health!Maintain, Health!MarkMaintenance, Health!Statuses
  <2>6. ASSUME NEW on \in BOOLEAN, Health!Toggle(on) PROVE Health!TypeOK'
    BY <2>6, Zenon DEF Health!Toggle
  <2>7. CASE Health!Change
    BY <2>7, Zenon DEF Health!Change
  <2>8. CASE UNCHANGED Health!vars
    BY <2>8, Zenon DEF Health!vars
  <2> QED BY <2>1, <2>2, <2>3, <2>4, <2>5, <2>6, <2>7, <2>8, Zenon DEF Health!Next, Health!Continue
<1> QED BY <1>1, <1>2, PTL DEF Health!Spec

\* Outside maintenance the recorded status is the one the streaks call for,
\* for every interleaving of RecordHealthCheck, MarkDegraded and
\* MarkMaintenance.
THEOREM StatusIsEarned == Health!Spec => []StatusFollowsStreaks
<1>1. Health!Init => StatusFollowsStreaks
  BY HealthAssumption
  DEF Health!WellFormed, Health!Init, StatusFollowsStreaks, Health!StatusFollowsStreaks
<1>2. Health!TypeOK /\ StatusFollowsStreaks /\ [Health!Next]_(Health!vars) => StatusFollowsStreaks'
  <2> SUFFICES ASSUME Health!TypeOK, StatusFollowsStreaks, [Health!Next]_(Health!vars)
               PROVE  StatusFollowsStreaks'
    BY Zenon
  <2> USE HealthAssumption DEF Health!WellFormed, StatusFollowsStreaks, Health!StatusFollowsStreaks
  <2>1. CASE UNCHANGED <<status, fails, succs>>
    BY <2>1, Zenon
  <2>2. CASE Health!RecordSuccess
    BY <2>2 DEF Health!RecordSuccess, Health!Bump, Health!TypeOK
  <2>3. CASE Health!RecordFailure
    BY <2>3 DEF Health!RecordFailure, Health!Bump, Health!TypeOK
  <2>4. CASE Health!MarkDegraded
    BY <2>4 DEF Health!MarkDegraded
  <2>5. ASSUME NEW on \in BOOLEAN, Health!MarkMaintenance(on) PROVE StatusFollowsStreaks'
    BY <2>5 DEF Health!MarkMaintenance
  <2>6. \/ UNCHANGED <<status, fails, succs>>
        \/ Health!RecordSuccess \/ Health!RecordFailure \/ Health!MarkDegraded
        \/ \E on \in BOOLEAN : Health!MarkMaintenance(on)
    BY Zenon
    DEF Health!Next, Health!Continue, Health!Probe, Health!ReadPrev, Health!Record,
        Health!Tell, Health!Maintain, Health!Toggle, Health!Change, Health!vars,
        Health!backend
  <2> QED BY <2>1, <2>2, <2>3, <2>4, <2>5, <2>6, Zenon
<1> QED BY <1>1, <1>2, HealthTypeCorrect, PTL DEF Health!Spec

\* A backend that failed its last FailThr probes gets no traffic.
THEOREM FailingGetsNoTraffic == Health!Spec => []Health!FailingIsNotRoutable
<1>1. StatusFollowsStreaks => Health!FailingIsNotRoutable
  BY Zenon
  DEF StatusFollowsStreaks, Health!StatusFollowsStreaks, Health!FailingIsNotRoutable,
      Health!Routable, Health!Status
<1> QED BY <1>1, StatusIsEarned, PTL

-----------------------------------------------------------------------------
(* The observers of a loop that probes alone *)

\* Why the observers follow: the loop's prev is the status it is about to
\* change, or "disabled", and what it tells is the status it recorded.
LoopAnnounces ==
    alone => /\ \A v \in Visitors : probePc[v] = "idle"
             /\ probePc[Loop] # "telling" => heard = status /\ (gauge = 1 <=> status = "healthy")
             /\ probePc[Loop] = "recording" => prev[Loop] \in {status, "disabled"}
             /\ probePc[Loop] = "telling" => /\ told[Loop] = status
                                             /\ prev[Loop] \in {heard, "disabled"}

\* A step of the loop keeps the announcements in line with the status.
LEMMA LoopStepAnnounces ==
    ASSUME Health!TypeOK, LoopAnnounces, HealthNext, Health!Probe(Loop) \/ Health!Continue(Loop)
    PROVE  LoopAnnounces'
<1> SUFFICES ASSUME alone PROVE LoopAnnounces'
  BY Zenon DEF HealthNext, Hear, LoopAnnounces
<1>1. /\ alone' /\ \A v \in Visitors : probePc'[v] = "idle"
      /\ heard' = IF probePc[Loop] = "telling" /\ probePc'[Loop] = "idle" THEN told[Loop] ELSE heard
  BY Zenon DEF HealthNext, Hear
<1>2. Loop \in Health!Probers
  BY Zenon DEF Health!Probers
<1> USE <1>1, <1>2 DEF Health!TypeOK, LoopAnnounces, Health!backend
<1>3. CASE Health!Probe(Loop)
  BY <1>3, Zenon DEF Health!Probe
<1>4. CASE Health!ReadPrev(Loop)
  BY <1>4, Zenon DEF Health!ReadPrev, Health!Status
<1>5. CASE Health!Record(Loop)
  BY <1>5 DEF Health!Record, Health!RecordSuccess, Health!RecordFailure, Health!MarkDegraded
<1>6. CASE Health!Tell(Loop)
  BY <1>6 DEF Health!Tell
<1> QED BY <1>3, <1>4, <1>5, <1>6, Zenon DEF Health!Continue

\* So does every other step that leaves the loop to probe alone.
LEMMA HealthStepAnnounces == Health!TypeOK /\ LoopAnnounces /\ [HealthNext]_adminvars => LoopAnnounces'
<1> SUFFICES ASSUME Health!TypeOK, LoopAnnounces, [HealthNext]_adminvars, alone PROVE LoopAnnounces'
  BY Zenon DEF HealthNext, Hear, LoopAnnounces, adminvars, healthvars
<1>1. CASE UNCHANGED adminvars
  BY <1>1, Zenon DEF adminvars, healthvars, Health!vars, Health!backend, LoopAnnounces
<1>2. CASE HealthNext
  <2>1. /\ alone' /\ \A v \in Visitors : probePc'[v] = "idle"
        /\ heard' = IF probePc[Loop] = "telling" /\ probePc'[Loop] = "idle" THEN told[Loop] ELSE heard
        /\ \A on \in BOOLEAN : ~Health!Maintain(on)
    BY <1>2, Zenon DEF HealthNext, Hear
  <2>2. CASE Health!Probe(Loop) \/ Health!Continue(Loop)
    BY <1>2, <2>2, LoopStepAnnounces, Zenon
  <2>3. ASSUME NEW v \in Visitors, Health!Probe(v) \/ Health!Continue(v) PROVE FALSE
    <3>1. probePc[v] = "idle" /\ v \in Health!Probers
      BY Zenon DEF LoopAnnounces, Health!Probers
    <3>2. Health!Probe(v)
      BY <2>3, <3>1, Zenon DEF Health!Continue, Health!ReadPrev, Health!Record, Health!Tell
    <3> QED BY <3>1, <3>2, <2>1, Zenon DEF Health!Probe, Health!TypeOK
  <2>4. CASE Health!Change \/ \E on \in BOOLEAN : Health!Toggle(on)
    BY <2>1, <2>4, Zenon DEF LoopAnnounces, Health!Change, Health!Toggle, Health!backend
  <2> QED BY <1>2, <2>1, <2>2, <2>3, <2>4, Zenon DEF HealthNext, Health!Next, Health!Probers
<1> QED BY <1>1, <1>2, Zenon

\* If the loop alone probes and maintenance is not used, whatever thresholds
\* it counts to and however the enabled flag is toggled, its observers end
\* each announcement at the backend's status and begin the next one there
\* (record, recordDegraded, emit).
THEOREM ObserversAreInformed == HealthSpec => []ObserversFollow
<1>1. MCInit => LoopAnnounces
  BY DEF MCInit, Health!Init, LoopAnnounces, Health!Probers
<1>2. HealthSpec => Health!Spec
  <2>1. [HealthNext]_adminvars => [Health!Next]_(Health!vars)
    BY Zenon DEF HealthNext, adminvars, healthvars, Health!vars, Health!backend
  <2> QED BY <2>1, PTL DEF HealthSpec, MCInit, Health!Spec
<1>3. HealthSpec => []Health!TypeOK
  BY <1>2, HealthTypeCorrect, PTL
<1>4. LoopAnnounces => ObserversFollow
  BY Zenon DEF LoopAnnounces, ObserversFollow, Health!GaugeFollowsStatus, Health!Probers
<1> QED BY <1>1, <1>3, <1>4, HealthStepAnnounces, PTL DEF HealthSpec

=============================================================================
