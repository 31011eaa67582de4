------------------------------ MODULE MCAdmin ------------------------------
(***************************************************************************)
(* Concurrent admin requests on one backend ID (ProbeLoops) and on one key *)
(* ID (KeyIndex), and the probes of one backend object (BackendHealth),    *)
(* for TLC and for the proofs.  The tables of backends and of keys share   *)
(* nothing but the lock of the store, and a status is guarded by the lock  *)
(* of its object, so the steps on one of the three come while the others   *)
(* rest in an initial state.                                               *)
(***************************************************************************)
EXTENDS ProbeLoops, TLC

CONSTANTS
    KeyObjects, Hashes, Recreate,                        \* of KeyIndex
    Loop, Visitors, FailThr, SuccThr,                    \* of BackendHealth
    AllowDegraded, Maintainable, Toggleable

VARIABLES
    entry, index, hash, keyPc, keyHeld,                  \* KeyIndex
    enabled, status, fails, succs, condition, probePc,   \* BackendHealth
    answer, prev, told, gauge,
    heard,   \* what the observers of the probes were told last
    alone    \* requests come one at a time and, on the backend's object, no
             \* request probes it or puts it into maintenance

Keys   == INSTANCE KeyIndex WITH Objects <- KeyObjects, pc <- keyPc, held <- keyHeld
Health == INSTANCE BackendHealth WITH pc <- probePc

ASSUME KeysAssumption   == Keys!WellFormed
ASSUME HealthAssumption == Health!WellFormed

keyvars    == <<entry, index, hash, keyPc, keyHeld>>
healthvars == <<enabled, status, fails, succs, condition, probePc, answer, prev, told, gauge, heard>>
adminvars  == <<vars, keyvars, healthvars, alone>>

MCInit == Init /\ Keys!Init /\ Health!Init /\ heard = "unknown" /\ alone \in BOOLEAN

\* The backend is up while only the tables change.
TablesInit == MCInit /\ condition = "ok"

\* A step of a request on the backend, or of a loop.
LoopsNext ==
    /\ Next
    /\ alone => \A a, c \in Admins : pc'[a] # "idle" /\ pc'[c] # "idle" => a = c
    /\ UNCHANGED <<keyvars, healthvars, alone>>

LoopsSpec == /\ TablesInit /\ [][LoopsNext]_adminvars
             /\ \A a \in Admins : WF_adminvars(Continue(a) /\ UNCHANGED <<keyvars, healthvars, alone>>)
             /\ \A g \in Loops : WF_adminvars(Live(g) /\ UNCHANGED <<keyvars, healthvars, alone>>)

\* A step of a request on the key.  Requests that come one at a time create no
\* ID in use.
KeysNext ==
    /\ Keys!Next
    /\ alone => /\ \A a, c \in Admins : keyPc'[a] # "idle" /\ keyPc'[c] # "idle" => a = c
                /\ entry # None => entry' \in {entry, None}
                /\ entry' # entry => \A a \in Admins : keyPc[a] # "idle" => keyPc'[a] # keyPc[a]
    /\ UNCHANGED <<vars, healthvars, alone>>

KeysSpec == TablesInit /\ [][KeysNext]_adminvars

\* A step of a probe, of a request on the backend's object or of the backend,
\* and the observer of its loop.
Hear ==
    /\ heard' = IF alone /\ probePc[Loop] = "telling" /\ probePc'[Loop] = "idle" THEN told[Loop] ELSE heard
    /\ UNCHANGED <<vars, keyvars, alone>>

HealthNext ==
    /\ Health!Next
    /\ alone => /\ \A v \in Visitors : probePc'[v] = "idle"
                /\ \A on \in BOOLEAN : ~Health!Maintain(on)
    /\ Hear

HealthSpec == /\ MCInit /\ [][HealthNext]_adminvars
              /\ WF_adminvars(Health!Probe(Loop) /\ Hear)
              /\ \A p \in Health!Probers : WF_adminvars(Health!Continue(p) /\ Hear)

-----------------------------------------------------------------------------
(* Properties *)

\* If admin requests come one at a time, a deleted backend has no loop.
DeleteEndsProbing == alone => DeletedIsNotProbed

\* A key that is listed authenticates: however create, patch, rotate and
\* delete overlap, the key found by ID is found by its current hash too,
\* unless a rotation that will issue its hash is in progress.
ListedKeyIsIndexed == Keys!ListedKeyIsIndexed

\* If admin requests come one at a time, a hash finds a key only if the key is
\* listed and the hash is its current one: no rotation, patch or delete leaves
\* an entry of keyByHash behind.
SequentialIndexIsExact == alone => Keys!IndexIsExact

\* The recorded status agrees with the streaks however the probes of the loop
\* and of the admin API interleave: outside maintenance, a full streak of
\* failures means unhealthy and a full streak of successes means healthy, and
\* the two streaks are never both running (RecordHealthCheck, MarkDegraded,
\* MarkMaintenance).
StatusFollowsStreaks == Health!StatusFollowsStreaks

\* A backend that keeps answering, and is left alone by the admin API, ends
\* up healthy; one that keeps failing ends up unhealthy.
StatusConverges == Health!StatusConverges

\* Where the loop alone probes, its observers follow the backend: whenever no
\* change is being announced the metric shows whether it is healthy and the
\* last announcement is its status, and each announcement begins where the
\* one before ended, unless the backend was disabled during the probe
\* (record, recordDegraded, emit).
ObserversFollow ==
    alone => /\ Health!GaugeFollowsStatus
             /\ probePc[Loop] # "telling" => heard = status
             /\ probePc[Loop] = "telling" => prev[Loop] \in {heard, "disabled"}

\* Requests, key objects and hashes are interchangeable in MCInit and KeysNext.
Symmetry == Permutations(Admins) \cup Permutations(KeyObjects) \cup Permutations(Hashes)

=============================================================================
