----------------------------- MODULE ProbeLoops -----------------------------
(***************************************************************************)
(* The health-check loops of one backend ID, under concurrent admin        *)
(* requests that create, patch, enable, disable and delete the backend.    *)
(* The store entry and the checker's table of loops are guarded by         *)
(* different locks, and every admin handler changes them one after the     *)
(* other.  Backend IDs share nothing but those locks.                      *)
(***************************************************************************)
EXTENDS Naturals

CONSTANTS
    Admins,      \* admin requests in progress
    Objects,     \* backend objects; an object no one refers to is new
    Loops,       \* loop goroutines, each with its stop channel
    None

ASSUME LoopsAssumption == None \notin Objects \cup Loops

VARIABLES
    stored,      \* Store.backends[id]
    registered,  \* HealthChecker.loops[id]
    state,       \* [Loops -> {"starting", "probing", "gone"}]
    probes,      \* [Loops -> Objects]: the object the loop was given
    closed,      \* loops whose stop channel is closed
    stopping,    \* HealthChecker.stop is closed
    pc,          \* [Admins -> Steps]
    held,        \* [Admins -> Objects and None]: the handler's object
    victim       \* [Admins -> Loops and None]: the channel to close

Steps == {"idle", "patching", "removing", "closing", "adding"}

table   == <<stored, registered>>
threads == <<state, probes, closed>>
vars    == <<table, threads, stopping, pc, held, victim>>

Running(g) == state[g] \in {"starting", "probing"}

\* Start: the configured backend has a loop.
Init ==
    /\ stored \in Objects
    /\ registered \in Loops
    /\ state = [g \in Loops |-> IF g = registered THEN "starting" ELSE "gone"]
    /\ probes = [g \in Loops |-> stored]
    /\ closed = {}
    /\ stopping = FALSE
    /\ pc = [a \in Admins |-> "idle"]
    /\ held = [a \in Admins |-> None]
    /\ victim = [a \in Admins |-> None]

\* An object, or a goroutine, that nothing refers to any more.
NewObject(o) == /\ o # stored
                /\ \A a \in Admins : held[a] # o
                /\ \A g \in Loops : Running(g) => probes[g] # o
NewLoop(g)   == /\ ~Running(g)
                /\ g # registered
                /\ \A a \in Admins : victim[a] # g

-----------------------------------------------------------------------------
(* The admin handlers *)

\* createBackend: UpsertBackend, then CheckOnce, which takes its time.
Create(a) ==
    /\ pc[a] = "idle" /\ ~stopping
    /\ \E o \in Objects :
          /\ NewObject(o)
          /\ stored' = o
          /\ held' = [held EXCEPT ![a] = o]
    /\ pc' = [pc EXCEPT ![a] = "adding"]
    /\ UNCHANGED <<registered, threads, stopping, victim>>

\* patchBackend, enableBackend, disableBackend look the backend up ...
Load(a) ==
    /\ pc[a] = "idle" /\ ~stopping
    /\ stored # None
    /\ held' = [held EXCEPT ![a] = stored]
    /\ pc' = [pc EXCEPT ![a] = "patching"]
    /\ UNCHANGED <<table, threads, stopping, victim>>

\* ... and put it back.  A patch of health_check restarts the loop.
Store(a) ==
    /\ pc[a] = "patching"
    /\ stored' = held[a]
    /\ \/ /\ pc' = [pc EXCEPT ![a] = "removing"]
          /\ UNCHANGED held
       \/ /\ pc' = [pc EXCEPT ![a] = "idle"]
          /\ held' = [held EXCEPT ![a] = None]
    /\ UNCHANGED <<registered, threads, stopping, victim>>

\* Mutant: the loop is left to itself.
DeleteOnly(a) ==
    /\ pc[a] = "idle" /\ ~stopping
    /\ stored' = None
    /\ pc' = pc
    /\ UNCHANGED <<registered, threads, stopping, held, victim>>

\* deleteBackend: DeleteBackend, then RemoveBackend.
Delete(a) ==
    /\ pc[a] = "idle" /\ ~stopping
    /\ stored' = None
    /\ pc' = [pc EXCEPT ![a] = "removing"]
    /\ UNCHANGED <<registered, threads, stopping, held, victim>>

\* What follows RemoveBackend: a patch adds the loop again, a delete is over.
AfterRemove(a) == IF held[a] = None THEN "idle" ELSE "adding"

\* Mutant: the entry stays in the table until the channel is closed.
UnregisterLater(a) ==
    /\ pc[a] = "removing"
    /\ \/ registered = None /\ pc' = [pc EXCEPT ![a] = AfterRemove(a)] /\ UNCHANGED victim
       \/ /\ registered # None
          /\ pc' = [pc EXCEPT ![a] = "closing"]
          /\ victim' = [victim EXCEPT ![a] = registered]
    /\ UNCHANGED <<table, threads, stopping, held>>

\* RemoveBackend, under the lock: the entry leaves the table.
Unregister(a) ==
    /\ pc[a] = "removing"
    /\ \/ registered = None /\ pc' = [pc EXCEPT ![a] = AfterRemove(a)] /\ UNCHANGED victim
       \/ /\ registered # None
          /\ pc' = [pc EXCEPT ![a] = "closing"]
          /\ victim' = [victim EXCEPT ![a] = registered]
    /\ registered' = None
    /\ UNCHANGED <<stored, threads, stopping, held>>

\* RemoveBackend, after the lock is released: close(ch).
CloseChannel(a) ==
    /\ pc[a] = "closing"
    /\ closed' = closed \cup {victim[a]}
    /\ victim' = [victim EXCEPT ![a] = None]
    /\ pc' = [pc EXCEPT ![a] = AfterRemove(a)]
    /\ UNCHANGED <<table, state, probes, stopping, held>>

\* Mutant: a new loop even if the ID has one.
AddBackendTwice(a) ==
    /\ pc[a] = "adding"
    /\ \E g \in Loops :
          /\ NewLoop(g)
          /\ registered' = g
          /\ state' = [state EXCEPT ![g] = "starting"]
          /\ probes' = [probes EXCEPT ![g] = held[a]]
          /\ closed' = closed \ {g}
    /\ pc' = [pc EXCEPT ![a] = "idle"]
    /\ held' = [held EXCEPT ![a] = None]
    /\ UNCHANGED <<stored, stopping, victim>>

\* AddBackend and spawn: nothing if the ID has a loop, else a new goroutine.
AddBackend(a) ==
    /\ pc[a] = "adding"
    /\ \/ registered # None /\ UNCHANGED <<registered, threads>>
       \/ /\ registered = None
          /\ \E g \in Loops :
                /\ NewLoop(g)
                /\ registered' = g
                /\ state' = [state EXCEPT ![g] = "starting"]
                /\ probes' = [probes EXCEPT ![g] = held[a]]
                /\ closed' = closed \ {g}
    /\ pc' = [pc EXCEPT ![a] = "idle"]
    /\ held' = [held EXCEPT ![a] = None]
    /\ UNCHANGED <<stored, stopping, victim>>

-----------------------------------------------------------------------------
(* The loops *)

\* loop: the first probe and then the ticker, or, if health_check.enabled is
\* false at that moment, a return that leaves the entry in the table.
Begin(g) ==
    /\ state[g] = "starting"
    /\ \E s \in {"probing", "gone"} : state' = [state EXCEPT ![g] = s]
    /\ UNCHANGED <<table, probes, closed, stopping, pc, held, victim>>

\* loop: the ticker fires; checkOne touches only the object it probes.
Tick(g) == state[g] = "probing" /\ UNCHANGED vars

\* Mutant: the loop selects on its own channel only.
ExitOwn(g) ==
    /\ state[g] = "probing"
    /\ g \in closed
    /\ state' = [state EXCEPT ![g] = "gone"]
    /\ UNCHANGED <<table, probes, closed, stopping, pc, held, victim>>

\* loop: the select sees one of the two channels closed.
Exit(g) ==
    /\ state[g] = "probing"
    /\ g \in closed \/ stopping
    /\ state' = [state EXCEPT ![g] = "gone"]
    /\ UNCHANGED <<table, probes, closed, stopping, pc, held, victim>>

\* Stop, when the server shuts down: no admin request starts any more, those
\* in progress may go on.
Stop ==
    /\ ~stopping
    /\ stopping' = TRUE
    /\ UNCHANGED <<table, threads, pc, held, victim>>

\* wg.Wait returns once every loop is gone; the process is over when the last
\* handler is.
Stopped ==
    /\ stopping
    /\ \A a \in Admins : pc[a] = "idle"
    /\ \A g \in Loops : ~Running(g)
    /\ UNCHANGED vars

-----------------------------------------------------------------------------
Continue(a) == Store(a) \/ Unregister(a) \/ CloseChannel(a) \/ AddBackend(a)
Start(a)    == Create(a) \/ Load(a) \/ Delete(a)
Live(g)     == Begin(g) \/ Exit(g)

Next == \/ \E a \in Admins : Start(a) \/ Continue(a)
        \/ \E g \in Loops : Live(g) \/ Tick(g)
        \/ Stop \/ Stopped

Spec == Init /\ [][Next]_vars

\* Handlers and loops that can go on do.
FairSpec == /\ Spec
            /\ \A a \in Admins : WF_vars(Continue(a))
            /\ \A g \in Loops : WF_vars(Live(g))

-----------------------------------------------------------------------------
(* Properties *)

\* Every variable has its type.
TypeOK ==
    /\ stored \in Objects \cup {None}
    /\ registered \in Loops \cup {None}
    /\ state \in [Loops -> {"starting", "probing", "gone"}]
    /\ probes \in [Loops -> Objects]
    /\ closed \in SUBSET Loops
    /\ stopping \in BOOLEAN
    /\ pc \in [Admins -> Steps]
    /\ held \in [Admins -> Objects \cup {None}]
    /\ victim \in [Admins -> Loops \cup {None}]

Closing(a, g) == pc[a] = "closing" /\ victim[a] = g

\* No loop is out of reach: one that runs is in the table, or its channel is
\* closed, or a handler is about to close it.
EveryLoopCanBeStopped ==
    \A g \in Loops : Running(g) => g = registered \/ g \in closed \/ \E a \in Admins : Closing(a, g)

\* A stop channel is closed once: RemoveBackend closes after it released the
\* lock, and a second close would panic.
ChannelsAreClosedOnce ==
    \A a \in Admins, g \in Loops : Closing(a, g) =>
        g \notin closed /\ g # registered /\ \A b \in Admins \ {a} : ~Closing(b, g)

\* A loop that is no longer in the table stops, so at most one loop of the
\* backend goes on probing (FairSpec).
UnregisteredLoopsExit ==
    \A g \in Loops : Running(g) /\ g # registered ~> ~Running(g)

\* After Stop every loop ends, also one that a late handler starts (FairSpec).
StopEndsEveryLoop == stopping ~> [](\A g \in Loops : state[g] # "probing")

Quiet == \A a \in Admins : pc[a] = "idle"

\* With no admin request in progress a deleted backend has no loop.
DeletedIsNotProbed == Quiet /\ stored = None => registered = None

\* No probe loop outlives its registration or the checker (FairSpec).
EveryLoopEnds == UnregisteredLoopsExit /\ StopEndsEveryLoop

=============================================================================
