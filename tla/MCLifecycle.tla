---------------------------- MODULE MCLifecycle ----------------------------
(***************************************************************************)
(* Small instances for TLC of the notifier and of the end of the process.  *)
(* One of them moves in a behaviour, the other rests in its initial state, *)
(* in which nothing of it has to happen.                                   *)
(***************************************************************************)
EXTENDS Notifier

CONSTANTS Requests, MaxQueue

VARIABLES
    part,                                                   \* what moves
    main, req, queue, run, batch, mailing,                  \* Process
    exported, shed, ended, late, aborted

process == <<main, req, queue, run, batch, mailing, exported, shed, ended, late, aborted>>
allvars == <<part, process, vars>>

Proc == INSTANCE Process

ASSUME ProcessAssumption == Proc!WellFormed

MCInit == Init /\ Proc!Init /\ part \in {"mail", "process"}

MCNext ==
    \/ part = "mail"    /\ Next      /\ UNCHANGED <<part, process>>
    \/ part = "process" /\ Proc!Next /\ UNCHANGED <<part, vars>>

MCSpec == MCInit /\ [][MCNext]_allvars /\ Fairness /\ Proc!Fairness

-----------------------------------------------------------------------------

\* The collector gets each span once and in the order in which spans ended,
\* the queue keeps its bound, and when main has returned only handlers that
\* outlived the drain have left a span behind (End, flush and Stop of the
\* tracer).
SpansAreAccounted == Proc!TypeOK /\ Proc!SpansAreInOrder /\ Proc!NothingLeftBehind

\* If no mail takes for ever, Stop of the notifier returns although events keep
\* coming, and a shutdown ends although handlers may not (MCSpec).
ShutdownReturns == StopReturns /\ Proc!ShutdownEnds

=============================================================================
