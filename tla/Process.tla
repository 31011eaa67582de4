------------------------------- MODULE Process -------------------------------
(***************************************************************************)
(* The end of the gateway's process and what it does with the work that is *)
(* not done: main waits for a signal, drains the server until a timeout,   *)
(* and its deferred calls stop the prober, the notifier and the tracer and *)
(* close the log store, in this order.  Handlers that outlive the timeout  *)
(* and the exporter of spans run on until main returns.                    *)
(***************************************************************************)
EXTENDS Integers, Sequences, Functions

CONSTANTS
    Requests,
    MaxQueue    \* spans that wait for export: 1024 in the code

\* What the constants have to be: half of a full queue is at least one span.
WellFormed == MaxQueue \in Nat /\ MaxQueue >= 2

VARIABLES
    main,       \* where main is
    req,        \* [Requests -> {"new", "running", "done"}]
    queue,      \* Tracer.queue: the spans of finished requests
    run,        \* the tracer's goroutine: "idle", "exporting" or "gone"
    batch,      \* the spans that it, or main, exports
    mailing,    \* the notifier is in a conversation with the mail server
    exported,   \* history: the spans that the collector has got
    shed,       \* history: spans dropped by a full queue or a failed export
    ended,      \* history: requests in the order they finished
    late,       \* history: those that finished when the drain was over
    aborted     \* history: the server failed, and main called os.Exit

vars == <<main, req, queue, run, batch, mailing, exported, shed, ended, late, aborted>>

Init ==
    /\ main = "serving" /\ run = "idle" /\ mailing = FALSE /\ aborted = FALSE
    /\ req = [r \in Requests |-> "new"]
    /\ queue = << >> /\ batch = << >> /\ exported = << >> /\ ended = << >>
    /\ shed = {} /\ late = {}

Alive == main # "exited"

-----------------------------------------------------------------------------
(* Handlers *)

Accept(r) ==
    /\ main = "serving" /\ req[r] = "new"
    /\ req' = [req EXCEPT ![r] = "running"]
    /\ UNCHANGED <<main, queue, run, batch, mailing, exported, shed, ended, late, aborted>>

\* Tracer.End: a full queue loses its older half.
Enqueue(r) ==
    LET half == Len(queue) \div 2
    IN  IF Len(queue) >= MaxQueue
        THEN /\ queue' = Append(SubSeq(queue, half + 1, Len(queue)), r)
             /\ shed' = shed \cup Range(SubSeq(queue, 1, half))
        ELSE queue' = Append(queue, r) /\ UNCHANGED shed

\* Forward returns, and its span ends.
Finish(r) ==
    /\ Alive /\ req[r] = "running"
    /\ req' = [req EXCEPT ![r] = "done"]
    /\ Enqueue(r)
    /\ ended' = Append(ended, r)
    /\ late' = IF main \in {"serving", "draining"} THEN late ELSE late \cup {r}
    /\ UNCHANGED <<main, run, batch, mailing, exported, aborted>>

-----------------------------------------------------------------------------
(* The tracer and the notifier *)

\* flush, to where it lets go of the lock.
Swap == batch' = queue /\ queue' = << >>

\* flush returns, with the spans at the collector or not.
Export ==
    /\ \/ exported' = exported \o batch /\ UNCHANGED shed
       \/ shed' = shed \cup Range(batch) /\ UNCHANGED exported
    /\ batch' = << >>

\* run: a tick of the ticker.
Flush ==
    /\ Alive /\ run = "idle" /\ queue # << >>
    /\ Swap /\ run' = "exporting"
    /\ UNCHANGED <<main, req, mailing, exported, shed, ended, late, aborted>>

Flushed ==
    /\ Alive /\ run = "exporting"
    /\ Export /\ run' = "idle"
    /\ UNCHANGED <<main, req, queue, mailing, ended, late, aborted>>

\* run sees that Stop has closed the channel.
RunEnds ==
    /\ main = "tracer" /\ run = "idle"
    /\ run' = "gone"
    /\ UNCHANGED <<main, req, queue, batch, mailing, exported, shed, ended, late, aborted>>

\* The notifier begins a mail, or ends it.
Mail ==
    /\ main \in {"serving", "draining", "prober", "notifier"} /\ mailing' = ~mailing
    /\ UNCHANGED <<main, req, queue, run, batch, exported, shed, ended, late, aborted>>

-----------------------------------------------------------------------------
(* main *)

Go(from, to) == main = from /\ main' = to

Signal ==
    /\ Go("serving", "draining")
    /\ UNCHANGED <<req, queue, run, batch, mailing, exported, shed, ended, late, aborted>>

\* ListenAndServe returns an error.
ServerFails ==
    /\ Go("serving", "exited") /\ aborted' = TRUE
    /\ UNCHANGED <<req, queue, run, batch, mailing, exported, shed, ended, late>>

\* Mutant: no timeout.
DrainedOnly ==
    /\ Go("draining", "prober") /\ \A r \in Requests : req[r] # "running"
    /\ UNCHANGED <<req, queue, run, batch, mailing, exported, shed, ended, late, aborted>>

\* Shutdown returns: no handler runs, or its context has ended.
Drained ==
    /\ Go("draining", "prober")
    /\ UNCHANGED <<req, queue, run, batch, mailing, exported, shed, ended, late, aborted>>

\* HealthChecker.Stop; probes have a timeout.
ProberStops ==
    /\ Go("prober", "notifier")
    /\ UNCHANGED <<req, queue, run, batch, mailing, exported, shed, ended, late, aborted>>

\* Notifier.Stop returns between two mails.
NotifierStops ==
    /\ Go("notifier", "tracer") /\ ~mailing
    /\ UNCHANGED <<req, queue, run, batch, mailing, exported, shed, ended, late, aborted>>

\* Mutant: Stop does not flush.
NoLastFlush ==
    /\ Go("tracer", "closing") /\ run = "gone"
    /\ UNCHANGED <<req, queue, run, batch, mailing, exported, shed, ended, late, aborted>>

\* Stop of the tracer, when its goroutine is gone: the last flush.
LastFlush ==
    /\ Go("tracer", "flushing") /\ run = "gone"
    /\ Swap
    /\ UNCHANGED <<req, run, mailing, exported, shed, ended, late, aborted>>

LastFlushed ==
    /\ Go("flushing", "closing")
    /\ Export
    /\ UNCHANGED <<req, queue, run, mailing, ended, late, aborted>>

CloseStore ==
    /\ Go("closing", "closed")
    /\ UNCHANGED <<req, queue, run, batch, mailing, exported, shed, ended, late, aborted>>

Return ==
    /\ Go("closed", "exited")
    /\ UNCHANGED <<req, queue, run, batch, mailing, exported, shed, ended, late, aborted>>

Ended == main = "exited" /\ UNCHANGED vars

Next ==
    \/ \E r \in Requests : Accept(r) \/ Finish(r)
    \/ Flush \/ Flushed \/ RunEnds \/ Mail
    \/ Signal \/ ServerFails \/ Drained \/ ProberStops \/ NotifierStops
    \/ LastFlush \/ LastFlushed \/ CloseStore \/ Return \/ Ended

Spec == Init /\ [][Next]_vars

\* Shutdown, the probes and the exports have timeouts, and select chooses at
\* random among the cases that are ready.  Handlers and the mail server may
\* take for ever.
Fairness ==
    /\ WF_vars(Drained) /\ WF_vars(ProberStops) /\ SF_vars(NotifierStops)
    /\ WF_vars(Flushed) /\ SF_vars(RunEnds) /\ WF_vars(LastFlush) /\ WF_vars(LastFlushed)
    /\ WF_vars(CloseStore) /\ WF_vars(Return)

-----------------------------------------------------------------------------
(* Properties *)

\* The queue keeps its bound, and a request ends once.
TypeOK ==
    /\ main \in {"serving", "draining", "prober", "notifier", "tracer", "flushing", "closing",
                 "closed", "exited"}
    /\ Len(queue) <= MaxQueue
    /\ \A r \in Requests : req[r] = "done" <=> r \in Range(ended)
    /\ IsInjective(ended)

\* x ended before y.
Before(x, y) == \E i, j \in DOMAIN ended : i < j /\ ended[i] = x /\ ended[j] = y

\* A span that has ended is in one place: it is with the collector, on its way,
\* waits, or was shed.  The collector gets spans once and in the order in which
\* they ended.
SpansAreInOrder ==
    LET all == exported \o batch \o queue
    IN  /\ Range(all) = Range(ended) \ shed
        /\ \A i, j \in DOMAIN all : i < j => Before(all[i], all[j])

\* When main has returned, only handlers that outlived the drain have left a
\* span behind.
NothingLeftBehind ==
    main = "exited" /\ ~aborted => Range(queue \o batch) \subseteq late

\* A shutdown ends, whatever handlers do, if no mail takes for ever.
ShutdownEnds == []<>(~mailing) => (main = "draining" ~> main = "exited")

=============================================================================
