---------------------------- MODULE BackendHealth ----------------------------
(***************************************************************************)
(* The status of one backend: the probes of the health checker, run by the *)
(* backend's loop and by admin requests at the same time, the maintenance  *)
(* switch and the enabled flag, and the observers that are told of status  *)
(* changes.  A probe takes its answer, reads the previous status, records  *)
(* the result under the backend's lock and notifies the observers after    *)
(* the lock is released.                                                   *)
(***************************************************************************)
EXTENDS Integers

CONSTANTS
    Loop,           \* the backend's periodic prober
    Visitors,       \* admin requests that call CheckOnce
    FailThr,        \* consecutive failures that make it unhealthy
    SuccThr,        \* consecutive successes that make it healthy
    AllowDegraded,  \* routing.allow_degraded_backends
    Maintainable,   \* whether the admin API toggles maintenance
    Toggleable      \* whether the admin API toggles enabled

Probers  == {Loop} \cup Visitors
Statuses == {"unknown", "healthy", "unhealthy", "degraded", "maintenance"}
Answers  == {"ok", "refused", "down"}   \* 2xx-3xx, 4xx, everything else

WellFormed ==
    /\ FailThr \in Nat \ {0}
    /\ SuccThr \in Nat \ {0}
    /\ AllowDegraded \in BOOLEAN
    /\ Maintainable \in BOOLEAN
    /\ Toggleable \in BOOLEAN

VARIABLES
    enabled,    \* Backend.Enabled
    status,     \* Backend.status
    fails,      \* failureStreak, counted up to FailThr
    succs,      \* successStreak, counted up to SuccThr
    condition,  \* what the backend would answer now
    pc,         \* [Probers -> {"idle", "answered", "recording", "telling"}]
    answer,     \* [Probers -> Answers]: the probe's answer
    prev,       \* [Probers -> status]: Status() before recording
    told,       \* [Probers -> status]: the new status to announce
                \* (the last three are locals, reset when the probe is over)
    gauge       \* the llmgw_backend_status metric of the backend

backend == <<enabled, status, fails, succs>>
vars    == <<backend, condition, pc, answer, prev, told, gauge>>

NoAnswer == "ok"
NoStatus == "unknown"

Init ==
    /\ enabled = TRUE
    /\ status = "unknown"
    /\ fails = 0
    /\ succs = 0
    /\ condition \in Answers
    /\ pc = [p \in Probers |-> "idle"]
    /\ answer = [p \in Probers |-> NoAnswer]
    /\ prev = [p \in Probers |-> NoStatus]
    /\ told = [p \in Probers |-> NoStatus]
    /\ gauge = 0

-----------------------------------------------------------------------------
(* The backend *)

\* Backend.Status: a disabled backend hides its recorded status.
Status == IF enabled THEN status ELSE "disabled"

\* The part of FilterRoutable that looks at the status.
Routable == Status \in {"healthy", "unknown"} \cup (IF AllowDegraded THEN {"degraded"} ELSE {})

\* A streak only matters up to its threshold.
Bump(n, limit) == IF n < limit THEN n + 1 ELSE n

\* Mutant: a success leaves the failure streak standing.
RecordSuccessKeeps ==
    /\ succs' = Bump(succs, SuccThr)
    /\ fails' = fails
    /\ status' = IF status # "healthy" /\ succs' >= SuccThr THEN "healthy" ELSE status

\* RecordHealthCheck(true)
RecordSuccess ==
    /\ succs' = Bump(succs, SuccThr)
    /\ fails' = 0
    /\ status' = IF status # "healthy" /\ succs' >= SuccThr THEN "healthy" ELSE status

\* Mutant: failures count against a healthy backend only.
RecordFailureOfHealthy ==
    /\ fails' = IF status = "healthy" THEN Bump(fails, FailThr) ELSE 0
    /\ succs' = 0
    /\ status' = IF status = "healthy" /\ fails' >= FailThr THEN "unhealthy" ELSE status

\* RecordHealthCheck(false)
RecordFailure ==
    /\ fails' = Bump(fails, FailThr)
    /\ succs' = 0
    /\ status' = IF status # "unhealthy" /\ fails' >= FailThr THEN "unhealthy" ELSE status

MarkDegraded == status' = "degraded" /\ fails' = 0 /\ succs' = 0

MarkMaintenance(on) ==
    IF on THEN status' = "maintenance" /\ UNCHANGED <<fails, succs>>
    ELSE status' = "unknown" /\ fails' = 0 /\ succs' = 0

-----------------------------------------------------------------------------
(* Probing *)

\* checkOne: a disabled backend is not probed; otherwise the backend answers
\* (an error or a timeout counts as "down").
Probe(p) ==
    /\ pc[p] = "idle" /\ enabled
    /\ answer' = [answer EXCEPT ![p] = condition]
    /\ pc' = [pc EXCEPT ![p] = "answered"]
    /\ UNCHANGED <<backend, condition, prev, told, gauge>>

\* prev := b.Status(), a critical section of its own.
ReadPrev(p) ==
    /\ pc[p] = "answered"
    /\ prev' = [prev EXCEPT ![p] = Status]
    /\ pc' = [pc EXCEPT ![p] = "recording"]
    /\ UNCHANGED <<backend, condition, answer, told, gauge>>

\* Mutant: the previous status is read after the result is recorded.
RecordThenRead(p) ==
    /\ pc[p] = "recording"
    /\ \/ answer[p] = "ok" /\ RecordSuccess
       \/ answer[p] = "down" /\ RecordFailure
       \/ answer[p] = "refused" /\ MarkDegraded
    /\ pc' = [pc EXCEPT ![p] = IF status' # status THEN "telling" ELSE "idle"]
    /\ told' = [told EXCEPT ![p] = IF status' # status THEN status' ELSE NoStatus]
    /\ prev' = [prev EXCEPT ![p] = IF status' # status THEN status' ELSE NoStatus]
    /\ answer' = [answer EXCEPT ![p] = NoAnswer]
    /\ UNCHANGED <<enabled, condition, gauge>>

\* record and recordDegraded: the status is written under the lock.  record
\* announces what RecordHealthCheck saw change, recordDegraded what differs
\* from the status read before.
Record(p) ==
    /\ pc[p] = "recording"
    /\ \/ answer[p] = "ok" /\ RecordSuccess
       \/ answer[p] = "down" /\ RecordFailure
       \/ answer[p] = "refused" /\ MarkDegraded
    /\ LET changed == IF answer[p] = "refused" THEN prev[p] # "degraded"
                      ELSE status' # status
       IN  \/ /\ changed
             /\ pc' = [pc EXCEPT ![p] = "telling"]
             /\ told' = [told EXCEPT ![p] = status']
             /\ UNCHANGED prev
          \/ /\ ~changed
             /\ pc' = [pc EXCEPT ![p] = "idle"]
             /\ prev' = [prev EXCEPT ![p] = NoStatus]
             /\ UNCHANGED told
    /\ answer' = [answer EXCEPT ![p] = NoAnswer]
    /\ UNCHANGED <<enabled, condition, gauge>>

\* Mutant: the metric is not cleared.
TellRises(p) ==
    /\ pc[p] = "telling"
    /\ gauge' = IF told[p] = "healthy" THEN 1 ELSE gauge
    /\ pc' = [pc EXCEPT ![p] = "idle"]
    /\ prev' = [prev EXCEPT ![p] = NoStatus]
    /\ told' = [told EXCEPT ![p] = NoStatus]
    /\ UNCHANGED <<backend, condition, answer>>

\* emit: the observers set the metric and queue a notification.
Tell(p) ==
    /\ pc[p] = "telling"
    /\ gauge' = IF told[p] = "healthy" THEN 1 ELSE 0
    /\ pc' = [pc EXCEPT ![p] = "idle"]
    /\ prev' = [prev EXCEPT ![p] = NoStatus]
    /\ told' = [told EXCEPT ![p] = NoStatus]
    /\ UNCHANGED <<backend, condition, answer>>

-----------------------------------------------------------------------------
(* The admin API and the backend itself *)

\* toggleMaintenance
Maintain(on) ==
    /\ Maintainable
    /\ MarkMaintenance(on)
    /\ UNCHANGED <<enabled, condition, pc, answer, prev, told, gauge>>

\* enableBackend, disableBackend
Toggle(on) ==
    /\ Toggleable
    /\ enabled' = on
    /\ UNCHANGED <<status, fails, succs, condition, pc, answer, prev, told, gauge>>

\* The backend starts or stops working.
Change ==
    /\ condition' \in Answers
    /\ UNCHANGED <<backend, pc, answer, prev, told, gauge>>

Continue(p) == ReadPrev(p) \/ Record(p) \/ Tell(p)

Next == \/ \E p \in Probers : Probe(p) \/ Continue(p)
        \/ \E on \in BOOLEAN : Maintain(on) \/ Toggle(on)
        \/ Change

Spec == Init /\ [][Next]_vars

\* The loop's ticker keeps ticking and a probe that has begun goes on.
FairSpec == /\ Spec
            /\ WF_vars(Probe(Loop))
            /\ \A p \in Probers : WF_vars(Continue(p))

-----------------------------------------------------------------------------
(* Properties *)

\* Every variable has its type.
TypeOK ==
    /\ enabled \in BOOLEAN
    /\ status \in Statuses
    /\ fails \in 0 .. FailThr
    /\ succs \in 0 .. SuccThr
    /\ condition \in Answers
    /\ pc \in [Probers -> {"idle", "answered", "recording", "telling"}]
    /\ answer \in [Probers -> Answers]
    /\ prev \in [Probers -> Statuses \cup {"disabled"}]
    /\ told \in [Probers -> Statuses]
    /\ gauge \in {0, 1}

\* The recorded status agrees with the streaks however the probes of the loop
\* and of the admin API interleave: outside maintenance, a full streak of
\* failures means unhealthy and a full streak of successes means healthy, and
\* the two streaks are never both running.
StatusFollowsStreaks ==
    /\ fails = 0 \/ succs = 0
    /\ status # "maintenance" => /\ fails >= FailThr => status = "unhealthy"
                                 /\ succs >= SuccThr => status = "healthy"

\* A backend that failed its last FailThr probes is not routed to.
FailingIsNotRoutable == fails >= FailThr => ~Routable

\* With no probe in progress the metric shows whether the backend is healthy.
GaugeFollowsStatus ==
    (\A p \in Probers : pc[p] # "telling") => (gauge = 1 <=> status = "healthy")

\* A backend that keeps answering, and is left alone by the admin API, ends
\* up healthy; one that keeps failing ends up unhealthy (FairSpec).
StatusConverges ==
    <>[][\A on \in BOOLEAN : ~Maintain(on) /\ ~Toggle(on)]_vars =>
        /\ <>[](condition = "ok" /\ enabled) => <>[](status = "healthy")
        /\ <>[](condition = "down" /\ enabled) => <>[](status = "unhealthy")

\* Maintenance persists until the admin API clears it.
MaintenancePersists ==
    [][status = "maintenance" /\ status' # "maintenance" => Maintain(FALSE)]_vars

=============================================================================
