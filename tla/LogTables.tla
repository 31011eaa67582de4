----------------------------- MODULE LogTables -----------------------------
(***************************************************************************)
(* The request log in SQLite and PostgreSQL beside the one in memory: the  *)
(* goroutines that append to the store, which gives up after two seconds,  *)
(* the statements that read pages and statistics, and the ticker that      *)
(* purges what is older than the retention.  The same records go to both,  *)
(* so that what the drivers answer can be compared.  The audit log has     *)
(* statements of the same form.                                            *)
(*                                                                         *)
(* created is the clock: the time of a record is its number.  The memory   *)
(* store compares times, the databases milliseconds.                       *)
(***************************************************************************)
EXTENDS LogStore, FiniteSetsExt, Functions

CONSTANTS
    Attr,        \* record -> [status, model, ip, tokens]
    Retention,   \* storage.log_retention_days, in records
    PerMilli     \* records in a millisecond

VARIABLES
    table,   \* request_logs
    failed   \* records that the database did not take

tables == <<table, failed>>
all    == <<vars, tables>>

TablesInit == Init /\ table = {} /\ failed = {}

\* UnixMilli
Milli(t) == t \div PerMilli

\* recordLog
Record == RecordLog /\ UNCHANGED tables

\* AppendRequest: the INSERT succeeds or fails; a failure is logged and the
\* record is lost.
Insert(r) ==
    /\ AppendRequest(r)
    /\ \/ table' = table \cup {r} /\ UNCHANGED failed
       \/ failed' = failed \cup {r} /\ UNCHANGED table

\* Mutant: the record that is exactly as old as the retention goes as well.
OlderOrEqual(cutoff) == {r \in table : Milli(r) <= Milli(cutoff)}

\* DELETE FROM request_logs WHERE created_at < cutoff
Older(cutoff) == {r \in table : Milli(r) < Milli(cutoff)}

\* Purge, at a tick of main's ticker.
Purge ==
    /\ table' = table \ Older(created - Retention)
    /\ UNCHANGED <<failed, vars>>

TablesNext == Record \/ (\E r \in pending : Insert(r)) \/ Purge

TablesSpec == TablesInit /\ [][TablesNext]_all

-----------------------------------------------------------------------------
(* What the stores answer *)

\* ORDER BY created_at DESC LIMIT limit OFFSET offset may give the page: rows
\* of one millisecond come in any order.
Select(limit, offset, page) ==
    LET found == {r \in table : Match(r)}
        left == Max({0, Cardinality(found) - offset})
    IN  /\ Len(page) = Min({LimitOf(limit), left})
        /\ IsInjective(page)
        /\ \A i \in DOMAIN page :
              /\ page[i] \in found
              /\ Cardinality({r \in found : Milli(r) > Milli(page[i])}) < offset + i
              /\ Cardinality({r \in found : Milli(r) >= Milli(page[i])}) >= offset + i

\* A line of a group in the statistics.
Nothing == [requests |-> 0, errors |-> 0, tokens |-> 0]

Counted(line, r) ==
    [requests |-> line.requests + 1,
     errors   |-> line.errors + (IF Attr[r].status >= 400 THEN 1 ELSE 0),
     tokens   |-> line.tokens + Attr[r].tokens]

\* StatsSince of the memory store: one pass over the records.
Stats(since) ==
    LET add(st, r) ==
            LET a == Attr[r]
            IN  IF r < since THEN st
                ELSE [total   |-> st.total + 1,
                      success |-> st.success + (IF a.status \in 200 .. 399 THEN 1 ELSE 0),
                      error   |-> st.error + (IF a.status \in 200 .. 399 THEN 0 ELSE 1),
                      tokens  |-> st.tokens + a.tokens,
                      models  |-> [st.models EXCEPT ![a.model] = Counted(@, r)],
                      ips     |-> IF a.ip = "" THEN st.ips ELSE [st.ips EXCEPT ![a.ip] = Counted(@, r)]]
        zero == [total |-> 0, success |-> 0, error |-> 0, tokens |-> 0,
                 models |-> [m \in {Attr[r].model : r \in DOMAIN Attr} |-> Nothing],
                 ips    |-> [i \in {Attr[r].ip : r \in DOMAIN Attr} |-> Nothing]]
    IN  FoldLeft(add, zero, requests)

\* COUNT, SUM and GROUP BY of a set of rows.
Grouped(rs) ==
    [requests |-> Cardinality(rs),
     errors   |-> Cardinality({r \in rs : Attr[r].status >= 400 \/ Attr[r].status = 0}),
     tokens   |-> MapThenSumSet(LAMBDA r : Attr[r].tokens, rs)]

\* StatsSince of the databases: the answer, or none.  SQLite's sums over no
\* rows are NULL, which does not scan into a number.
SelectStats(driver, since) ==
    LET rs == {r \in table : Milli(r) >= Milli(since)}
    IN  IF driver = "sqlite" /\ rs = {} THEN {}
        ELSE {[total   |-> Cardinality(rs),
               success |-> Cardinality({r \in rs : Attr[r].status \in 200 .. 399}),
               error   |-> Cardinality({r \in rs : Attr[r].status >= 400 \/ Attr[r].status = 0}),
               tokens  |-> Grouped(rs).tokens,
               models  |-> [m \in {Attr[r].model : r \in DOMAIN Attr} |-> Grouped({r \in rs : Attr[r].model = m})],
               ips     |-> [i \in {Attr[r].ip : r \in DOMAIN Attr} |->
                               Grouped({r \in rs : i # "" /\ Attr[r].ip = i})]]}

-----------------------------------------------------------------------------
(* Properties *)

\* The drivers are interchangeable: as long as the goroutines append in the
\* order of the records' times, nothing is evicted and nothing failed or was
\* purged, the page of the memory store is one the databases may give, and
\* their statistics are those of the memory store from the beginning of the
\* millisecond on, save that SQLite has none for an empty window.
DriversAgree ==
    LET same == table = Range(requests) /\ \A i \in 1 .. Len(requests) - 1 : requests[i] < requests[i + 1]
    IN  same => /\ \A limit \in Limits, offset \in 0 .. MaxCreated :
                        Select(limit, offset, Query(limit, offset))
                /\ \A since \in 1 .. MaxCreated :
                        LET st == Stats(Milli(since) * PerMilli)
                        IN  /\ SelectStats("postgres", since) = {st}
                            /\ st.total > 0 => SelectStats("sqlite", since) = {st}

\* A record that the database took is there until it is older than the
\* retention, however late its goroutine inserted it.
RetentionHolds ==
    \A r \in 1 .. created : r \in pending \cup failed \cup table \/ r < created - Retention

\* The totals of the statistics are those of their groups.
StatsAddUp ==
    \A since \in 1 .. MaxCreated :
        LET st == Stats(since)
        IN  /\ st.total = st.success + st.error
            /\ st.total = SumFunction([m \in DOMAIN st.models |-> st.models[m].requests])
            /\ st.error = SumFunction([m \in DOMAIN st.models |-> st.models[m].errors])

=============================================================================
