------------------------------ MODULE LogStore ------------------------------
(***************************************************************************)
(* The in-memory request log: handlers make records and hand them to       *)
(* goroutines that append them, the store evicts what is over its bound,   *)
(* and a client of the admin API pages through the records of its query.   *)
(* The audit log is written the same way, and read so for an offset that   *)
(* is not negative.                                                        *)
(*                                                                         *)
(* A record is its number in the order of creation.                        *)
(***************************************************************************)
EXTENDS Integers, Sequences, SequencesExt, FiniteSets

CONSTANTS
    MaxRecs,        \* bound of the store: 50000 unless configured
    DefaultLimit,   \* 200 in the code
    MaxLimit,       \* 1000 in the code
    Limits,         \* limits that clients ask for
    Wanted,         \* the numbers of the records that match the query
    MaxCreated      \* bound on the records

ASSUME LogAssumption == MaxRecs \in Nat \ {0} /\ DefaultLimit \in 1 .. MaxLimit

VARIABLES
    created,    \* records made so far
    pending,    \* records whose goroutine has not appended them
    requests,   \* the store
    history,    \* all records in the order they were appended
    rows,       \* what the client has read
    done,       \* its last page was empty
    moved       \* a record was appended since its first page

vars == <<created, pending, requests, history, rows, done, moved>>

Init ==
    /\ created = 0 /\ pending = {} /\ requests = << >> /\ history = << >>
    /\ rows = << >> /\ done = FALSE /\ moved = FALSE

\* recordLog: the record is made and its goroutine started.
RecordLog ==
    /\ created < MaxCreated
    /\ created' = created + 1
    /\ pending' = pending \cup {created + 1}
    /\ UNCHANGED <<requests, history, rows, done, moved>>

\* Mutant: a tenth of a small store is nothing.
EvictRounded(s) == IF Len(s) > MaxRecs THEN SubSeq(s, 1 + MaxRecs \div 10, Len(s)) ELSE s

\* What AppendRequest keeps: over the bound, the first tenth goes, at least
\* one.
Evict(s) ==
    LET tenth == MaxRecs \div 10
        evict == IF tenth < 1 THEN 1 ELSE tenth
    IN  IF Len(s) > MaxRecs THEN SubSeq(s, evict + 1, Len(s)) ELSE s

\* AppendRequest, in the goroutines in any order.
AppendRequest(r) ==
    /\ r \in pending /\ pending' = pending \ {r}
    /\ requests' = Evict(Append(requests, r))
    /\ history' = Append(history, r)
    /\ moved' = (moved \/ rows # << >>)
    /\ UNCHANGED <<created, rows, done>>

\* The limit of a query.
LimitOf(n) == IF n <= 0 \/ n > MaxLimit THEN DefaultLimit ELSE n

\* matchLog
Match(r) == r \in Wanted

\* QueryRequests: the newest matches behind the offset, up to the limit.
Query(limit, offset) ==
    LET found == SelectSeq(Reverse(requests), Match)
        from  == IF offset < 0 THEN 0 ELSE offset
        upto  == LimitOf(limit) + from
        out   == SubSeq(found, 1, IF Len(found) < upto THEN Len(found) ELSE upto)
    IN  IF from >= Len(out) THEN << >> ELSE SubSeq(out, from + 1, Len(out))

\* listLogs, for a client that asks for one page after the other.
ListLogs ==
    /\ ~done
    /\ \E limit \in Limits :
          LET page == Query(limit, Len(rows))
          IN  rows' = rows \o page /\ done' = (page = << >>)
    /\ UNCHANGED <<created, pending, requests, history, moved>>

\* The client begins again.
Restart ==
    /\ done /\ done' = FALSE /\ rows' = << >> /\ moved' = FALSE
    /\ UNCHANGED <<created, pending, requests, history>>

Next == RecordLog \/ (\E r \in pending : AppendRequest(r)) \/ ListLogs \/ Restart

Spec == Init /\ [][Next]_vars

-----------------------------------------------------------------------------
(* Properties *)

\* The store never holds more than its bound, and no record twice.
TypeOK ==
    /\ Len(requests) <= MaxRecs
    /\ Range(requests) \subseteq (1 .. created) \ pending
    /\ IsInjective(requests)

\* The store is the end of what was appended: no append, and no eviction,
\* loses a later record while it keeps an earlier one.
KeepsTheLatest == IsSuffix(requests, history)

\* A client that reads page after page while nothing is appended sees every
\* record of its query exactly once, the newest append first.
PagesAreComplete ==
    done /\ ~moved /\ rows # << >> => rows = SelectSeq(Reverse(requests), Match)

=============================================================================
