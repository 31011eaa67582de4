----------------------------- MODULE Forwarding -----------------------------
(***************************************************************************)
(* proxy.Forward: one request sent to its backend and the response relayed *)
(* to the client.  A streamed response is read by a producer goroutine     *)
(* that hands lines over a bounded channel to the handler, which selects   *)
(* among the client's cancellation, the idle timer and the channel; when   *)
(* the handler returns, a drainer empties the channel.                     *)
(*                                                                         *)
(* The backend's lines are numbered; what a line holds is its kind.        *)
(***************************************************************************)
EXTENDS Integers, Sequences

CONSTANTS
    MaxLines,   \* the backend sends at most this many lines
    Cap         \* capacity of chunkCh

LineKinds == {"content", "comment", "usage"}   \* usage has content, too

\* What the backend answers: a success, or an error that it explains.
Statuses == {200, 404}

ASSUME ForwardingAssumption == MaxLines \in Nat /\ Cap \in Nat \ {0}

VARIABLES
    pc,        \* the handler
    streamed,  \* ForwardOptions.IsStream
    client,    \* "here" or "gone" (the request context is cancelled)
    sent,      \* the kinds of the lines the backend has sent
    body,      \* the response body: "open", "eof" or "error"
    status,    \* resp.StatusCode, once there is a response
    nread,     \* lines the reader has taken
    producer,  \* [at, line, err]: the read goroutine and its readResult
    chan,      \* chunkCh
    stopRead,  \* the stopRead channel is closed
    drainer,   \* the goroutine that drains chunkCh
    timer,     \* the idle timer: "armed" or "fired"
    head,      \* the status written to the client, 0 for none
    written,   \* line numbers written to the client
    usages,    \* line numbers whose usage was reported
    firsts,    \* line numbers that OnTTFT was called for
    result     \* [status, err] that Forward returned

backend == <<sent, body, status>>
reader  == <<nread, producer>>
answer  == <<head, written, usages, firsts>>
vars    == <<pc, streamed, client, backend, reader, chan, stopRead, drainer, timer, answer, result>>

NoLine == 0
Idle   == [at |-> "none", line |-> NoLine, err |-> "nil"]

Init ==
    /\ pc = "build"
    /\ streamed \in BOOLEAN
    /\ client = "here"
    /\ sent = << >> /\ body = "open" /\ status \in Statuses
    /\ nread = 0 /\ producer = Idle
    /\ chan = << >>
    /\ stopRead = FALSE
    /\ drainer = "none"
    /\ timer = "armed"
    /\ head = 0 /\ written = << >> /\ usages = << >> /\ firsts = << >>
    /\ result = [status |-> 0, err |-> "nil"]

-----------------------------------------------------------------------------
(* Forward *)

\* WriteError and return.
Fail(code, err) ==
    /\ head' = code
    /\ result' = [status |-> code, err |-> err]
    /\ pc' = "returned"
    /\ UNCHANGED <<written, usages, firsts>>

\* Return without writing.
Quit(code, err) ==
    /\ result' = [status |-> code, err |-> err]
    /\ pc' = "returned"
    /\ UNCHANGED answer

\* http.NewRequestWithContext; it fails for a base_url that is no URL.
Build ==
    /\ pc = "build"
    /\ \/ pc' = "do" /\ UNCHANGED <<answer, result>>
       \/ Quit(500, "build")
    /\ UNCHANGED <<streamed, client, backend, reader, chan, stopRead, drainer, timer>>

\* Mutant: a deadline is reported to the caller only.
DoSilent ==
    /\ pc = "do"
    /\ \/ ~streamed /\ Quit(504, "deadline")
       \/ client = "gone" /\ Quit(499, "canceled")
       \/ Fail(502, "unreachable")
       \/ /\ \/ streamed /\ pc' = "flush"
             \/ pc' = "pass"
          /\ UNCHANGED <<answer, result>>
    /\ UNCHANGED <<streamed, client, backend, reader, chan, stopRead, drainer, timer>>

\* client.Do: deadline, cancellation, any other error, or a response.  The
\* deadline is set for plain requests only; waiting for headers may time out
\* in the transport, which is another error.
Do ==
    /\ pc = "do"
    /\ \/ ~streamed /\ Fail(504, "deadline")
       \/ client = "gone" /\ Quit(499, "canceled")
       \/ Fail(502, "unreachable")
       \/ /\ \/ streamed /\ pc' = "flush"      \* text/event-stream
             \/ pc' = "pass"                  \* any other response
          /\ UNCHANGED <<answer, result>>
    /\ UNCHANGED <<streamed, client, backend, reader, chan, stopRead, drainer, timer>>

\* extractUsage of a whole body: the first usage in it, if there is one.
BodyUsage(u) ==
    \/ u = << >> /\ \A i \in 1 .. Len(sent) : sent[i] # "usage"
    \/ \E i \in 1 .. Len(sent) :
          /\ u = << i >> /\ sent[i] = "usage"
          /\ \A j \in 1 .. i - 1 : sent[j] # "usage"

\* The status is a 2xx one.
Success == status >= 200 /\ status < 300

\* Mutant: the usage of an error answer is reported, too.
PassAnyUsage ==
    /\ pc = "pass"
    /\ \/ /\ body = "eof"
          /\ head' = status
          /\ written' = [i \in 1 .. Len(sent) |-> i]
          /\ BodyUsage(usages')
          /\ result' = [status |-> status, err |-> "nil"]
          /\ pc' = "returned"
          /\ UNCHANGED firsts
       \/ (body = "error" \/ client = "gone" \/ ~streamed) /\ Fail(502, "read")
    /\ UNCHANGED <<streamed, client, backend, reader, chan, stopRead, drainer, timer>>

\* passResponse: ReadAll, then the whole body at once; the usage in it, if
\* the status is a 2xx one.  The read fails on an upstream error, the deadline
\* or cancellation.
Pass ==
    /\ pc = "pass"
    /\ \/ /\ body = "eof"
          /\ head' = status
          /\ written' = [i \in 1 .. Len(sent) |-> i]
          /\ IF Success THEN BodyUsage(usages') ELSE UNCHANGED usages
          /\ result' = [status |-> status, err |-> "nil"]
          /\ pc' = "returned"
          /\ UNCHANGED firsts
       \/ (body = "error" \/ client = "gone" \/ ~streamed) /\ Fail(502, "read")
    /\ UNCHANGED <<streamed, client, backend, reader, chan, stopRead, drainer, timer>>

-----------------------------------------------------------------------------
(* streamResponse *)

\* The headers are flushed and the producer starts; without a Flusher the
\* request fails.
Flush ==
    /\ pc = "flush"
    /\ \/ /\ head' = status
          /\ pc' = "select"
          /\ producer' = [Idle EXCEPT !.at = "reading"]
          /\ timer' = "armed"
          /\ UNCHANGED <<written, usages, firsts, result>>
       \/ Fail(500, "noFlusher") /\ UNCHANGED <<producer, timer>>
    /\ UNCHANGED <<streamed, client, backend, nread, chan, stopRead, drainer>>

\* Mutant: the producer is left alone.
LeaveAbandons(err) ==
    /\ result' = [status |-> status, err |-> err]
    /\ pc' = "returned"
    /\ UNCHANGED <<stopRead, drainer>>

\* The deferred calls: close(stopRead), the drainer, cancel and Body.Close.
Leave(err) ==
    /\ result' = [status |-> status, err |-> err]
    /\ pc' = "returned"
    /\ stopRead' = TRUE
    /\ drainer' = "draining"

\* <-clientCtx.Done()
ClientDone ==
    /\ pc = "select"
    /\ client = "gone"
    /\ Leave("nil")
    /\ UNCHANGED <<streamed, client, backend, reader, chan, timer, answer>>

\* Mutant: the timer guards the first line only.
IdleTimeoutFirst ==
    /\ pc = "select"
    /\ timer = "fired" /\ written = << >>
    /\ Leave("idleTimeout")
    /\ UNCHANGED <<streamed, client, backend, reader, chan, timer, answer>>

\* <-idleTimer.C
IdleTimeout ==
    /\ pc = "select"
    /\ timer = "fired"
    /\ Leave("idleTimeout")
    /\ UNCHANGED <<streamed, client, backend, reader, chan, timer, answer>>

\* Mutant: the line shares the reader's buffer, which holds a later one.
RelayAliased(i) ==
    /\ head' = head
    /\ written' = Append(written, nread)
    /\ firsts' = IF firsts = << >> /\ sent[i] # "comment" THEN << i >> ELSE firsts
    /\ usages' = IF usages = << >> /\ sent[i] = "usage" THEN << i >> ELSE usages

\* A line goes to the client; OnTTFT for the first with content,
\* OnStreamUsage for the first with usage.
Relay(i) ==
    /\ head' = head
    /\ written' = Append(written, i)
    /\ firsts' = IF firsts = << >> /\ sent[i] # "comment" THEN << i >> ELSE firsts
    /\ usages' = IF usages = << >> /\ sent[i] = "usage" THEN << i >> ELSE usages

\* Mutant: the error of a result is looked at before its line.
ReceiveErrFirst ==
    /\ pc = "select"
    /\ chan # << >>
    /\ LET res == Head(chan)
       IN  \/ /\ res.err # "nil"
              /\ Leave("nil")
              /\ UNCHANGED <<answer, timer>>
           \/ /\ res.err = "nil"
              /\ Relay(res.line) /\ timer' = "armed"
              /\ UNCHANGED <<pc, result, stopRead, drainer>>
    /\ chan' = Tail(chan)
    /\ UNCHANGED <<streamed, client, backend, reader>>

\* res := <-chunkCh: the line, if there is one, is relayed and the idle timer
\* stopped, drained and reset.  That is one step: go.mod asks for Go 1.25, and
\* from 1.23 on no expiry of before a Stop is received after it.  Then the error,
\* if there is one, ends the stream (EOF or not).  A failed write ends it too.
\* The branch for a closed channel is never taken (ClosedBehindError).
Receive ==
    /\ pc = "select"
    /\ chan # << >>
    /\ LET res == Head(chan)
       IN  \/ /\ res.line # NoLine
              /\ client = "gone"
              /\ Leave("write") /\ UNCHANGED <<answer, timer>>
           \/ /\ IF res.line = NoLine THEN UNCHANGED <<answer, timer>>
                 ELSE Relay(res.line) /\ timer' = "armed"
              /\ IF res.err = "nil" THEN UNCHANGED <<pc, result, stopRead, drainer>>
                 ELSE Leave("nil")
    /\ chan' = Tail(chan)
    /\ UNCHANGED <<streamed, client, backend, reader>>

-----------------------------------------------------------------------------
(* The producer and the drainer *)

\* readLine: a line, alone or (unterminated) with the error that ends the
\* body, or the error alone.  Cancellation and Body.Close are read errors.
Read ==
    /\ producer.at = "reading"
    /\ \E line \in {NoLine, nread + 1}, err \in {"nil", "eof", "error"} :
          /\ line # NoLine => nread < Len(sent)
          /\ line = NoLine => err # "nil"
          /\ err = "eof" => body = "eof" /\ nread + (IF line = NoLine THEN 0 ELSE 1) = Len(sent)
          /\ err = "error" => body = "error" \/ client = "gone" \/ pc = "returned"
          /\ producer' = [at |-> "sending", line |-> line, err |-> err]
          /\ nread' = IF line = NoLine THEN nread ELSE line
    /\ UNCHANGED <<pc, streamed, client, backend, chan, stopRead, drainer, timer, answer, result>>

\* The producer's select: chunkCh <- result, or <-stopRead.
Send ==
    /\ producer.at = "sending"
    /\ \/ /\ Len(chan) < Cap
          /\ chan' = Append(chan, [line |-> producer.line, err |-> producer.err])
          /\ producer' = [Idle EXCEPT !.at = IF producer.err = "nil" THEN "reading" ELSE "done"]
       \/ /\ stopRead
          /\ producer' = [Idle EXCEPT !.at = "done"]
          /\ UNCHANGED chan
    /\ UNCHANGED <<pc, streamed, client, backend, nread, stopRead, drainer, timer, answer, result>>

\* for range chunkCh {}
Drain ==
    /\ drainer = "draining"
    /\ \/ chan # << >> /\ chan' = Tail(chan) /\ UNCHANGED drainer
       \/ chan = << >> /\ producer.at = "done" /\ drainer' = "done" /\ UNCHANGED chan
    /\ UNCHANGED <<pc, streamed, client, backend, reader, stopRead, timer, answer, result>>

-----------------------------------------------------------------------------
(* The backend, the client and the clock *)

SendLine ==
    /\ pc \notin {"build", "returned"}
    /\ body = "open" /\ Len(sent) < MaxLines
    /\ \E k \in LineKinds : sent' = Append(sent, k)
    /\ UNCHANGED <<pc, streamed, client, body, status, reader, chan, stopRead, drainer, timer, answer, result>>

EndBody ==
    /\ pc \notin {"build", "returned"}
    /\ body = "open" /\ body' \in {"eof", "error"}
    /\ UNCHANGED <<pc, streamed, client, sent, status, reader, chan, stopRead, drainer, timer, answer, result>>

Disconnect ==
    /\ client = "here" /\ pc # "returned"
    /\ client' = "gone"
    /\ UNCHANGED <<pc, streamed, backend, reader, chan, stopRead, drainer, timer, answer, result>>

Fire ==
    /\ pc = "select" /\ timer = "armed"
    /\ timer' = "fired"
    /\ UNCHANGED <<pc, streamed, client, backend, reader, chan, stopRead, drainer, answer, result>>

\* The handler has returned and the server goes on to other requests.
Over == pc = "returned" /\ UNCHANGED vars

-----------------------------------------------------------------------------
Handler == Build \/ Do \/ Pass \/ Flush \/ ClientDone \/ IdleTimeout \/ Receive
Next == Handler \/ Read \/ Send \/ Drain \/ SendLine \/ EndBody \/ Disconnect \/ Fire \/ Over

Spec == Init /\ [][Next]_vars

\* Goroutines that can go on do, and time passes: the idle timer fires, and
\* the deadline of a plain request makes Do or Pass return.
FairSpec == /\ Spec
            /\ WF_vars(Handler) /\ WF_vars(Read) /\ WF_vars(Send) /\ WF_vars(Drain) /\ WF_vars(Fire)

-----------------------------------------------------------------------------
(* Properties *)

ReadResults == [line : 0 .. MaxLines, err : {"nil", "eof", "error"}]

\* Every variable has its type.
TypeOK ==
    /\ pc \in {"build", "do", "pass", "flush", "select", "returned"}
    /\ streamed \in BOOLEAN
    /\ client \in {"here", "gone"}
    /\ sent \in Seq(LineKinds) /\ Len(sent) <= MaxLines
    /\ body \in {"open", "eof", "error"}
    /\ nread \in 0 .. MaxLines
    /\ producer \in [at : {"none", "reading", "sending", "done"}, line : 0 .. MaxLines,
                     err : {"nil", "eof", "error"}]
    /\ chan \in Seq(ReadResults) /\ Len(chan) <= Cap
    /\ stopRead \in BOOLEAN
    /\ drainer \in {"none", "draining", "done"}
    /\ timer \in {"armed", "fired"}
    /\ status \in Statuses
    /\ head \in {0, 500, 502, 504} \cup Statuses
    /\ written \in Seq(1 .. MaxLines)
    /\ usages \in Seq(1 .. MaxLines) /\ firsts \in Seq(1 .. MaxLines)
    /\ result.status \in {0, 499, 500, 502, 504} \cup Statuses

\* The client gets the backend's lines in order, none twice, none left out
\* and none of the gateway's own, whatever the producer, the channel and the
\* timer do.
RelayedInOrder == written = [i \in 1 .. Len(written) |-> i]

\* A stream that ended because the backend closed it was relayed completely.
EndOfStreamMeansComplete ==
    (pc = "returned" /\ client = "here" /\ body = "eof" /\ result.err = "nil") =>
        Len(written) = Len(sent)

\* The first line of one of the kinds that reached the client was reported,
\* and no other.
FirstIsReported(reports, kinds) ==
    \/ reports = << >> /\ \A i \in 1 .. Len(written) : sent[written[i]] \notin kinds
    \/ \E i \in 1 .. Len(written) :
          /\ reports = << written[i] >> /\ sent[written[i]] \in kinds
          /\ \A j \in 1 .. i - 1 : sent[written[j]] \notin kinds

\* The key is charged once per response, for the first usage block that
\* reached the client, and not at all for a plain answer that is an error; a
\* stream is charged whatever its status.  The time to first token of a stream
\* is taken once, at the first line with content.
UsageReportedOnce ==
    /\ IF producer.at = "none" /\ ~Success THEN usages = << >>
       ELSE FirstIsReported(usages, {"usage"})
    /\ producer.at # "none" => FirstIsReported(firsts, {"content", "usage"})

\* Forward returns, whatever the backend does (FairSpec; the lines are
\* finitely many), except that it waits as long as the client does for the
\* rest of a plain answer to a stream request, which has neither the deadline
\* nor the idle timer.
ForwardReturns ==
    \/ <>(pc = "returned")
    \/ <>[](pc = "pass" /\ streamed /\ body = "open" /\ client = "here")

\* When the handler has returned, the producer and the drainer end (FairSpec).
GoroutinesEnd == pc = "returned" ~> producer.at \in {"none", "done"} /\ drainer # "draining"

\* Forward returns, and then its goroutines end, with the exception of
\* ForwardReturns.
ForwardEnds == ForwardReturns /\ GoroutinesEnd

\* The status that Forward returns, and the handlers log, is the one the
\* client got, unless the client is gone or no request could be built.
StatusIsWritten ==
    pc = "returned" /\ client = "here" /\ result.err # "build" => head = result.status

\* The loop never finds the channel closed and empty: the error that ends the
\* producer is in it, and the loop leaves when it receives that.
ClosedBehindError == pc = "select" /\ producer.at = "done" => chan # << >>

\* The client gets the lines of the stream in order, the usage among them is
\* reported once, for the first block, and the end of the producer is seen as
\* the error it sent.
RelaySafety == TypeOK /\ RelayedInOrder /\ UsageReportedOnce /\ ClosedBehindError

=============================================================================
