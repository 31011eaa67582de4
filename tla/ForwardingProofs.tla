-------------------------- MODULE ForwardingProofs --------------------------
(* Proofs about Forward, for any number of lines and any channel capacity. *)
EXTENDS Forwarding, TLAPS

Results == [status : {0, 499, 500, 502, 504} \cup Statuses,
            err : {"nil", "build", "deadline", "canceled", "unreachable", "read", "noFlusher",
                   "idleTimeout", "write"}]

\* Until the headers are flushed there is nothing but the request; in the
\* loop the headers are written and the producer has been started; it is told
\* to stop, and its channel drained, when the handler has returned.
Phases ==
    /\ pc \in {"build", "do", "pass", "flush"} =>
          /\ producer = Idle /\ nread = 0 /\ chan = << >>
          /\ head = 0 /\ written = << >> /\ usages = << >> /\ firsts = << >>
    /\ pc = "select" => producer.at # "none" /\ head = status
    /\ pc # "returned" => ~stopRead /\ drainer = "none"

\* The line a result carries is the n-th of the backend, or it carries none
\* and an error.
Carries(res, n) == \/ res.line = n
                   \/ res.line = NoLine /\ res.err # "nil"

\* The pipeline of the loop: what was written, what is in the channel and
\* what the producer holds are the lines read so far, in order; an error is
\* behind every line, and the producer is done once it has sent it.
Pipeline ==
    pc = "select" =>
        /\ \A k \in 1 .. Len(chan) :
              /\ Carries(chan[k], Len(written) + k)
              /\ chan[k].err # "nil" => k = Len(chan) /\ producer.at = "done"
              /\ chan[k].line # NoLine => chan[k].line <= nread
              /\ chan[k].err # "nil" => nread = IF chan[k].line = NoLine
                                                THEN Len(written) + k - 1 ELSE chan[k].line
        /\ producer.at = "reading" => nread = Len(written) + Len(chan)
        /\ producer.at = "sending" =>
              /\ Carries(producer, Len(written) + Len(chan) + 1)
              /\ nread = IF producer.line = NoLine THEN Len(written) + Len(chan) ELSE producer.line
        /\ producer.at = "done" => chan # << >> /\ chan[Len(chan)].err # "nil"

\* What an error in the pipeline says of the backend.
ErrorMeans(err) ==
    /\ err = "eof" => body = "eof" /\ nread = Len(sent)
    /\ err = "error" => body = "error" \/ client = "gone"

Errors ==
    pc = "select" => /\ producer.at = "sending" => ErrorMeans(producer.err)
                     /\ \A k \in 1 .. Len(chan) : ErrorMeans(chan[k].err)

\* The lines written are a prefix of those sent.
Prefix ==
    /\ Len(written) <= Len(sent) /\ nread <= Len(sent)
    /\ \A i \in 1 .. Len(written) : written[i] = i

Inv == /\ TypeOK /\ result \in Results
       /\ Phases /\ Pipeline /\ Errors /\ Prefix
       /\ UsageReportedOnce /\ StatusIsWritten /\ EndOfStreamMeansComplete

-----------------------------------------------------------------------------
(* Types *)

Typed == TypeOK /\ result \in Results

\* The types of the sequences, of the flags, of the records and of the rest.
TypedLines ==
    /\ sent \in Seq(LineKinds) /\ Len(sent) <= MaxLines
    /\ chan \in Seq(ReadResults) /\ Len(chan) <= Cap
    /\ written \in Seq(1 .. MaxLines)
    /\ usages \in Seq(1 .. MaxLines) /\ firsts \in Seq(1 .. MaxLines)

TypedFlags == streamed \in BOOLEAN /\ stopRead \in BOOLEAN

TypedRecords ==
    /\ producer \in [at : {"none", "reading", "sending", "done"}, line : 0 .. MaxLines,
                     err : {"nil", "eof", "error"}]
    /\ result \in Results

TypedState ==
    /\ pc \in {"build", "do", "pass", "flush", "select", "returned"}
    /\ client \in {"here", "gone"}
    /\ body \in {"open", "eof", "error"}
    /\ nread \in 0 .. MaxLines
    /\ drainer \in {"none", "draining", "done"}
    /\ timer \in {"armed", "fired"}
    /\ status \in Statuses
    /\ head \in {0, 500, 502, 504} \cup Statuses

\* The parts make up the types.
LEMMA TypedParts == Typed <=> TypedLines /\ TypedFlags /\ TypedRecords /\ TypedState
<1>1. result \in Results => result.status \in {0, 499, 500, 502, 504} \cup Statuses
  BY DEF Results
<1> QED BY <1>1 DEF Typed, TypeOK, TypedLines, TypedFlags, TypedRecords, TypedState

\* Relaying a line keeps the types of what the client and the hooks got.
LEMMA RelayTyped ==
    ASSUME NEW i \in 1 .. MaxLines, Relay(i),
           written \in Seq(1 .. MaxLines), usages \in Seq(1 .. MaxLines),
           firsts \in Seq(1 .. MaxLines)
    PROVE  /\ written' \in Seq(1 .. MaxLines) /\ usages' \in Seq(1 .. MaxLines)
           /\ firsts' \in Seq(1 .. MaxLines)
<1>1. written' \in Seq(1 .. MaxLines)
  BY DEF Relay
<1>2. \A s : s = << i >> => s \in Seq(1 .. MaxLines)
  OBVIOUS
<1>3. usages' \in Seq(1 .. MaxLines)
  BY <1>2, Zenon DEF Relay
<1>4. firsts' \in Seq(1 .. MaxLines)
  BY <1>2, Zenon DEF Relay
<1> QED BY <1>1, <1>3, <1>4, Zenon

\* Every step keeps the types.
LEMMA ForwardTypeStep == Typed /\ [Next]_vars => Typed'
<1>0. ASSUME TypedLines', TypedFlags', TypedRecords', TypedState' PROVE Typed'
  <2>1. (Typed <=> TypedLines /\ TypedFlags /\ TypedRecords /\ TypedState)'
    BY TypedParts, PTL
  <2> QED BY <1>0, <2>1, Zenon
<1> USE ForwardingAssumption
    DEF Typed, TypeOK, Results, Statuses, LineKinds, ReadResults, backend, reader, answer, Idle,
        NoLine
<1>1. ASSUME Typed, Build PROVE Typed'
  <2>1. TypedLines'
    BY <1>1 DEF Build, Quit, TypedLines
  <2>2. TypedFlags'
    BY <1>1 DEF Build, Quit, TypedFlags
  <2>3. TypedRecords'
    <3>1. CASE UNCHANGED <<producer, result>>
      BY <1>1, <3>1 DEF TypedRecords
    <3>2. CASE result' = [status |-> 500, err |-> "build"] /\ UNCHANGED producer
      BY <1>1, <3>2 DEF TypedRecords
    <3> QED BY <1>1, <3>1, <3>2 DEF Build, Quit
  <2>4. TypedState'
    BY <1>1 DEF Build, Quit, TypedState
  <2> QED BY <1>0, <2>1, <2>2, <2>3, <2>4, Zenon
<1>2. ASSUME Typed, Do PROVE Typed'
  BY <1>2 DEF Do, Quit, Fail
<1>3. ASSUME Typed, Pass PROVE Typed'
  <2>1. usages' \in Seq(1 .. MaxLines)
    <3>1. CASE usages' = usages
      BY <1>3, <3>1
    <3>2. CASE usages' = << >>
      BY <3>2
    <3>3. ASSUME NEW i \in 1 .. Len(sent), usages' = << i >>
          PROVE  usages' \in Seq(1 .. MaxLines)
      <4>1. i \in 1 .. MaxLines
        BY <1>3
      <4> QED BY <3>3, <4>1
    <3> QED BY <1>3, <3>1, <3>2, <3>3 DEF Pass, Fail, BodyUsage
  <2>2. written' \in Seq(1 .. MaxLines)
    BY <1>3 DEF Pass, Fail
  <2> QED BY <1>3, <2>1, <2>2 DEF Pass, Fail
<1>4. ASSUME Typed, Flush PROVE Typed'
  BY <1>4 DEF Flush, Fail
<1>5. ASSUME Typed, ClientDone \/ IdleTimeout PROVE Typed'
  <2>1. result' \in Results /\ pc' = "returned" /\ stopRead' = TRUE /\ drainer' = "draining"
    BY <1>5 DEF ClientDone, IdleTimeout, Leave
  <2>2. UNCHANGED <<streamed, client, backend, reader, chan, timer, answer>>
    BY <1>5 DEF ClientDone, IdleTimeout
  <2> QED BY <1>5, <2>1, <2>2
<1>6. ASSUME Typed, Receive PROVE Typed'
  <2>1. Head(chan) \in ReadResults /\ chan' \in Seq(ReadResults) /\ Len(chan') <= Cap
    <3> HIDE DEF ReadResults
    <3> QED BY <1>6 DEF Receive
  <2>2. /\ written' \in Seq(1 .. MaxLines) /\ usages' \in Seq(1 .. MaxLines)
        /\ firsts' \in Seq(1 .. MaxLines) /\ head' = head /\ timer' \in {"armed", "fired"}
    <3>1. CASE UNCHANGED <<answer, timer>>
      BY <1>6, <3>1
    <3>2. CASE Head(chan).line # NoLine /\ Relay(Head(chan).line) /\ timer' = "armed"
      <4>1. Head(chan).line \in 1 .. MaxLines
        BY <2>1, <3>2
      <4>2. /\ written \in Seq(1 .. MaxLines) /\ usages \in Seq(1 .. MaxLines)
            /\ firsts \in Seq(1 .. MaxLines)
        BY <1>6
      <4>3. head' = head
        BY <3>2, Zenon DEF Relay
      <4> QED BY <3>2, <4>1, <4>2, <4>3, RelayTyped, Zenon
    <3> QED BY <1>6, <3>1, <3>2 DEF Receive
  <2>3. /\ result' \in Results /\ pc' \in {"select", "returned"} /\ stopRead' \in BOOLEAN
        /\ drainer' \in {"none", "draining", "done"}
    <3>1. CASE UNCHANGED <<pc, result, stopRead, drainer>>
      BY <1>6, <3>1 DEF Receive
    <3>2. ASSUME NEW err \in {"nil", "write"}, Leave(err)
          PROVE  /\ result' \in Results /\ pc' \in {"select", "returned"} /\ stopRead' \in BOOLEAN
                 /\ drainer' \in {"none", "draining", "done"}
      <4>1. status \in Statuses
        BY <1>6
      <4> HIDE DEF Statuses
      <4>2. result' = [status |-> status, err |-> err]
        BY <3>2, Zenon DEF Leave
      <4>3. result' \in Results
        BY <4>1, <4>2
      <4> HIDE DEF Results
      <4> QED BY <3>2, <4>3, Zenon DEF Leave
    <3> QED BY <1>6, <3>1, <3>2 DEF Receive
  <2>4. UNCHANGED <<streamed, client, backend, reader>>
    BY <1>6 DEF Receive
  <2> HIDE DEF ReadResults
  <2> QED BY <1>6, <2>1, <2>2, <2>3, <2>4
<1>7. ASSUME Typed, Read PROVE Typed'
  BY <1>7 DEF Read
<1>8. ASSUME Typed, Send PROVE Typed'
  <2>1. chan' \in Seq(ReadResults) /\ Len(chan') <= Cap
    <3>1. [line |-> producer.line, err |-> producer.err] \in ReadResults
      BY <1>8
    <3>2. CASE /\ Len(chan) < Cap
               /\ chan' = Append(chan, [line |-> producer.line, err |-> producer.err])
      <4>1. chan \in Seq(ReadResults)
        BY <1>8
      <4> HIDE DEF ReadResults
      <4> QED BY <3>1, <3>2, <4>1
    <3>3. CASE UNCHANGED chan
      BY <1>8, <3>3
    <3> QED BY <1>8, <3>2, <3>3 DEF Send
  <2>2. TypedLines'
    BY <1>8, <2>1 DEF Send, TypedLines
  <2>3. TypedFlags'
    BY <1>8 DEF Send, TypedFlags
  <2>4. TypedRecords'
    <3>1. PICK at \in {"reading", "done"} : producer' = [Idle EXCEPT !.at = at]
      BY <1>8 DEF Send
    <3>2. producer' = [at |-> at, line |-> 0, err |-> "nil"]
      BY <3>1, Zenon
    <3>3. producer' \in [at : {"none", "reading", "sending", "done"}, line : 0 .. MaxLines,
                         err : {"nil", "eof", "error"}]
      BY <3>2
    <3>4. result' \in Results
      BY <1>8 DEF Send
    <3> QED BY <3>3, <3>4 DEF TypedRecords
  <2>5. TypedState'
    BY <1>8 DEF Send, TypedState
  <2> QED BY <1>0, <2>2, <2>3, <2>4, <2>5, Zenon
<1>9. ASSUME Typed, Drain PROVE Typed'
  <2>1. chan' \in Seq(ReadResults) /\ Len(chan') <= Cap
    <3>1. CASE chan # << >> /\ chan' = Tail(chan)
      <4>1. chan \in Seq(ReadResults) /\ Len(chan) <= Cap
        BY <1>9
      <4> HIDE DEF ReadResults
      <4> QED BY <3>1, <4>1
    <3>2. CASE UNCHANGED chan
      BY <1>9, <3>2
    <3> QED BY <1>9, <3>1, <3>2 DEF Drain
  <2> QED BY <1>9, <2>1 DEF Drain
<1>10. ASSUME Typed, SendLine PROVE Typed'
  BY <1>10 DEF SendLine
<1>11. ASSUME Typed, EndBody \/ Disconnect \/ Fire PROVE Typed'
  <2>1. TypedLines'
    BY <1>11 DEF EndBody, Disconnect, Fire, TypedLines
  <2>2. TypedFlags'
    BY <1>11 DEF EndBody, Disconnect, Fire, TypedFlags
  <2>3. TypedRecords'
    BY <1>11 DEF EndBody, Disconnect, Fire, TypedRecords
  <2>4. TypedState'
    <3>1. CASE EndBody
      BY <1>11, <3>1 DEF EndBody, TypedState
    <3>2. CASE Disconnect
      BY <1>11, <3>2 DEF Disconnect, TypedState
    <3>3. CASE Fire
      BY <1>11, <3>3 DEF Fire, TypedState
    <3> QED BY <1>11, <3>1, <3>2, <3>3
  <2> QED BY <1>0, <2>1, <2>2, <2>3, <2>4, Zenon
<1>12. ASSUME Typed, UNCHANGED vars PROVE Typed'
  BY <1>12 DEF vars
<1> HIDE DEF Typed
<1> QED
  BY <1>1, <1>2, <1>3, <1>4, <1>5, <1>6, <1>7, <1>8, <1>9, <1>10, <1>11, <1>12, Zenon
  DEF Next, Handler, Over

-----------------------------------------------------------------------------
(* The relay *)

\* Every step keeps the phases of the handler apart.
LEMMA PhasesStep == Typed /\ Phases /\ [Next]_vars => Phases'
<1> USE DEF Phases, backend, reader, answer
<1>1. ASSUME Phases, Build PROVE Phases'
  BY <1>1, Zenon DEF Build, Quit
<1>2. ASSUME Phases, Do PROVE Phases'
  BY <1>2 DEF Do, Quit, Fail
<1>3. ASSUME Phases, Pass \/ ClientDone \/ IdleTimeout PROVE Phases'
  <2>1. CASE Pass
    BY <1>3, <2>1, Zenon DEF Pass, Fail
  <2>2. CASE ClientDone
    BY <1>3, <2>2, Zenon DEF ClientDone, Leave
  <2>3. CASE IdleTimeout
    BY <1>3, <2>3, Zenon DEF IdleTimeout, Leave
  <2> QED BY <1>3, <2>1, <2>2, <2>3, Zenon
<1>4. ASSUME Phases, Flush PROVE Phases'
  BY <1>4 DEF Flush, Fail, Idle
<1>5. ASSUME Phases, Receive PROVE Phases'
  BY <1>5, Zenon DEF Receive, Leave, Relay
<1>6. ASSUME Phases, pc \in {"build", "do", "pass", "flush", "select", "returned"}, Read
      PROVE  Phases'
  BY <1>6 DEF Read, Idle
<1>7. ASSUME Phases, pc \in {"build", "do", "pass", "flush", "select", "returned"}, Send
      PROVE  Phases'
  BY <1>7 DEF Send, Idle
<1>8. ASSUME Phases, Drain PROVE Phases'
  BY <1>8, Zenon DEF Drain
<1>9. ASSUME Phases, SendLine \/ EndBody \/ Disconnect \/ Fire \/ UNCHANGED vars PROVE Phases'
  BY <1>9 DEF SendLine, EndBody, Disconnect, Fire, vars
<1>10. Typed => pc \in {"build", "do", "pass", "flush", "select", "returned"}
  BY DEF Typed, TypeOK
<1> HIDE DEF Phases
<1> QED
  BY <1>1, <1>2, <1>3, <1>4, <1>5, <1>6, <1>7, <1>8, <1>9, <1>10, Zenon DEF Next, Handler, Over

\* What the handler receives first is the next line, or an error alone.
LEMMA NextLine ==
    ASSUME Typed, Pipeline, pc = "select", chan # << >>
    PROVE  /\ Head(chan) = chan[1] /\ Head(chan) \in ReadResults
           /\ Len(chan) \in Nat \ {0}
           /\ \/ Head(chan).line = Len(written) + 1 /\ Head(chan).line <= nread
              \/ Head(chan).line = NoLine /\ Head(chan).err # "nil"
<1>1. chan \in Seq(ReadResults)
  BY DEF Typed, TypeOK
<1>2. Len(chan) \in Nat \ {0} /\ Head(chan) = chan[1] /\ Head(chan) \in ReadResults
  BY <1>1
<1>3. Carries(chan[1], Len(written) + 1) /\ (chan[1].line # NoLine => chan[1].line <= nread)
  BY <1>2 DEF Pipeline
<1>4. Len(written) \in Nat
  BY DEF Typed, TypeOK
<1> QED BY <1>2, <1>3, <1>4 DEF Carries, NoLine

\* Every step keeps the client's lines a prefix of the backend's.
LEMMA PrefixStep == Typed /\ Phases /\ Pipeline /\ Prefix /\ [Next]_vars => Prefix'
<1> USE DEF Prefix, backend, reader, answer
<1>1. CASE UNCHANGED <<written, nread, sent>>
  BY <1>1, Zenon
<1>2. ASSUME Typed, Phases, Prefix, Pass PROVE Prefix'
  <2>1. nread = 0 /\ sent \in Seq(LineKinds) /\ UNCHANGED <<sent, nread>>
    BY <1>2 DEF Pass, Phases, Typed, TypeOK
  <2> QED BY <1>2, <2>1 DEF Pass, Fail
<1>3. ASSUME Typed, Pipeline, Prefix, Receive PROVE Prefix'
  <2>1. CASE UNCHANGED written
    BY <1>3, <2>1, Zenon DEF Receive
  <2>2. CASE Head(chan).line # NoLine /\ Relay(Head(chan).line)
    <3>1. Head(chan).line = Len(written) + 1 /\ Head(chan).line <= nread
      BY <1>3, <2>2, NextLine, Zenon DEF Receive
    <3>2. written \in Seq(1 .. MaxLines) /\ nread \in Nat /\ Len(sent) \in Nat
      BY <1>3 DEF Typed, TypeOK
    <3>3. written' = Append(written, Len(written) + 1)
      BY <2>2, <3>1, Zenon DEF Relay
    <3>4. UNCHANGED <<sent, nread>>
      BY <1>3, Zenon DEF Receive
    <3>5. Len(written') = Len(written) + 1
      BY <3>2, <3>3
    <3>6. \A i \in 1 .. Len(written') : written'[i] = i
      BY <1>3, <3>2, <3>3, <3>5
    <3> QED BY <1>3, <3>1, <3>2, <3>4, <3>5, <3>6
  <2> QED BY <1>3, <2>1, <2>2, Zenon DEF Receive
<1>4. ASSUME Typed, Prefix, Read PROVE Prefix'
  <2>1. nread' <= Len(sent) /\ UNCHANGED <<sent, written>>
    BY <1>4 DEF Read, Typed, TypeOK, NoLine
  <2> QED BY <1>4, <2>1, Zenon
<1>5. ASSUME Typed, Prefix, SendLine PROVE Prefix'
  <2>1. sent \in Seq(LineKinds) /\ nread \in Nat /\ Len(written) \in Nat
    BY <1>5 DEF Typed, TypeOK
  <2>2. Len(sent') = Len(sent) + 1 /\ UNCHANGED <<nread, written>>
    BY <1>5, <2>1 DEF SendLine
  <2> QED BY <1>5, <2>1, <2>2
<1>6. Build \/ Do \/ Flush \/ ClientDone \/ IdleTimeout => UNCHANGED <<written, nread, sent>>
  BY DEF Build, Do, Flush, ClientDone, IdleTimeout, Quit, Fail
<1>7. Send \/ Drain \/ EndBody \/ Disconnect \/ Fire \/ UNCHANGED vars =>
          UNCHANGED <<written, nread, sent>>
  BY Zenon DEF Send, Drain, EndBody, Disconnect, Fire, vars
<1> HIDE DEF Prefix
<1> QED BY <1>1, <1>2, <1>3, <1>4, <1>5, <1>6, <1>7, Zenon DEF Next, Handler, Over

\* Every step of the handler and of the producer keeps the pipeline in order.
LEMMA PipelineStep ==
    Typed /\ Phases /\ Pipeline /\ [Next]_vars => Pipeline'
<1> USE DEF NoLine, backend, reader, answer
<1>1. CASE pc' # "select"
  BY <1>1, Zenon DEF Pipeline
<1>2. ASSUME Pipeline, UNCHANGED <<pc, written, chan, nread, producer>> PROVE Pipeline'
  BY <1>2, Zenon DEF Pipeline, Carries
<1>3. ASSUME Phases, Flush PROVE Pipeline'
  <2>1. CASE pc' = "select"
    <3>1. chan' = << >> /\ written' = << >> /\ nread' = 0 /\ producer'.at = "reading"
      BY <1>3, <2>1 DEF Flush, Fail, Phases, Idle
    <3> QED BY <3>1 DEF Pipeline
  <2>2. CASE pc' # "select"
    BY <2>2, Zenon DEF Pipeline
  <2> QED BY <2>1, <2>2, Zenon
<1>4. ASSUME Typed, Pipeline, Receive, pc' = "select" PROVE Pipeline'
  <2> DEFINE res == Head(chan)
  <2>1. /\ res = chan[1] /\ res \in ReadResults /\ Len(chan) \in Nat \ {0}
        /\ \/ res.line = Len(written) + 1
           \/ res.line = NoLine /\ res.err # "nil"
    BY <1>4, NextLine, Zenon DEF Receive
  <2>2. res.line # NoLine /\ res.err = "nil" /\ Relay(res.line)
    BY <1>4, <2>1 DEF Receive, Leave
  <2>3. written \in Seq(1 .. MaxLines) /\ chan \in Seq(ReadResults) /\ nread \in Nat
    BY <1>4 DEF Typed, TypeOK
  <2>4. Len(written') = Len(written) + 1
    BY <2>2, <2>3 DEF Relay
  <2>5. /\ Len(chan') = Len(chan) - 1 /\ \A k \in 1 .. Len(chan') : chan'[k] = chan[k + 1]
        /\ UNCHANGED <<pc, nread, producer>>
    BY <1>4, <2>1, <2>2, <2>3 DEF Receive, Leave
  <2>6. pc = "select" /\ Len(written) \in Nat
    BY <1>4, <2>3 DEF Receive
  <2>7. \A k \in 1 .. Len(chan') : k + 1 \in 1 .. Len(chan)
    BY <2>1, <2>5
  <2>8. \A k \in 1 .. Len(chan') :
          /\ Carries(chan'[k], Len(written') + k)
          /\ chan'[k].err # "nil" => k = Len(chan') /\ producer'.at = "done"
          /\ chan'[k].line # NoLine => chan'[k].line <= nread'
          /\ chan'[k].err # "nil" => nread' = IF chan'[k].line = NoLine
                                              THEN Len(written') + k - 1 ELSE chan'[k].line
    <3> SUFFICES ASSUME NEW k \in 1 .. Len(chan')
                 PROVE  /\ Carries(chan'[k], Len(written') + k)
                        /\ chan'[k].err # "nil" => k = Len(chan') /\ producer'.at = "done"
                        /\ chan'[k].line # NoLine => chan'[k].line <= nread'
                        /\ chan'[k].err # "nil" => nread' = IF chan'[k].line = NoLine
                                                     THEN Len(written') + k - 1 ELSE chan'[k].line
      BY Zenon
    <3>1. k + 1 \in 1 .. Len(chan) /\ chan'[k] = chan[k + 1]
      BY <2>5, <2>7, Zenon
    <3>2. /\ Carries(chan[k + 1], Len(written) + (k + 1))
          /\ chan[k + 1].err # "nil" => k + 1 = Len(chan) /\ producer.at = "done"
          /\ chan[k + 1].line # NoLine => chan[k + 1].line <= nread
          /\ chan[k + 1].err # "nil" => nread = IF chan[k + 1].line = NoLine
                                           THEN Len(written) + (k + 1) - 1 ELSE chan[k + 1].line
      BY <1>4, <2>6, <3>1, Zenon DEF Pipeline
    <3> QED BY <2>1, <2>4, <2>5, <2>6, <3>1, <3>2 DEF Carries
  <2>9. producer.at = "done" => chan' # << >> /\ chan'[Len(chan')].err # "nil"
    <3> SUFFICES ASSUME producer.at = "done"
                 PROVE  chan' # << >> /\ chan'[Len(chan')].err # "nil"
      BY Zenon
    <3>1. chan[Len(chan)].err # "nil"
      BY <1>4, <2>6, Zenon DEF Pipeline
    <3>2. Len(chan) # 1
      BY <3>1, <2>1, <2>2, Zenon
    <3>3. Len(chan') \in 1 .. Len(chan') /\ Len(chan') + 1 = Len(chan)
      BY <2>1, <2>5, <3>2
    <3>4. chan'[Len(chan')] = chan[Len(chan)]
      BY <2>5, <3>3, Zenon
    <3> QED BY <3>1, <3>3, <3>4
  <2>10. producer.at = "reading" => nread' = Len(written') + Len(chan')
    BY <1>4, <2>1, <2>4, <2>5, <2>6 DEF Pipeline
  <2>11. producer.at = "sending" =>
           /\ Carries(producer', Len(written') + Len(chan') + 1)
           /\ nread' = IF producer'.line = NoLine THEN Len(written') + Len(chan') ELSE producer'.line
    BY <1>4, <2>1, <2>4, <2>5, <2>6 DEF Pipeline, Carries
  <2> QED BY <2>5, <2>8, <2>9, <2>10, <2>11, Zenon DEF Pipeline
<1>5. ASSUME Typed, Pipeline, Read PROVE Pipeline'
  <2>1. /\ nread \in Nat /\ Len(written) \in Nat /\ Len(chan) \in Nat
        /\ \A k \in 1 .. Len(chan) : chan[k].line \in Nat
    <3>1. chan \in Seq(ReadResults) /\ nread \in Nat /\ Len(written) \in Nat
      BY <1>5 DEF Typed, TypeOK
    <3>2. \A k \in 1 .. Len(chan) : chan[k] \in ReadResults
      BY <3>1
    <3> QED BY <3>1, <3>2 DEF ReadResults
  <2>2. /\ producer.at = "reading" /\ producer'.at = "sending"
        /\ UNCHANGED <<pc, chan, written>>
        /\ producer'.line \in {NoLine, nread + 1}
        /\ producer'.line = NoLine => producer'.err # "nil"
        /\ nread' = IF producer'.line = NoLine THEN nread ELSE producer'.line
    BY <1>5 DEF Read
  <2> QED BY <1>5, <2>1, <2>2 DEF Pipeline, Carries
<1>6. ASSUME Typed, Phases, Pipeline, Send, pc' = "select" PROVE Pipeline'
  <2> DEFINE r == [line |-> producer.line, err |-> producer.err]
  <2>1. /\ pc = "select" /\ ~stopRead /\ producer.at = "sending"
        /\ chan' = Append(chan, r) /\ UNCHANGED <<pc, written, nread>>
        /\ producer'.at = IF producer.err = "nil" THEN "reading" ELSE "done"
    BY <1>6 DEF Send, Phases, Idle
  <2>2. /\ chan \in Seq(ReadResults) /\ r \in ReadResults /\ nread \in Nat
        /\ Len(written) \in Nat /\ producer.line \in Nat
    BY <1>6 DEF Typed, TypeOK, ReadResults
  <2>3. /\ Len(chan) \in Nat /\ Len(chan') = Len(chan) + 1 /\ chan'[Len(chan')] = r
        /\ \A k \in 1 .. Len(chan) : chan'[k] = chan[k]
    <3> HIDE DEF r
    <3> QED BY <2>1, <2>2
  <2>4. \A k \in 1 .. Len(chan') : k \in 1 .. Len(chan) \/ k = Len(chan')
    BY <2>3
  <2>5. /\ Carries(r, Len(written) + Len(chan'))
        /\ nread = IF r.line = NoLine THEN Len(written) + Len(chan) ELSE r.line
    BY <1>6, <2>1, <2>2, <2>3 DEF Pipeline, Carries
  <2>6. \A k \in 1 .. Len(chan) : chan[k].err = "nil"
    BY <1>6, <2>1, Zenon DEF Pipeline
  <2>7. \A k \in 1 .. Len(chan') :
          /\ Carries(chan'[k], Len(written') + k)
          /\ chan'[k].err # "nil" => k = Len(chan') /\ producer'.at = "done"
          /\ chan'[k].line # NoLine => chan'[k].line <= nread'
          /\ chan'[k].err # "nil" => nread' = IF chan'[k].line = NoLine
                                              THEN Len(written') + k - 1 ELSE chan'[k].line
    <3> SUFFICES ASSUME NEW k \in 1 .. Len(chan')
                 PROVE  /\ Carries(chan'[k], Len(written') + k)
                        /\ chan'[k].err # "nil" => k = Len(chan') /\ producer'.at = "done"
                        /\ chan'[k].line # NoLine => chan'[k].line <= nread'
                        /\ chan'[k].err # "nil" => nread' = IF chan'[k].line = NoLine
                                                     THEN Len(written') + k - 1 ELSE chan'[k].line
      BY Zenon
    <3>1. CASE k \in 1 .. Len(chan)
      BY <1>6, <2>1, <2>3, <2>6, <3>1, Zenon DEF Pipeline
    <3>2. CASE k = Len(chan')
      BY <2>1, <2>2, <2>3, <2>5, <3>2
    <3> QED BY <2>4, <3>1, <3>2, Zenon
  <2> QED BY <2>1, <2>2, <2>3, <2>5, <2>7 DEF Pipeline, Carries
<1>7. Phases /\ Drain => pc' # "select"
  BY Zenon DEF Phases, Drain
<1>8. Build \/ Do \/ Pass \/ ClientDone \/ IdleTimeout => pc' # "select"
  BY DEF Build, Do, Pass, ClientDone, IdleTimeout, Quit, Fail, Leave
<1>9. SendLine \/ EndBody \/ Disconnect \/ Fire \/ UNCHANGED vars =>
          UNCHANGED <<pc, written, chan, nread, producer>>
  BY Zenon DEF SendLine, EndBody, Disconnect, Fire, vars
<1> QED
  BY <1>1, <1>2, <1>3, <1>4, <1>5, <1>6, <1>7, <1>8, <1>9, Zenon DEF Next, Handler, Over

\* Every step keeps what the errors in the pipeline mean.
LEMMA ErrorsStep ==
    Typed /\ Phases /\ Pipeline /\ Errors /\ [Next]_vars => Errors'
<1> USE DEF NoLine, backend, reader, answer
<1>1. CASE pc' # "select"
  BY <1>1, Zenon DEF Errors
<1>2. ASSUME Errors, UNCHANGED <<pc, client, sent, body, chan, nread, producer>> PROVE Errors'
  BY <1>2, Zenon DEF Errors, ErrorMeans
<1>3. ASSUME Phases, Flush PROVE Errors'
  <2>1. chan' = << >> /\ producer'.at # "sending"
    BY <1>3 DEF Flush, Fail, Phases, Idle
  <2> QED BY <2>1 DEF Errors
<1>4. ASSUME Typed, Errors, Receive PROVE Errors'
  <2>1. chan \in Seq(ReadResults) /\ chan # << >> /\ chan' = Tail(chan) /\ pc = "select"
    BY <1>4 DEF Typed, TypeOK, Receive
  <2>2. \A k \in 1 .. Len(chan') : k + 1 \in 1 .. Len(chan) /\ chan'[k] = chan[k + 1]
    BY <2>1
  <2>3. UNCHANGED <<client, sent, body, nread, producer>>
    BY <1>4, Zenon DEF Receive
  <2> QED BY <1>4, <2>1, <2>2, <2>3, Zenon DEF Errors, ErrorMeans
<1>5. ASSUME Typed, Pipeline, Read, pc = "select" PROVE Errors'
  <2>1. /\ producer.at = "reading" /\ UNCHANGED <<pc, client, sent, body, chan>>
        /\ producer'.err = "eof" => body = "eof" /\ nread' = Len(sent)
        /\ producer'.err = "error" => body = "error" \/ client = "gone"
    BY <1>5 DEF Read, Typed, TypeOK
  <2>2. \A k \in 1 .. Len(chan) : chan[k].err = "nil"
    BY <1>5, <2>1, Zenon DEF Pipeline
  <2> QED BY <2>1, <2>2, Zenon DEF Errors, ErrorMeans
<1>6. ASSUME Typed, Phases, Errors, Send, pc = "select" PROVE Errors'
  <2> DEFINE r == [line |-> producer.line, err |-> producer.err]
  <2>1. /\ producer.at = "sending" /\ producer'.at # "sending"
        /\ chan' = Append(chan, r) /\ UNCHANGED <<pc, client, sent, body, nread>>
    BY <1>6 DEF Send, Phases, Idle
  <2>2. chan \in Seq(ReadResults) /\ r \in ReadResults
    BY <1>6 DEF Typed, TypeOK, ReadResults
  <2>3. \A k \in 1 .. Len(chan') : \/ k \in 1 .. Len(chan) /\ chan'[k] = chan[k]
                                   \/ chan'[k] = r
    <3> HIDE DEF r
    <3> QED BY <2>1, <2>2
  <2>4. ErrorMeans(r.err)
    BY <1>6, <2>1, Zenon DEF Errors
  <2> QED BY <1>6, <2>1, <2>3, <2>4, Zenon DEF Errors, ErrorMeans
<1>7. ASSUME Errors, SendLine PROVE Errors'
  BY <1>7, Zenon DEF Errors, ErrorMeans, SendLine
<1>8. ASSUME Errors, EndBody \/ Disconnect PROVE Errors'
  BY <1>8, Zenon DEF Errors, ErrorMeans, EndBody, Disconnect
<1>9. Phases /\ Drain => pc' # "select"
  BY Zenon DEF Phases, Drain
<1>10. Build \/ Do \/ Pass \/ ClientDone \/ IdleTimeout => pc' # "select"
  BY DEF Build, Do, Pass, ClientDone, IdleTimeout, Quit, Fail, Leave
<1>11. Fire \/ UNCHANGED vars => UNCHANGED <<pc, client, sent, body, chan, nread, producer>>
  BY Zenon DEF Fire, vars
<1>12. Read \/ Send => pc' = pc
  BY Zenon DEF Read, Send
<1> QED
  BY <1>1, <1>2, <1>3, <1>4, <1>5, <1>6, <1>7, <1>8, <1>9, <1>10, <1>11, <1>12, Zenon
  DEF Next, Handler, Over

-----------------------------------------------------------------------------
(* What Forward reports and returns *)

\* FirstIsReported, of the lines w and the kinds of lines s.
Reported(w, s, reports, kinds) ==
    \/ reports = << >> /\ \A i \in 1 .. Len(w) : s[w[i]] \notin kinds
    \/ \E i \in 1 .. Len(w) :
          /\ reports = << w[i] >> /\ s[w[i]] \in kinds
          /\ \A j \in 1 .. i - 1 : s[w[j]] \notin kinds

\* A report of the first line of some kinds stays right when one more line is
\* written: it is made now if there was none and the line is of the kinds.
LEMMA OneMoreLine ==
    ASSUME NEW s, NEW reports, NEW kinds, NEW w \in Seq(1 .. MaxLines), NEW i \in Nat,
           i = Len(w) + 1, Reported(w, s, reports, kinds)
    PROVE  /\ reports = << >> /\ s[i] \in kinds => Reported(Append(w, i), s, << i >>, kinds)
           /\ reports # << >> \/ s[i] \notin kinds => Reported(Append(w, i), s, reports, kinds)
<1> DEFINE v == Append(w, i)
<1>1. /\ Len(v) = Len(w) + 1 /\ Len(w) \in Nat /\ v[i] = i /\ i \in 1 .. Len(v)
      /\ \A j \in 1 .. Len(w) : j \in 1 .. Len(v) /\ v[j] = w[j]
  OBVIOUS
<1>2. \A j \in 1 .. Len(v) : j \in 1 .. Len(w) \/ j = i
  BY <1>1
<1> HIDE DEF v
<1>3. CASE reports = << >> /\ \A j \in 1 .. Len(w) : s[w[j]] \notin kinds
  <2>1. CASE s[i] \in kinds
    <3>1. \A k \in 1 .. i - 1 : s[v[k]] \notin kinds
      BY <1>1, <1>3
    <3>2. Reported(v, s, << i >>, kinds)
      BY <1>1, <2>1, <3>1, Zenon DEF Reported
    <3> QED BY <1>3, <2>1, <3>2, Zenon DEF v
  <2>2. CASE s[i] \notin kinds
    <3>1. Reported(v, s, reports, kinds)
      BY <1>1, <1>2, <1>3, <2>2, Zenon DEF Reported
    <3> QED BY <2>2, <3>1, Zenon DEF v
  <2> QED BY <2>1, <2>2, Zenon
<1>4. ASSUME NEW j \in 1 .. Len(w), reports = << w[j] >>, s[w[j]] \in kinds,
             \A k \in 1 .. j - 1 : s[w[k]] \notin kinds
      PROVE  reports # << >> /\ Reported(v, s, reports, kinds)
  <2>1. j \in 1 .. Len(v) /\ v[j] = w[j]
    BY <1>1, Zenon
  <2>2. reports = << v[j] >> /\ s[v[j]] \in kinds
    BY <1>4, <2>1, Zenon
  <2>3. \A k \in 1 .. j - 1 : k \in 1 .. Len(w)
    BY <1>1
  <2>4. \A k \in 1 .. j - 1 : s[v[k]] \notin kinds
    BY <1>1, <1>4, <2>3, Zenon
  <2> QED BY <2>1, <2>2, <2>4, Zenon DEF Reported
<1> QED BY <1>3, <1>4, Zenon DEF Reported, v

\* No step reports a second usage, or misses the first.
LEMMA ReportsStep ==
    Typed /\ Phases /\ Pipeline /\ Prefix /\ UsageReportedOnce /\ [Next]_vars
        => UsageReportedOnce'
<1> USE DEF backend, reader, answer
<1>1. ASSUME UsageReportedOnce, UNCHANGED <<written, sent, status, usages, firsts>>,
             producer.at = "none" <=> producer'.at = "none"
      PROVE  UsageReportedOnce'
  <2>1. Success' <=> Success
    BY <1>1, Zenon DEF Success
  <2> QED BY <1>1, <2>1, Zenon DEF UsageReportedOnce, FirstIsReported
<1>2. ASSUME Typed, Phases, UsageReportedOnce, Pass PROVE UsageReportedOnce'
  <2>1. producer.at = "none" /\ producer'.at = "none" /\ usages = << >>
    BY <1>2 DEF Pass, Phases, Idle
  <2>2. CASE UNCHANGED <<written, sent, status, usages, firsts>>
    BY <1>1, <1>2, <2>1, <2>2, Zenon
  <2>3. CASE written' = [i \in 1 .. Len(sent) |-> i] /\ UNCHANGED <<sent, status>>
    <3>1. sent \in Seq(LineKinds)
      BY <1>2 DEF Typed, TypeOK
    <3>2. Len(written') = Len(sent) /\ \A i \in 1 .. Len(sent) : written'[i] = i
      BY <2>3, <3>1
    <3>3. Success' <=> Success
      BY <2>3, Zenon DEF Success
    <3>4. CASE usages' = << >> /\ \A i \in 1 .. Len(sent) : sent[i] # "usage"
      BY <2>1, <2>3, <3>2, <3>4, Zenon DEF UsageReportedOnce, FirstIsReported
    <3>5. ASSUME NEW i \in 1 .. Len(sent), usages' = << i >>, sent[i] = "usage", Success,
                 \A j \in 1 .. i - 1 : sent[j] # "usage"
          PROVE  UsageReportedOnce'
      <4>1. \A j \in 1 .. i - 1 : j \in 1 .. Len(sent)
        BY <3>1
      <4>2. FirstIsReported(usages, {"usage"})'
        BY <2>3, <3>2, <3>5, <4>1, Zenon DEF FirstIsReported
      <4> QED BY <2>1, <3>3, <3>5, <4>2, Zenon DEF UsageReportedOnce
    <3>6. CASE ~Success /\ usages' = << >>
      BY <2>1, <3>3, <3>6, Zenon DEF UsageReportedOnce
    <3>7. CASE UNCHANGED <<written, sent, status, usages, firsts>>
      BY <2>2, <3>7, Zenon
    <3> QED BY <1>2, <2>1, <3>4, <3>5, <3>6, <3>7, Zenon DEF Pass, Fail, BodyUsage
  <2> QED BY <1>2, <2>2, <2>3, Zenon DEF Pass, Fail
<1>3. ASSUME Phases, Flush PROVE UsageReportedOnce'
  <2>1. written' = << >> /\ usages' = << >> /\ firsts' = << >>
    BY <1>3 DEF Phases, Flush, Fail
  <2> QED BY <2>1 DEF UsageReportedOnce, FirstIsReported
<1>4. ASSUME Typed, Phases, Pipeline, Prefix, UsageReportedOnce, Receive
      PROVE  UsageReportedOnce'
  <2>1. UNCHANGED <<sent, status, producer>> /\ pc = "select" /\ chan # << >>
    BY <1>4, Zenon DEF Receive
  <2>0. producer'.at # "none"
    BY <1>4, <2>1, Zenon DEF Phases
  <2>2. CASE UNCHANGED answer
    BY <1>1, <1>4, <2>1, <2>2, Zenon
  <2>3. CASE Head(chan).line # NoLine /\ Relay(Head(chan).line)
    <3> DEFINE i == Head(chan).line
    <3>1. i = Len(written) + 1 /\ i <= nread /\ i \in Nat
      BY <1>4, <2>1, <2>3, NextLine DEF ReadResults
    <3>2. /\ written \in Seq(1 .. MaxLines) /\ written' = Append(written, i)
          /\ sent \in Seq(LineKinds) /\ nread \in Nat
      BY <1>4, <2>3 DEF Relay, Typed, TypeOK
    <3>3. sent[i] \in LineKinds
      BY <1>4, <3>1, <3>2 DEF Prefix
    <3>4. FirstIsReported(usages, {"usage"})'
      <4> DEFINE kinds == {"usage"}
      <4>1. Reported(written, sent, usages, kinds)
        BY <1>4, <2>1, Zenon DEF UsageReportedOnce, FirstIsReported, Reported, Phases
      <4>2. usages' = IF usages = << >> /\ sent[i] \in kinds THEN << i >> ELSE usages
        BY <2>3, <3>3, Zenon DEF Relay, LineKinds
      <4> HIDE DEF kinds, i
      <4>3. Reported(Append(written, i), sent, usages', kinds)
        <5>1. CASE usages = << >> /\ sent[i] \in kinds
          BY <3>1, <3>2, <4>1, <4>2, <5>1, OneMoreLine, Zenon
        <5>2. CASE usages # << >> \/ sent[i] \notin kinds
          BY <3>1, <3>2, <4>1, <4>2, <5>2, OneMoreLine, Zenon
        <5> QED BY <5>1, <5>2, Zenon
      <4>4. Reported(written', sent', usages', kinds)
        BY <2>1, <3>2, <4>3, Zenon
      <4> QED BY <4>4, Zenon DEF FirstIsReported, Reported, kinds
    <3>5. FirstIsReported(firsts, {"content", "usage"})'
      <4> DEFINE kinds == {"content", "usage"}
      <4>1. Reported(written, sent, firsts, kinds)
        BY <1>4, <2>1, Zenon DEF UsageReportedOnce, FirstIsReported, Reported, Phases
      <4>2. firsts' = IF firsts = << >> /\ sent[i] \in kinds THEN << i >> ELSE firsts
        BY <2>3, <3>3, Zenon DEF Relay, LineKinds
      <4> HIDE DEF kinds, i
      <4>3. Reported(Append(written, i), sent, firsts', kinds)
        <5>1. CASE firsts = << >> /\ sent[i] \in kinds
          BY <3>1, <3>2, <4>1, <4>2, <5>1, OneMoreLine, Zenon
        <5>2. CASE firsts # << >> \/ sent[i] \notin kinds
          BY <3>1, <3>2, <4>1, <4>2, <5>2, OneMoreLine, Zenon
        <5> QED BY <5>1, <5>2, Zenon
      <4>4. Reported(written', sent', firsts', kinds)
        BY <2>1, <3>2, <4>3, Zenon
      <4> QED BY <4>4, Zenon DEF FirstIsReported, Reported, kinds
    <3> QED BY <2>0, <3>4, <3>5, Zenon DEF UsageReportedOnce
  <2> QED BY <1>4, <2>2, <2>3, Zenon DEF Receive
<1>5. ASSUME Typed, Prefix, UsageReportedOnce, SendLine PROVE UsageReportedOnce'
  <2>1. sent \in Seq(LineKinds) /\ Len(written) \in Nat
    BY <1>5 DEF Typed, TypeOK
  <2>2. PICK k \in LineKinds : sent' = Append(sent, k)
    BY <1>5, Zenon DEF SendLine
  <2>3. \A i \in 1 .. Len(sent) : sent'[i] = sent[i]
    BY <2>1, <2>2
  <2>4. \A i \in 1 .. Len(written) : sent'[written[i]] = sent[written[i]]
    BY <1>5, <2>1, <2>3 DEF Prefix
  <2>5. UNCHANGED <<written, usages, firsts, producer>> /\ (Success' <=> Success)
    BY <1>5, Zenon DEF SendLine, Success
  <2>6. \A i \in 1 .. Len(written) : \A j \in 1 .. i - 1 : j \in 1 .. Len(written)
    BY <2>1
  <2>7. ASSUME NEW reports, NEW kinds, Reported(written, sent, reports, kinds)
        PROVE  Reported(written, sent', reports, kinds)
    BY <2>4, <2>6, <2>7 DEF Reported
  <2>8. /\ producer.at = "none" /\ ~Success => usages = << >>
        /\ producer.at # "none" \/ Success => Reported(written, sent, usages, {"usage"})
        /\ producer.at # "none" => Reported(written, sent, firsts, {"content", "usage"})
    BY <1>5, Zenon DEF UsageReportedOnce, FirstIsReported, Reported
  <2>9. /\ producer'.at = "none" /\ ~Success' => usages' = << >>
        /\ producer'.at # "none" \/ Success' => Reported(written', sent', usages', {"usage"})
        /\ producer'.at # "none" => Reported(written', sent', firsts', {"content", "usage"})
    BY <2>5, <2>7, <2>8, Zenon
  <2> QED BY <2>9, Zenon DEF UsageReportedOnce, FirstIsReported, Reported
<1>6. Build \/ Do \/ ClientDone \/ IdleTimeout =>
          UNCHANGED <<written, sent, status, usages, firsts, producer>>
  BY DEF Build, Do, ClientDone, IdleTimeout, Quit, Fail
<1>7. Drain \/ EndBody \/ Disconnect \/ Fire \/ UNCHANGED vars =>
          UNCHANGED <<written, sent, status, usages, firsts, producer>>
  BY Zenon DEF Drain, EndBody, Disconnect, Fire, vars
<1>8. Read \/ Send => /\ UNCHANGED <<written, sent, status, usages, firsts>>
                       /\ producer.at # "none" /\ producer'.at # "none"
  BY DEF Read, Send, Idle
<1> QED BY <1>1, <1>2, <1>3, <1>4, <1>5, <1>6, <1>7, <1>8, Zenon DEF Next, Handler, Over

\* Every step keeps what the returned status says, and a stream that ended
\* with the backend's last line complete.
LEMMA ReturnStep ==
    Inv /\ [Next]_vars => StatusIsWritten' /\ EndOfStreamMeansComplete'
<1> DEFINE Good == StatusIsWritten /\ EndOfStreamMeansComplete
<1> USE DEF StatusIsWritten, EndOfStreamMeansComplete, backend, reader, answer
<1>1. CASE pc' # "returned"
  BY <1>1, Zenon
<1>2. ASSUME Good, pc = "returned", UNCHANGED <<pc, client, head, body, written, sent, result>>
      PROVE  Good'
  BY <1>2, Zenon
<1>3. ASSUME Phases, Build, pc' = "returned" PROVE Good'
  BY <1>3 DEF Build, Quit
<1>4. ASSUME Phases, Do, pc' = "returned" PROVE Good'
  BY <1>4 DEF Do, Quit, Fail
<1>5. ASSUME Typed, Pass PROVE Good'
  <2>1. sent \in Seq(LineKinds)
    BY <1>5 DEF Typed, TypeOK
  <2> QED BY <1>5, <2>1 DEF Pass, Fail
<1>6. ASSUME Flush, pc' = "returned" PROVE Good'
  BY <1>6 DEF Flush, Fail
<1>7. ASSUME Phases, ClientDone \/ IdleTimeout PROVE Good'
  BY <1>7 DEF Phases, ClientDone, IdleTimeout, Leave
<1>8. ASSUME Typed, Phases, Pipeline, Errors, Receive, pc' = "returned" PROVE Good'
  <2> DEFINE res == Head(chan)
  <2>1. /\ res = chan[1] /\ res \in ReadResults /\ Len(chan) \in Nat \ {0}
        /\ \/ res.line = Len(written) + 1
           \/ res.line = NoLine /\ res.err # "nil"
    BY <1>8, NextLine, Zenon DEF Receive
  <2>2. pc = "select" /\ head = status /\ UNCHANGED <<client, body, sent, status, nread>>
    BY <1>8, Zenon DEF Receive, Phases
  <2>3. CASE client = "gone"
    BY <2>2, <2>3, Zenon
  <2>4. CASE client # "gone"
    <3>1. res.err # "nil" /\ Leave("nil")
      BY <1>8, <2>2, <2>4, Zenon DEF Receive
    <3>2. 1 \in 1 .. Len(chan)
      BY <2>1
    <3>3. /\ nread = IF res.line = NoLine THEN Len(written) + 1 - 1 ELSE res.line
          /\ ErrorMeans(res.err)
      BY <1>8, <2>1, <2>2, <3>1, <3>2, Zenon DEF Pipeline, Errors
    <3>4. res.err \in {"eof", "error"}
      BY <2>1, <3>1, Zenon DEF ReadResults
    <3>5. written \in Seq(1 .. MaxLines)
      BY <1>8 DEF Typed, TypeOK
    <3>6. head' = status /\ Len(written') = nread
      <4>1. CASE res.line = NoLine
        BY <1>8, <2>2, <2>4, <3>3, <3>5, <4>1 DEF Receive
      <4>2. CASE res.line # NoLine
        <5>1. Relay(res.line)
          BY <1>8, <2>4, <4>2, Zenon DEF Receive
        <5> QED BY <2>1, <2>2, <3>3, <3>5, <4>2, <5>1 DEF Relay
      <4> QED BY <4>1, <4>2, Zenon
    <3> QED BY <2>2, <2>4, <3>1, <3>3, <3>4, <3>6, Zenon DEF ErrorMeans, Leave
  <2> QED BY <2>3, <2>4, Zenon
<1>9. Read \/ Send \/ Drain => UNCHANGED <<pc, client, head, body, written, sent, result>>
  BY Zenon DEF Read, Send, Drain
<1>10. SendLine \/ EndBody \/ Disconnect \/ Fire => pc' # "returned"
  BY Zenon DEF SendLine, EndBody, Disconnect, Fire
<1>11. UNCHANGED vars => UNCHANGED <<pc, client, head, body, written, sent, result>>
  BY Zenon DEF vars
<1> HIDE DEF StatusIsWritten, EndOfStreamMeansComplete
<1> QED
  BY <1>1, <1>2, <1>3, <1>4, <1>5, <1>6, <1>7, <1>8, <1>9, <1>10, <1>11, Zenon
  DEF Inv, Typed, Next, Handler, Over

\* Inv is inductive, so it holds in every reachable state.
THEOREM ForwardInvariance == Spec => []Inv
<1>1. Init => Inv
  <2> SUFFICES ASSUME Init PROVE Inv
    BY Zenon
  <2>1. TypeOK /\ result \in Results
    <3>1. /\ sent \in Seq(LineKinds) /\ Len(sent) <= MaxLines
          /\ chan \in Seq(ReadResults) /\ Len(chan) <= Cap
          /\ nread \in 0 .. MaxLines /\ head \in {0, 500, 502, 504} \cup Statuses
      BY ForwardingAssumption DEF Init
    <3>2. /\ written \in Seq(1 .. MaxLines) /\ usages \in Seq(1 .. MaxLines)
          /\ firsts \in Seq(1 .. MaxLines)
      BY DEF Init
    <3>3. producer \in [at : {"none", "reading", "sending", "done"}, line : 0 .. MaxLines,
                        err : {"nil", "eof", "error"}]
      BY ForwardingAssumption DEF Init, Idle, NoLine
    <3>4. result \in Results /\ result.status \in {0, 499, 500, 502, 504} \cup Statuses
      BY Zenon DEF Init, Results
    <3>5. /\ pc = "build" /\ streamed \in BOOLEAN /\ client = "here" /\ body = "open"
          /\ stopRead = FALSE /\ drainer = "none" /\ timer = "armed" /\ status \in Statuses
      BY Zenon DEF Init
    <3>6. TypedLines
      BY <3>1, <3>2 DEF TypedLines
    <3>7. TypedFlags
      BY <3>5, Zenon DEF TypedFlags
    <3>8. TypedRecords
      BY <3>3, <3>4 DEF TypedRecords
    <3>9. TypedState
      BY <3>1, <3>5 DEF TypedState
    <3> QED BY <3>6, <3>7, <3>8, <3>9, TypedParts, Zenon DEF Typed
  <2>2. Phases /\ Pipeline /\ Errors /\ Prefix
    BY DEF Init, Phases, Pipeline, Errors, Prefix
  <2>3. UsageReportedOnce /\ StatusIsWritten /\ EndOfStreamMeansComplete
    BY DEF Init, UsageReportedOnce, FirstIsReported, StatusIsWritten, EndOfStreamMeansComplete, Idle
  <2> QED BY <2>1, <2>2, <2>3, Zenon DEF Inv
<1>2. Inv /\ [Next]_vars => Inv'
  BY ForwardTypeStep, PhasesStep, PipelineStep, ErrorsStep, PrefixStep, ReportsStep, ReturnStep, Zenon
  DEF Inv, Typed
<1> QED BY <1>1, <1>2, PTL DEF Spec

\* For any number of lines and any channel capacity the client gets a prefix
\* of the backend's lines in order, the usage among them is reported once and
\* the time to first token is taken once, and the loop of streamResponse never
\* finds the channel closed before it has seen the error that closed it.
THEOREM RelayIsSafe == Spec => []RelaySafety
<1>1. Inv => RelaySafety
  <2> SUFFICES ASSUME Inv PROVE RelaySafety
    BY Zenon
  <2>1. RelayedInOrder
    <3>1. written \in Seq(1 .. MaxLines) /\ \A i \in 1 .. Len(written) : written[i] = i
      BY DEF Inv, TypeOK, Prefix
    <3> QED BY <3>1 DEF RelayedInOrder
  <2>2. ClosedBehindError
    BY Zenon DEF Inv, Pipeline, ClosedBehindError
  <2> QED BY <2>1, <2>2, Zenon DEF Inv, RelaySafety
<1> QED BY <1>1, ForwardInvariance, PTL

\* A stream that Forward ended because the backend ended it reached a client
\* that stayed completely, however the lines were split between the channel,
\* the producer and the handler.
THEOREM EndedStreamsAreComplete == Spec => []EndOfStreamMeansComplete
BY ForwardInvariance, PTL DEF Inv

\* The status that Forward returns to the handlers, which log it and record
\* it, is the one that a client that stayed was sent.
THEOREM ReturnedStatusIsWritten == Spec => []StatusIsWritten
BY ForwardInvariance, PTL DEF Inv

=============================================================================
