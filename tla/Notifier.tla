------------------------------ MODULE Notifier ------------------------------
(***************************************************************************)
(* The mail notifier: probes hand it status transitions, which it queues   *)
(* without waiting and a single goroutine mails, at most one per backend   *)
(* and kind within the cooldown of the last mail that Send reported.       *)
(***************************************************************************)
EXTENDS Integers, Sequences, FiniteSets

CONSTANTS
    Backends,
    NotifyOn,    \* the configured kinds; empty means all
    Cap,         \* of the channel: 64 in the code
    Cooldown,    \* in ticks of the clock
    MaxTime,     \* bound on the clock
    MaxDoubtful, \* bound on the mails that the server took although Send failed
    None

Statuses == {"healthy", "degraded", "unhealthy", "disabled"}
Kinds  == {"backend_unhealthy", "backend_degraded", "backend_recovered"}
Events == [backend : Backends, kind : Kinds]

ASSUME NotifierAssumption ==
    Cap \in Nat \ {0} /\ Cooldown \in Nat \ {0} /\ None \notin Events

VARIABLES
    status,     \* [Backends -> Statuses]
    ch,         \* the channel
    sending,    \* the event that is being mailed, or None
    lastSent,   \* set of [key, at]: the latest mail of each key
    mails,      \* every mail the server took: a set of [key, at, no, sure],
                \* sure if Send reported it as sent
    now,
    stop,       \* Stop closed the channel n.stop
    exited      \* run returned

vars == <<status, ch, sending, lastSent, mails, now, stop, exited>>

Init ==
    /\ status = [b \in Backends |-> "healthy"]
    /\ ch = << >> /\ sending = None
    /\ lastSent = {} /\ mails = {}
    /\ now = 0
    /\ stop = FALSE /\ exited = FALSE

\* Event.Kind; "none" is the empty string of the code.
Kind(prev, next) ==
    CASE next = "unhealthy"                     -> "backend_unhealthy"
      [] next = "degraded"                      -> "backend_degraded"
      [] next = "healthy" /\ prev # "healthy"   -> "backend_recovered"
      [] OTHER                                  -> "none"

\* matchesNotifyOn
Matches(kind) == kind # "none" /\ (NotifyOn = {} \/ kind \in NotifyOn)

\* Notify: queue the event, or drop it if the channel is full.
Notify(e) == ch' = IF Matches(e.kind) /\ Len(ch) < Cap THEN Append(ch, e) ELSE ch

\* A probe or a handler changes the status and tells the observers.
Transition(b) ==
    /\ \E next \in Statuses \ {status[b]} :
          /\ status' = [status EXCEPT ![b] = next]
          /\ Notify([backend |-> b, kind |-> Kind(status[b], next)])
    /\ UNCHANGED <<sending, lastSent, mails, now, stop, exited>>

\* The cooldown of the key has not passed since its last mail.
Cooling(e) == \E m \in lastSent : m.key = e /\ now - m.at < Cooldown

\* run receives an event and dispatch drops it or begins to mail it.
Receive ==
    /\ ~exited /\ sending = None /\ ch # << >>
    /\ ch' = Tail(ch)
    /\ sending' = IF Cooling(Head(ch)) THEN None ELSE Head(ch)
    /\ UNCHANGED <<status, lastSent, mails, now, stop, exited>>

\* The latest mail of the event's key is now.
Remember(e) == lastSent' = {m \in lastSent : m.key # e} \cup {[key |-> e, at |-> now]}

\* The mails with the one the server took now, numbered within its key.
Mailed(e, sure) ==
    mails \cup {[key |-> e, at |-> now, no |-> Cardinality({m \in mails : m.key = e}), sure |-> sure]}

Outcomes == {"sent", "failed", "doubtful"}

\* Mutant: a failed mail starts the cooldown too.
SentAny(outcome) ==
    /\ sending # None
    /\ mails' = IF outcome = "sent" THEN Mailed(sending, TRUE) ELSE mails
    /\ Remember(sending)
    /\ sending' = None
    /\ UNCHANGED <<status, ch, now, stop, exited>>

\* Mutant: the time of the mail is not recorded.
SentForgotten(outcome) ==
    /\ sending # None
    /\ mails' = IF outcome = "sent" THEN Mailed(sending, TRUE) ELSE mails
    /\ sending' = None
    /\ UNCHANGED <<status, ch, lastSent, now, stop, exited>>

\* Send returns: the mail was sent; or it failed; or the server took it and
\* Send fails all the same, because Close or Quit does.  Only success is
\* remembered.
Sent(outcome) ==
    /\ sending # None
    /\ \/ /\ outcome = "sent"
          /\ mails' = Mailed(sending, TRUE)
          /\ Remember(sending)
       \/ /\ outcome = "doubtful" /\ Cardinality({m \in mails : ~m.sure}) < MaxDoubtful
          /\ mails' = Mailed(sending, FALSE)
          /\ UNCHANGED lastSent
       \/ outcome = "failed" /\ UNCHANGED <<mails, lastSent>>
    /\ sending' = None
    /\ UNCHANGED <<status, ch, now, stop, exited>>

\* Stop, when the process shuts down.  Probes may still notify.
Stop ==
    /\ ~stop /\ stop' = TRUE
    /\ UNCHANGED <<status, ch, sending, lastSent, mails, now, exited>>

\* Mutant: the channel is emptied first.
ExitDrained ==
    /\ stop /\ ~exited /\ sending = None /\ ch = << >>
    /\ exited' = TRUE
    /\ UNCHANGED <<status, ch, sending, lastSent, mails, now, stop>>

\* run sees that it is to stop.
Exit ==
    /\ stop /\ ~exited /\ sending = None
    /\ exited' = TRUE
    /\ UNCHANGED <<status, ch, sending, lastSent, mails, now, stop>>

Tick ==
    /\ now < MaxTime /\ now' = now + 1
    /\ UNCHANGED <<status, ch, sending, lastSent, mails, stop, exited>>

Next ==
    \/ \E b \in Backends : Transition(b)
    \/ Receive
    \/ \E outcome \in Outcomes : Sent(outcome)
    \/ Stop \/ Exit \/ Tick

Spec == Init /\ [][Next]_vars

\* The goroutine runs, and select chooses at random among the cases that are
\* ready, so that a stop is seen.  A conversation with the mail server has no
\* deadline: nothing makes Sent happen.
Fairness == WF_vars(Receive) /\ SF_vars(Exit)

FairSpec == Spec /\ Fairness

-----------------------------------------------------------------------------
(* Properties *)

\* The channel never holds more than its capacity, and only events that were
\* asked for are mailed.
TypeOK ==
    /\ status \in [Backends -> Statuses]
    /\ ch \in Seq(Events) /\ Len(ch) <= Cap
    /\ sending \in Events \cup {None}
    /\ \A m \in mails : m.key \in Events /\ Matches(m.key.kind)

\* After a mail that Send reported as sent none about the same backend and
\* kind goes out for a cooldown, however the backend flaps.  One that the
\* server took although Send failed starts no cooldown and may be repeated.
CooldownHolds ==
    \A m, o \in mails : m.sure /\ m.key = o.key /\ m.no < o.no => o.at - m.at >= Cooldown

\* An event that was queued is discarded only if a mail of its kind was
\* reported as sent within the cooldown: a failed mail silences nothing.
SilencedOnlyByMail ==
    [][Len(ch') < Len(ch) /\ sending' = None =>
          \E m \in mails : m.sure /\ m.key = Head(ch) /\ now - m.at < Cooldown]_vars

\* If the mail server never stalls a conversation for ever, Stop returns: the
\* goroutine exits although events keep coming (FairSpec).
StopReturns == []<>(sending = None) => (stop ~> exited)

\* A mail that was reported as sent is followed by none of its kind for a
\* cooldown, however often the backend flaps and whatever is in the bounded
\* channel.
MailIsLimited == TypeOK /\ CooldownHolds

=============================================================================
