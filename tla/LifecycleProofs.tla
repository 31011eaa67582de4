-------------------------- MODULE LifecycleProofs --------------------------
(***************************************************************************)
(* Proofs about Notifier: however backends flap and whatever the mail      *)
(* server does, a mail that was sent is followed by none of its kind for   *)
(* a cooldown, and only such a mail silences an event, for any backends,   *)
(* capacity, cooldown and choice of kinds.                                 *)
(* About Process: however handlers, exports and the shutdown interleave,   *)
(* spans reach the collector once and in order, and only late handlers     *)
(* leave one behind, for any requests and any size of the queue.           *)
(***************************************************************************)
EXTENDS MCLifecycle, FiniteSetTheorems, SequenceTheorems, TLAPS

-----------------------------------------------------------------------------
(* The inductive invariant *)

Mail == [key : Events, at : Nat, no : Nat, sure : BOOLEAN]
Memo == [key : Events, at : Nat]

Of(e) == {m \in mails : m.key = e}

Types ==
    /\ TypeOK
    /\ now \in Nat
    /\ mails \subseteq Mail /\ IsFiniteSet(mails)
    /\ lastSent \subseteq Memo

\* Only what matches notify_on is queued.
Asked ==
    /\ \A i \in 1 .. Len(ch) : Matches(ch[i].kind)
    /\ sending # None => Matches(sending.kind)

\* The mails of a key are numbered as they go out.
Numbered == \A m \in mails : m.no < Cardinality(Of(m.key)) /\ m.at <= now

\* lastSent has the latest mail of each key that Send reported ...
Remembered == \A m \in mails : m.sure => \E l \in lastSent : l.key = m.key /\ m.at <= l.at

\* ... and nothing that it did not.
Real == \A l \in lastSent : \E m \in mails : m.sure /\ m.key = l.key /\ m.at = l.at

\* While a mail is under way its key has rested for the cooldown, since run is
\* the only one to mail.
Rested == sending # None => \A l \in lastSent : l.key = sending => now - l.at >= Cooldown

MailInv == Types /\ Asked /\ Numbered /\ Remembered /\ Real /\ Rested /\ CooldownHolds

-----------------------------------------------------------------------------
(* Facts *)

\* Times and numbers.
LEMMA Arithmetic ==
    /\ \A n \in Nat : n <= n /\ n + 1 \in Nat /\ n <= n + 1 /\ n < n + 1
    /\ \A a, b, c \in Nat : a <= b /\ b <= c => a <= c
    /\ \A a, b, c \in Nat : a < b /\ b <= c => a < c
    /\ \A a, b \in Nat : a < b => ~(b < a)
    /\ \A n \in Nat : ~(n < n)
  OBVIOUS

\* A key that has rested has rested since its earlier mails, and goes on resting.
LEMMA Resting ==
    ASSUME NEW t \in Nat, NEW a \in Nat, NEW b \in Nat, b <= a, t - a >= Cooldown
    PROVE  t - b >= Cooldown /\ (t + 1) - a >= Cooldown
  BY NotifierAssumption

\* The cooldown has passed or has not.
LEMMA PassedOrNot ==
    ASSUME NEW t \in Nat, NEW a \in Nat, ~(t - a < Cooldown)
    PROVE  t - a >= Cooldown
  BY NotifierAssumption

\* The mails of a key can be counted.
LEMMA OfIsFinite ==
    ASSUME IsFiniteSet(mails), NEW e
    PROVE  IsFiniteSet(Of(e)) /\ Cardinality(Of(e)) \in Nat
<1>1. Of(e) \subseteq mails
  BY Zenon DEF Of
<1> QED BY <1>1, FS_Subset, FS_CardinalityType, Zenon

\* A kind that matches is a kind.
LEMMA KindsMatch ==
    ASSUME NEW prev \in Statuses, NEW next \in Statuses, Matches(Kind(prev, next))
    PROVE  Kind(prev, next) \in Kinds
  BY DEF Matches, Kind, Kinds, Statuses

-----------------------------------------------------------------------------
(* Steps *)

\* No mail goes out: what is said of the mails stays true as time passes.
LEMMA NoMail ==
    ASSUME MailInv, mails' = mails, lastSent' = lastSent, now' \in Nat, now <= now'
    PROVE  /\ Numbered' /\ Remembered' /\ Real' /\ CooldownHolds'
           /\ mails' \subseteq Mail /\ IsFiniteSet(mails') /\ lastSent' \subseteq Memo
           /\ \A m \in mails' : m.key \in Events /\ Matches(m.key.kind)
<1>1. /\ mails \subseteq Mail /\ IsFiniteSet(mails) /\ lastSent \subseteq Memo /\ now \in Nat
      /\ \A m \in mails : m.key \in Events /\ Matches(m.key.kind)
  BY Zenon DEF MailInv, Types, TypeOK
<1>2. \A e : Of(e)' = Of(e)
  BY Zenon DEF Of
<1>3. Numbered'
  <2> SUFFICES ASSUME NEW m \in mails
               PROVE  m.no < Cardinality(Of(m.key))' /\ m.at <= now'
    BY Zenon DEF Numbered
  <2>1. m.no < Cardinality(Of(m.key)) /\ m.at <= now /\ m.at \in Nat
    BY <1>1, Zenon DEF MailInv, Numbered, Mail
  <2>2. m.at <= now'
    BY <1>1, <2>1, Arithmetic, Zenon
  <2> QED BY <1>2, <2>1, <2>2, Zenon
<1>4. Remembered' /\ Real' /\ CooldownHolds'
  BY Zenon DEF MailInv, Remembered, Real, CooldownHolds
<1> QED BY <1>1, <1>3, <1>4, Zenon

\* A transition queues an event that was asked for, if there is room.
LEMMA TransitionStep == ASSUME MailInv, NEW b \in Backends, Transition(b) PROVE MailInv'
<1>1. /\ UNCHANGED <<sending, lastSent, mails, now>> /\ TypeOK /\ Asked /\ now \in Nat
  BY Zenon DEF MailInv, Types, Transition
<1>2. PICK next \in Statuses \ {status[b]} :
         /\ status' = [status EXCEPT ![b] = next]
         /\ Notify([backend |-> b, kind |-> Kind(status[b], next)])
  BY Zenon DEF Transition
<1> DEFINE e == [backend |-> b, kind |-> Kind(status[b], next)]
<1>3. status' \in [Backends -> Statuses] /\ status[b] \in Statuses
  BY <1>1, <1>2, Zenon DEF TypeOK
<1>4. Matches(e.kind) => e \in Events
  BY <1>3, KindsMatch, Zenon DEF Events
<1>5. ch' = (IF Matches(e.kind) /\ Len(ch) < Cap THEN Append(ch, e) ELSE ch)
  BY <1>2, Zenon DEF Notify
<1> HIDE DEF e
<1>6. ch \in Seq(Events) /\ Len(ch) <= Cap /\ Cap \in Nat /\ \A i \in 1 .. Len(ch) : Matches(ch[i].kind)
  BY <1>1, NotifierAssumption, Zenon DEF TypeOK, Asked
<1>7. ch' \in Seq(Events) /\ Len(ch') <= Cap
  BY <1>4, <1>5, <1>6
<1>8. \A i \in 1 .. Len(ch') : Matches(ch'[i].kind)
  <2>1. CASE Matches(e.kind) /\ Len(ch) < Cap
    <3>1. ch' = Append(ch, e) /\ e \in Events
      BY <1>4, <1>5, <2>1, Zenon
    <3>2. ASSUME NEW i \in 1 .. Len(ch') PROVE Matches(ch'[i].kind)
      <4>1. ch'[i] = e \/ (i \in 1 .. Len(ch) /\ ch'[i] = ch[i])
        BY <1>6, <3>1, <3>2
      <4> QED BY <1>6, <2>1, <4>1, Zenon
    <3> QED BY <3>2, Zenon
  <2>2. CASE ~(Matches(e.kind) /\ Len(ch) < Cap)
    <3>1. ch' = ch
      BY <1>5, <2>2, Zenon
    <3> QED BY <1>6, <3>1, Zenon
  <2> QED BY <2>1, <2>2, Zenon
<1>9. Numbered' /\ Remembered' /\ Real' /\ CooldownHolds' /\ Types'
  <2>1. now' \in Nat /\ now <= now'
    BY <1>1, Arithmetic, Zenon
  <2>2. /\ Numbered' /\ Remembered' /\ Real' /\ CooldownHolds'
        /\ mails' \subseteq Mail /\ IsFiniteSet(mails') /\ lastSent' \subseteq Memo
        /\ \A m \in mails' : m.key \in Events /\ Matches(m.key.kind)
    BY <1>1, <2>1, NoMail, Zenon
  <2>3. TypeOK'
    BY <1>1, <1>3, <1>7, <2>2, Zenon DEF TypeOK
  <2> QED BY <2>1, <2>2, <2>3, Zenon DEF Types
<1>10. Asked' /\ Rested'
  BY <1>1, <1>8, Zenon DEF MailInv, Asked, Rested
<1> QED BY <1>9, <1>10, Zenon DEF MailInv

\* run takes an event whose key has rested, or drops it.
LEMMA ReceiveStep == ASSUME MailInv, Receive PROVE MailInv'
<1>1. /\ ch # << >> /\ ch' = Tail(ch) /\ sending' = (IF Cooling(Head(ch)) THEN None ELSE Head(ch))
      /\ UNCHANGED <<status, lastSent, mails, now>> /\ TypeOK /\ Asked /\ now \in Nat
  BY Zenon DEF MailInv, Types, Receive
<1>2. ch \in Seq(Events) /\ Len(ch) <= Cap /\ Cap \in Nat /\ \A i \in 1 .. Len(ch) : Matches(ch[i].kind)
  BY <1>1, NotifierAssumption, Zenon DEF TypeOK, Asked
<1>3. /\ Head(ch) \in Events /\ Head(ch) = ch[1] /\ 1 \in 1 .. Len(ch)
      /\ ch' \in Seq(Events) /\ Len(ch') <= Cap
      /\ \A i \in 1 .. Len(ch') : ch'[i] = ch[i + 1] /\ i + 1 \in 1 .. Len(ch)
  BY <1>1, <1>2
<1>4. now' \in Nat /\ now <= now'
  BY <1>1, Arithmetic, Zenon
<1>5. /\ Numbered' /\ Remembered' /\ Real' /\ CooldownHolds'
      /\ mails' \subseteq Mail /\ IsFiniteSet(mails') /\ lastSent' \subseteq Memo
      /\ \A m \in mails' : m.key \in Events /\ Matches(m.key.kind)
  BY <1>1, <1>4, NoMail, Zenon
<1>6. TypeOK'
  BY <1>1, <1>3, <1>5, Zenon DEF TypeOK
<1>7. Asked'
  BY <1>1, <1>2, <1>3, Zenon DEF Asked
<1>8. Rested'
  <2> SUFFICES ASSUME sending' # None, NEW l \in lastSent, l.key = sending'
               PROVE  now - l.at >= Cooldown
    BY <1>1, Zenon DEF Rested
  <2>1. l.key = Head(ch) /\ ~(now - l.at < Cooldown)
    BY <1>1, Zenon DEF Cooling
  <2>2. l.at \in Nat
    BY Zenon DEF MailInv, Types, Memo
  <2> QED BY <1>1, <2>1, <2>2, PassedOrNot, Zenon
<1> QED BY <1>4, <1>5, <1>6, <1>7, <1>8, Zenon DEF MailInv, Types

\* The server took a mail: it is numbered after those of its key, of which the
\* last that Send reported is a cooldown ago.
LEMMA MailedStep == ASSUME MailInv, sending # None, now' = now, NEW sure \in BOOLEAN,
                           mails' = Mailed(sending, sure),
                           IF sure THEN Remember(sending) ELSE lastSent' = lastSent
                    PROVE  /\ Numbered' /\ Remembered' /\ Real' /\ CooldownHolds'
                           /\ mails' \subseteq Mail /\ IsFiniteSet(mails') /\ lastSent' \subseteq Memo
                           /\ \A m \in mails' : m.key \in Events /\ Matches(m.key.kind)
<1> DEFINE e == sending
           c == Cardinality(Of(e))
           x == [key |-> e, at |-> now, no |-> c, sure |-> sure]
           y == [key |-> e, at |-> now]
<1>1. /\ mails \subseteq Mail /\ IsFiniteSet(mails) /\ lastSent \subseteq Memo /\ now \in Nat
      /\ \A m \in mails : m.key \in Events /\ Matches(m.key.kind)
      /\ e \in Events /\ Matches(e.kind)
  BY Zenon DEF MailInv, Types, TypeOK, Asked
<1>2. c \in Nat /\ IsFiniteSet(Of(e))
  BY <1>1, OfIsFinite, Zenon
<1>3. /\ mails' = mails \cup {x}
      /\ IF sure THEN lastSent' = {m \in lastSent : m.key # e} \cup {y} ELSE lastSent' = lastSent
  BY Zenon DEF Mailed, Remember, Of
<1>4. /\ x \in Mail /\ x.key = e /\ x.at = now /\ x.no = c /\ x.sure = sure
      /\ y \in Memo /\ y.key = e /\ y.at = now
  BY <1>1, <1>2, Zenon DEF Mail, Memo
<1> HIDE DEF c, x, y
<1>5. \A m \in mails : m.key = e => m.no < c /\ m.no \in Nat
  BY <1>1, Zenon DEF MailInv, Numbered, Mail, c
<1>6. x \notin Of(e)
  BY <1>2, <1>4, <1>5, Arithmetic, Zenon DEF Of
<1>7. Of(e) \cup {x} = {m \in mails' : m.key = e}
  BY <1>3, <1>4, Zenon DEF Of
<1>8. Cardinality(Of(e) \cup {x}) = c + 1
  BY <1>2, <1>6, FS_AddElement, Zenon DEF c
<1>9. \A m \in mails : m.at \in Nat /\ m.at <= now /\ m.no < Cardinality(Of(m.key))
  BY <1>1, Zenon DEF MailInv, Numbered, Mail
<1>10. \A m \in mails : m.sure /\ m.key = e => now - m.at >= Cooldown
  <2> SUFFICES ASSUME NEW m \in mails, m.sure, m.key = e PROVE now - m.at >= Cooldown
    BY Zenon
  <2>1. PICK l \in lastSent : l.key = m.key /\ m.at <= l.at
    BY Zenon DEF MailInv, Remembered
  <2>2. l.at \in Nat /\ now - l.at >= Cooldown
    BY <1>1, <2>1, Zenon DEF MailInv, Rested, Memo
  <2> QED BY <1>1, <1>9, <2>1, <2>2, Resting, Zenon
<1>11. Numbered'
  <2> SUFFICES ASSUME NEW m \in mails'
               PROVE  m.no < Cardinality({o \in mails' : o.key = m.key}) /\ m.at <= now
    BY Zenon DEF Numbered, Of
  <2>1. CASE m = x
    <3>1. c < c + 1 /\ now <= now
      BY <1>1, <1>2, Arithmetic, Zenon
    <3>2. m.no = c /\ m.key = e /\ m.at = now
      BY <1>4, <2>1, Zenon
    <3> QED BY <1>7, <1>8, <3>1, <3>2, Zenon
  <2>2. CASE m \in mails /\ m.key = e
    <3>1. m.no < c + 1
      BY <1>2, <1>5, <2>2, Arithmetic, Zenon
    <3> QED BY <1>7, <1>8, <1>9, <2>2, <3>1, Zenon
  <2>3. CASE m \in mails /\ m.key # e
    <3>1. {o \in mails' : o.key = m.key} = Of(m.key)
      BY <1>3, <1>4, <2>3, Zenon DEF Of
    <3> QED BY <1>9, <2>3, <3>1, Zenon
  <2> QED BY <1>3, <2>1, <2>2, <2>3, Zenon
<1>12. Remembered'
  <2> SUFFICES ASSUME NEW m \in mails', m.sure
               PROVE  \E l \in lastSent' : l.key = m.key /\ m.at <= l.at
    BY Zenon DEF Remembered
  <2>1. CASE sure /\ m.key = e
    <3>1. y \in lastSent'
      BY <1>3, <2>1, Zenon
    <3>2. m.at <= now
      BY <1>1, <1>3, <1>4, <1>9, Arithmetic, Zenon
    <3> QED BY <1>4, <2>1, <3>1, <3>2, Zenon
  <2>2. CASE ~(sure /\ m.key = e)
    <3>1. m \in mails
      BY <1>3, <1>4, <2>2, Zenon
    <3>2. PICK l \in lastSent : l.key = m.key /\ m.at <= l.at
      BY <3>1, Zenon DEF MailInv, Remembered
    <3>3. l \in lastSent'
      BY <1>3, <2>2, <3>2, Zenon
    <3> QED BY <3>2, <3>3, Zenon
  <2> QED BY <2>1, <2>2, Zenon
<1>13. Real'
  <2>1. CASE sure
    <3>1. x \in mails' /\ x.sure /\ x.key = y.key /\ x.at = y.at
      BY <1>3, <1>4, <2>1, Zenon
    <3> SUFFICES ASSUME NEW l \in lastSent'
                 PROVE  \E m \in mails' : m.sure /\ m.key = l.key /\ m.at = l.at
      BY Zenon DEF Real
    <3>2. CASE l = y
      BY <3>1, <3>2, Zenon
    <3>3. CASE l \in lastSent
      BY <1>3, <3>3, Zenon DEF MailInv, Real
    <3> QED BY <1>3, <2>1, <3>2, <3>3, Zenon
  <2>2. CASE ~sure
    BY <1>3, <2>2, Zenon DEF MailInv, Real
  <2> QED BY <2>1, <2>2, Zenon
<1>14. CooldownHolds'
  <2> SUFFICES ASSUME NEW m \in mails', NEW o \in mails', m.sure, m.key = o.key, m.no < o.no
               PROVE  o.at - m.at >= Cooldown
    BY Zenon DEF CooldownHolds
  <2>1. CASE m \in mails /\ o \in mails
    BY <2>1, Zenon DEF MailInv, CooldownHolds
  <2>2. CASE m \in mails /\ o = x
    BY <1>4, <1>10, <2>2, Zenon
  <2>3. CASE m = x /\ o = x
    BY <1>2, <1>4, <2>3, Arithmetic, Zenon
  <2>4. CASE m = x /\ o \in mails
    BY <1>2, <1>4, <1>5, <2>4, Arithmetic, Zenon
  <2> QED BY <1>3, <2>1, <2>2, <2>3, <2>4, Zenon
<1>15. /\ mails' \subseteq Mail /\ IsFiniteSet(mails') /\ lastSent' \subseteq Memo
       /\ \A m \in mails' : m.key \in Events /\ Matches(m.key.kind)
  <2>1. lastSent' \subseteq Memo
    BY <1>1, <1>3, <1>4, Zenon
  <2>2. IsFiniteSet(mails')
    <3>1. IsFiniteSet(mails \cup {x})
      BY <1>1, FS_AddElement, Zenon
    <3> QED BY <1>3, <3>1, Zenon
  <2> QED BY <1>1, <1>3, <1>4, <2>1, <2>2, Zenon
<1> QED BY <1>11, <1>12, <1>13, <1>14, <1>15, Zenon

\* The mail server has answered.
LEMMA SentStep == ASSUME MailInv, NEW outcome \in Outcomes, Sent(outcome) PROVE MailInv'
<1>1. /\ sending # None /\ sending' = None /\ UNCHANGED <<status, ch, now>>
      /\ TypeOK /\ Asked /\ now \in Nat
  BY Zenon DEF MailInv, Types, Sent
<1>2. now' \in Nat /\ now <= now'
  BY <1>1, Arithmetic, Zenon
<1>3. /\ Numbered' /\ Remembered' /\ Real' /\ CooldownHolds'
      /\ mails' \subseteq Mail /\ IsFiniteSet(mails') /\ lastSent' \subseteq Memo
      /\ \A m \in mails' : m.key \in Events /\ Matches(m.key.kind)
  <2>1. CASE mails' = Mailed(sending, TRUE) /\ Remember(sending)
    BY <1>1, <2>1, MailedStep, Zenon
  <2>2. CASE mails' = Mailed(sending, FALSE) /\ lastSent' = lastSent
    BY <1>1, <2>2, MailedStep, Zenon
  <2>3. CASE UNCHANGED <<mails, lastSent>>
    BY <1>2, <2>3, NoMail, Zenon
  <2> QED BY <2>1, <2>2, <2>3, Zenon DEF Sent
<1>4. TypeOK'
  BY <1>1, <1>3, Zenon DEF TypeOK
<1>5. Asked' /\ Rested'
  BY <1>1, Zenon DEF Asked, Rested
<1> QED BY <1>2, <1>3, <1>4, <1>5, Zenon DEF MailInv, Types

\* Time passes: keys go on resting.
LEMMA TickStep == ASSUME MailInv, Tick PROVE MailInv'
<1>1. /\ now' = now + 1 /\ UNCHANGED <<status, ch, sending, lastSent, mails>>
      /\ TypeOK /\ Asked /\ now \in Nat /\ lastSent \subseteq Memo
  BY Zenon DEF MailInv, Types, Tick
<1>2. now' \in Nat /\ now <= now'
  BY <1>1, Arithmetic, Zenon
<1>3. /\ Numbered' /\ Remembered' /\ Real' /\ CooldownHolds'
      /\ mails' \subseteq Mail /\ IsFiniteSet(mails') /\ lastSent' \subseteq Memo
      /\ \A m \in mails' : m.key \in Events /\ Matches(m.key.kind)
  BY <1>1, <1>2, NoMail, Zenon
<1>4. TypeOK' /\ Asked'
  BY <1>1, <1>3, Zenon DEF TypeOK, Asked
<1>5. Rested'
  <2> SUFFICES ASSUME sending # None, NEW l \in lastSent, l.key = sending
               PROVE  (now + 1) - l.at >= Cooldown
    BY <1>1, Zenon DEF Rested
  <2>1. l.at \in Nat /\ now - l.at >= Cooldown /\ l.at <= l.at
    BY <1>1, Arithmetic, Zenon DEF MailInv, Rested, Memo
  <2> QED BY <1>1, <2>1, Resting, Zenon
<1> QED BY <1>2, <1>3, <1>4, <1>5, Zenon DEF MailInv, Types

\* Nothing but the end of run changes.
LEMMA QuietStep ==
    ASSUME MailInv, UNCHANGED <<status, ch, sending, lastSent, mails, now>>
    PROVE  MailInv'
<1>1. now' \in Nat /\ now <= now' /\ TypeOK
  BY Arithmetic, Zenon DEF MailInv, Types
<1>2. /\ Numbered' /\ Remembered' /\ Real' /\ CooldownHolds'
      /\ mails' \subseteq Mail /\ IsFiniteSet(mails') /\ lastSent' \subseteq Memo
      /\ \A m \in mails' : m.key \in Events /\ Matches(m.key.kind)
  BY <1>1, NoMail, Zenon
<1>3. TypeOK'
  BY <1>1, <1>2, Zenon DEF TypeOK
<1>4. Asked' /\ Rested'
  BY Zenon DEF MailInv, Asked, Rested
<1> QED BY <1>1, <1>2, <1>3, <1>4, Zenon DEF MailInv, Types

-----------------------------------------------------------------------------
(* Theorems *)

\* The inductive invariant holds of every execution: events in the channel
\* match notify_on, lastSent has exactly the mails that Send reported, and a key
\* whose mail is under way has rested.
THEOREM NotifierInvariance == Spec => []MailInv
<1>1. Init => MailInv
  <2> SUFFICES ASSUME Init PROVE MailInv
    BY Zenon
  <2>1. /\ status = [b \in Backends |-> "healthy"] /\ ch = << >> /\ sending = None
        /\ lastSent = {} /\ mails = {} /\ now = 0
    BY Zenon DEF Init
  <2>2. ch \in Seq(Events) /\ Len(ch) <= Cap /\ now \in Nat /\ \A i \in 1 .. Len(ch) : FALSE
    BY <2>1, NotifierAssumption
  <2>3. Types
    BY <2>1, <2>2, FS_EmptySet, Zenon DEF Types, TypeOK, Statuses
  <2> QED BY <2>1, <2>2, <2>3, Zenon
          DEF MailInv, Asked, Numbered, Remembered, Real, Rested, CooldownHolds
<1>2. MailInv /\ [Next]_vars => MailInv'
  <2> SUFFICES ASSUME MailInv, [Next]_vars PROVE MailInv'
    BY Zenon
  <2>1. CASE Stop \/ Exit \/ UNCHANGED vars
    BY <2>1, QuietStep, Zenon DEF Stop, Exit, vars
  <2> QED BY <2>1, TransitionStep, ReceiveStep, SentStep, TickStep, Zenon DEF Next
<1> QED BY <1>1, <1>2, PTL DEF Spec

\* The channel keeps its bound, only kinds that notify_on names are mailed, and
\* a mail that was sent is followed by none of its backend and kind for a
\* cooldown, although it is read when dispatch begins and written when the mail server has answered.
THEOREM MailsAreLimited == Spec => []MailIsLimited
<1>1. MailInv => MailIsLimited
  BY Zenon DEF MailInv, Types, MailIsLimited
<1> QED BY <1>1, NotifierInvariance, PTL

\* dispatch discards an event only if a mail of its backend and kind was sent
\* within the cooldown: a mail that failed silences nothing.
THEOREM SilencedByMail == Spec => SilencedOnlyByMail
<1>1. MailInv /\ [Next]_vars =>
        [Len(ch') < Len(ch) /\ sending' = None =>
           \E m \in mails : m.sure /\ m.key = Head(ch) /\ now - m.at < Cooldown]_vars
  <2> SUFFICES ASSUME MailInv, Next, Len(ch') < Len(ch), sending' = None
               PROVE  \E m \in mails : m.sure /\ m.key = Head(ch) /\ now - m.at < Cooldown
    BY Zenon
  <2>1. ch \in Seq(Events) /\ Len(ch) \in Nat /\ ~(Len(ch) < Len(ch))
    BY DEF MailInv, Types, TypeOK
  <2>2. ch' # ch
    BY <2>1, Zenon
  <2>3. ASSUME NEW b \in Backends, Transition(b) PROVE FALSE
    <3>1. \E e : ch' = Append(ch, e)
      BY <2>2, <2>3, Zenon DEF Transition, Notify
    <3> QED BY <2>1, <3>1
  <2>4. Receive
    BY <2>2, <2>3, Zenon DEF Next, Sent, Stop, Exit, Tick
  <2>5. Head(ch) # None
    <3>1. Head(ch) \in Events
      BY <2>1, <2>4 DEF Receive
    <3> QED BY <3>1, NotifierAssumption, Zenon
  <2>6. Cooling(Head(ch))
    BY <2>4, <2>5, Zenon DEF Receive
  <2>7. PICK l \in lastSent : l.key = Head(ch) /\ now - l.at < Cooldown
    BY <2>6, Zenon DEF Cooling
  <2> QED BY <2>7, Zenon DEF MailInv, Real
<1> QED BY <1>1, NotifierInvariance, PTL DEF Spec, SilencedOnlyByMail

-----------------------------------------------------------------------------
(* Sequences of spans *)

\* What s holds is in the order that the pairs in B say.
InOrder(s, B) == \A i, j \in DOMAIN s : i < j => <<s[i], s[j]>> \in B

\* What s holds is before what t holds.
Precedes(s, t, B) == \A x \in Proc!Range(s), y \in Proc!Range(t) : <<x, y>> \in B

\* What is in a sequence that is put together from two, and in its order.
LEMMA Concatenation ==
    ASSUME NEW S, NEW s \in Seq(S), NEW t \in Seq(S), NEW B
    PROVE  /\ s \o t \in Seq(S)
           /\ Proc!Range(s \o t) = Proc!Range(s) \cup Proc!Range(t)
           /\ InOrder(s \o t, B) <=> InOrder(s, B) /\ InOrder(t, B) /\ Precedes(s, t, B)
<1> DEFINE u == s \o t
<1>1. /\ u \in Seq(S) /\ Len(s) \in Nat /\ Len(t) \in Nat
      /\ DOMAIN s = 1 .. Len(s) /\ DOMAIN t = 1 .. Len(t) /\ DOMAIN u = 1 .. Len(s) + Len(t)
      /\ \A i \in 1 .. Len(s) : u[i] = s[i]
      /\ \A i \in 1 .. Len(t) : u[Len(s) + i] = t[i]
  OBVIOUS
<1> HIDE DEF u
<1>2. \A i \in DOMAIN u : i \in DOMAIN s \/ \E k \in DOMAIN t : i = Len(s) + k
  <2> SUFFICES ASSUME NEW i \in 1 .. Len(s) + Len(t), ~(i \in 1 .. Len(s))
               PROVE  i - Len(s) \in 1 .. Len(t) /\ i = Len(s) + (i - Len(s))
    BY <1>1, Zenon
  <2> QED BY <1>1
<1>3. /\ \A i \in DOMAIN s : i \in DOMAIN u
      /\ \A k \in DOMAIN t : Len(s) + k \in DOMAIN u
      /\ \A i \in DOMAIN s, k \in DOMAIN t : i < Len(s) + k /\ ~(Len(s) + k < i)
      /\ \A i, k \in DOMAIN t : i < k <=> Len(s) + i < Len(s) + k
  BY <1>1
<1>4. Proc!Range(u) = Proc!Range(s) \cup Proc!Range(t)
  <2>1. ASSUME NEW x \in Proc!Range(u) PROVE x \in Proc!Range(s) \cup Proc!Range(t)
    <3>1. PICK i \in DOMAIN u : x = u[i]
      BY <2>1, Zenon DEF Proc!Range
    <3>2. CASE i \in DOMAIN s
      BY <1>1, <3>1, <3>2, Zenon DEF Proc!Range
    <3>3. ASSUME NEW k \in DOMAIN t, i = Len(s) + k PROVE x \in Proc!Range(t)
      BY <1>1, <3>1, <3>3, Zenon DEF Proc!Range
    <3> QED BY <1>2, <3>2, <3>3, Zenon
  <2>2. ASSUME NEW x \in Proc!Range(s) PROVE x \in Proc!Range(u)
    BY <1>1, <1>3, <2>2, Zenon DEF Proc!Range
  <2>3. ASSUME NEW x \in Proc!Range(t) PROVE x \in Proc!Range(u)
    BY <1>1, <1>3, <2>3, Zenon DEF Proc!Range
  <2> QED BY <2>1, <2>2, <2>3, Zenon
<1>5. ASSUME InOrder(u, B) PROVE InOrder(s, B) /\ InOrder(t, B) /\ Precedes(s, t, B)
  <2>1. InOrder(s, B)
    BY <1>1, <1>3, <1>5, Zenon DEF InOrder
  <2>2. ASSUME NEW i \in DOMAIN t, NEW k \in DOMAIN t, i < k PROVE <<t[i], t[k]>> \in B
    <3>1. /\ Len(s) + i \in DOMAIN u /\ Len(s) + k \in DOMAIN u /\ Len(s) + i < Len(s) + k
          /\ u[Len(s) + i] = t[i] /\ u[Len(s) + k] = t[k]
      BY <1>1, <1>3, <2>2, Zenon
    <3> QED BY <1>5, <3>1, Zenon DEF InOrder
  <2>3. ASSUME NEW i \in DOMAIN s, NEW k \in DOMAIN t PROVE <<s[i], t[k]>> \in B
    <3>1. /\ i \in DOMAIN u /\ Len(s) + k \in DOMAIN u /\ i < Len(s) + k
          /\ u[i] = s[i] /\ u[Len(s) + k] = t[k]
      BY <1>1, <1>3, <2>3, Zenon
    <3> QED BY <1>5, <3>1, Zenon DEF InOrder
  <2> QED BY <2>1, <2>2, <2>3, Zenon DEF InOrder, Precedes, Proc!Range
<1>6. ASSUME InOrder(s, B), InOrder(t, B), Precedes(s, t, B),
             NEW i \in DOMAIN u, NEW j \in DOMAIN u, i < j
      PROVE  <<u[i], u[j]>> \in B
  <2>1. CASE i \in DOMAIN s /\ j \in DOMAIN s
    BY <1>1, <1>6, <2>1, Zenon DEF InOrder
  <2>2. ASSUME i \in DOMAIN s, NEW k \in DOMAIN t, j = Len(s) + k PROVE <<u[i], u[j]>> \in B
    <3>1. u[i] \in Proc!Range(s) /\ u[j] \in Proc!Range(t)
      BY <1>1, <2>2, Zenon DEF Proc!Range
    <3> QED BY <1>6, <3>1, Zenon DEF Precedes
  <2>3. ASSUME NEW k \in DOMAIN t, i = Len(s) + k, j \in DOMAIN s PROVE FALSE
    BY <1>3, <1>6, <2>3, Zenon
  <2>4. ASSUME NEW k \in DOMAIN t, i = Len(s) + k, NEW l \in DOMAIN t, j = Len(s) + l
        PROVE  <<u[i], u[j]>> \in B
    <3>1. k < l /\ u[i] = t[k] /\ u[j] = t[l]
      BY <1>1, <1>3, <1>6, <2>4, Zenon
    <3> QED BY <1>6, <3>1, Zenon DEF InOrder
  <2> QED BY <1>2, <2>1, <2>2, <2>3, <2>4, Zenon
<1>7. u \in Seq(S) /\ (InOrder(u, B) <=> InOrder(s, B) /\ InOrder(t, B) /\ Precedes(s, t, B))
  BY <1>1, <1>5, <1>6, Zenon DEF InOrder
<1> QED BY <1>4, <1>7, Zenon DEF u

\* The same in parts.
LEMMA JoinedRange ==
    ASSUME NEW S, NEW s \in Seq(S), NEW t \in Seq(S)
    PROVE  s \o t \in Seq(S) /\ Proc!Range(s \o t) = Proc!Range(s) \cup Proc!Range(t)
BY Concatenation, ZenonT(60)

LEMMA JoinedOrder ==
    ASSUME NEW S, NEW s \in Seq(S), NEW t \in Seq(S), NEW B,
           InOrder(s, B), InOrder(t, B), Precedes(s, t, B)
    PROVE  InOrder(s \o t, B)
BY Concatenation, ZenonT(60)

LEMMA OrderOfParts ==
    ASSUME NEW S, NEW s \in Seq(S), NEW t \in Seq(S), NEW B, InOrder(s \o t, B)
    PROVE  InOrder(s, B) /\ InOrder(t, B) /\ Precedes(s, t, B)
BY Concatenation, ZenonT(60)

\* An element at the end comes after what was there.
LEMMA Appending ==
    ASSUME NEW S, NEW s \in Seq(S), NEW x \in S, NEW B
    PROVE  /\ Append(s, x) \in Seq(S) /\ Len(Append(s, x)) = Len(s) + 1
           /\ Proc!Range(Append(s, x)) = Proc!Range(s) \cup {x}
           /\ InOrder(s, B) /\ (\A y \in Proc!Range(s) : <<y, x>> \in B) => InOrder(Append(s, x), B)
<1>1. /\ Append(s, x) = s \o <<x>> /\ <<x>> \in Seq(S) /\ Append(s, x) \in Seq(S)
      /\ Len(Append(s, x)) = Len(s) + 1
      /\ DOMAIN <<x>> = {1} /\ <<x>>[1] = x /\ ~(1 < 1)
  OBVIOUS
<1>2. Proc!Range(<<x>>) = {x}
  BY <1>1, Zenon DEF Proc!Range
<1>3. InOrder(<<x>>, B)
  BY <1>1, Zenon DEF InOrder
<1>4. Proc!Range(s \o <<x>>) = Proc!Range(s) \cup {x}
  <2>1. Proc!Range(s \o <<x>>) = Proc!Range(s) \cup Proc!Range(<<x>>)
    <3> DEFINE t == <<x>>
    <3>1. t \in Seq(S)
      BY <1>1, Zenon
    <3> HIDE DEF t
    <3>2. Proc!Range(s \o t) = Proc!Range(s) \cup Proc!Range(t)
      BY <3>1, JoinedRange
    <3> QED BY <3>2, Zenon DEF t
  <2> QED BY <1>2, <2>1, Zenon
<1>5. ASSUME InOrder(s, B), \A y \in Proc!Range(s) : <<y, x>> \in B PROVE InOrder(s \o <<x>>, B)
  <2>1. Precedes(s, <<x>>, B)
    BY <1>2, <1>5, Zenon DEF Precedes
  <2> QED BY <1>1, <1>3, <1>5, <2>1, JoinedOrder, Zenon
<1> QED BY <1>1, <1>4, <1>5, Zenon

\* Nothing is in the empty sequence.
LEMMA EmptySpans ==
    /\ Proc!Range(<< >>) = {} /\ \A S : << >> \in Seq(S)
    /\ \A B : InOrder(<< >>, B)
    /\ \A s, B : Precedes(s, << >>, B) /\ Precedes(<< >>, s, B)
<1>1. DOMAIN << >> = {} /\ \A S : << >> \in Seq(S)
  OBVIOUS
<1> QED BY <1>1, Zenon DEF Proc!Range, InOrder, Precedes

\* A sequence is cut into its first k elements and the rest.
LEMMA Cutting ==
    ASSUME NEW S, NEW s \in Seq(S), NEW k \in 0 .. Len(s)
    PROVE  /\ SubSeq(s, 1, k) \in Seq(S) /\ SubSeq(s, k + 1, Len(s)) \in Seq(S)
           /\ Len(SubSeq(s, k + 1, Len(s))) = Len(s) - k
           /\ s = SubSeq(s, 1, k) \o SubSeq(s, k + 1, Len(s))
<1> DEFINE p == SubSeq(s, 1, k)
           q == SubSeq(s, k + 1, Len(s))
<1>1. p \in Seq(S) /\ Len(p) = k /\ \A i \in 1 .. k : p[i] = s[i]
  OBVIOUS
<1>2. q \in Seq(S) /\ Len(q) = Len(s) - k /\ \A i \in 1 .. Len(s) - k : q[i] = s[k + i]
  OBVIOUS
<1> HIDE DEF p, q
<1>3. p \o q \in Seq(S) /\ Len(p \o q) = Len(s) /\ \A i \in 1 .. Len(s) : (p \o q)[i] = s[i]
  <2>1. p \o q \in Seq(S) /\ Len(p \o q) = Len(s)
    <3>1. p \o q \in Seq(S) /\ Len(p \o q) = Len(p) + Len(q)
      BY <1>1, <1>2, ConcatProperties, Zenon
    <3>2. k + (Len(s) - k) = Len(s)
      OBVIOUS
    <3> QED BY <1>1, <1>2, <3>1, <3>2, Zenon
  <2>2. ASSUME NEW i \in 1 .. Len(s) PROVE (p \o q)[i] = s[i]
    <3>1. CASE i <= k
      BY <1>1, <1>2, <3>1
    <3>2. CASE i > k
      <4>1. i - k \in 1 .. Len(s) - k /\ k + (i - k) = i
        BY <3>2
      <4>2. q[i - k] = s[i]
        BY <1>2, <4>1
      <4>3. (p \o q)[i] = q[i - k]
        BY <1>1, <1>2, <3>2
      <4> QED BY <4>2, <4>3, Zenon
    <3>3. i <= k \/ i > k
      OBVIOUS
    <3> QED BY <3>1, <3>2, <3>3, Zenon
  <2> QED BY <2>1, <2>2, Zenon
<1>4. s = p \o q
  BY <1>3, SeqEqual, Zenon
<1> QED BY <1>1, <1>2, <1>4, Zenon DEF p, q

-----------------------------------------------------------------------------
(* Process: the inductive invariant *)

\* The order in which requests ended.
Ord == {p \in Requests \X Requests : Proc!Before(p[1], p[2])}

Held == Proc!Range(exported) \cup Proc!Range(batch) \cup Proc!Range(queue)

ProcTypes ==
    /\ Proc!TypeOK
    /\ req \in [Requests -> {"new", "running", "done"}]
    /\ ended \in Seq(Requests) /\ exported \in Seq(Requests)
    /\ batch \in Seq(Requests) /\ queue \in Seq(Requests)

\* Every span that ended is in one place.
Placed == Held = Proc!Range(ended) \ shed /\ shed \subseteq Proc!Range(ended)

\* The places are in the order in which spans pass them, and each is in order.
Ordered ==
    /\ InOrder(exported, Ord) /\ InOrder(batch, Ord) /\ InOrder(queue, Ord)
    /\ Precedes(exported, batch, Ord) /\ Precedes(exported, queue, Ord)
    /\ Precedes(batch, queue, Ord)

\* main is in the tracer's last flush or beyond it.
PastFlush == main \in {"flushing", "closing", "closed"} \/ (main = "exited" /\ ~aborted)

\* A batch is under way only while somebody exports it; from the last flush on
\* the tracer's goroutine is gone, and only late spans wait.
Shutdown ==
    /\ run \in {"idle", "exporting", "gone"}
    /\ batch # << >> => run = "exporting" \/ main = "flushing"
    /\ run = "gone" => main = "tracer" \/ PastFlush
    /\ PastFlush => run = "gone" /\ Proc!Range(queue) \subseteq late
    /\ aborted => main = "exited"

ProcInv == ProcTypes /\ Placed /\ Ordered /\ Shutdown

\* Ended requests are ordered strictly.
LEMMA OrderIsStrict == ASSUME ProcTypes, NEW x, <<x, x>> \in Ord PROVE FALSE
<1>1. PICK i, j \in DOMAIN ended : i < j /\ ended[i] = x /\ ended[j] = x
  BY Zenon DEF Ord, Proc!Before
<1>2. i = j
  BY <1>1, Zenon DEF ProcTypes, Proc!TypeOK, Proc!IsInjective
<1>3. i \in Nat
  BY DEF ProcTypes
<1>4. \A n \in Nat : ~(n < n)
  OBVIOUS
<1> QED BY <1>1, <1>2, <1>3, <1>4, Zenon

\* So places that follow each other have no span in common.
LEMMA PlacesAreApart ==
    ASSUME ProcTypes, NEW s, NEW t, Precedes(s, t, Ord)
    PROVE  Proc!Range(s) \cap Proc!Range(t) = {}
BY OrderIsStrict, Zenon DEF Precedes

\* What the properties say of all places together.
LEMMA PlacesTogether ==
    ASSUME ProcTypes, Placed, Ordered
    PROVE  Proc!SpansAreInOrder
<1> DEFINE front == exported \o batch
           all == front \o queue
<1>1. /\ exported \in Seq(Requests) /\ batch \in Seq(Requests) /\ queue \in Seq(Requests)
  BY Zenon DEF ProcTypes
<1>2. /\ front \in Seq(Requests) /\ Proc!Range(front) = Proc!Range(exported) \cup Proc!Range(batch)
      /\ InOrder(front, Ord)
  <2>1. InOrder(exported, Ord) /\ InOrder(batch, Ord) /\ Precedes(exported, batch, Ord)
    BY Zenon DEF Ordered
  <2>2. InOrder(front, Ord)
    BY <1>1, <2>1, JoinedOrder, Zenon
  <2> QED BY <1>1, <2>2, JoinedRange
<1> HIDE DEF front
<1>3. Precedes(front, queue, Ord)
  BY <1>2, Zenon DEF Precedes, Ordered
<1>4. /\ all \in Seq(Requests) /\ Proc!Range(all) = Proc!Range(front) \cup Proc!Range(queue)
      /\ InOrder(all, Ord)
  <2>1. front \in Seq(Requests) /\ queue \in Seq(Requests)
    BY <1>1, <1>2, Zenon
  <2>2. InOrder(front, Ord) /\ InOrder(queue, Ord) /\ Precedes(front, queue, Ord)
    BY <1>2, <1>3, Zenon DEF Ordered
  <2>3. InOrder(all, Ord)
    BY <2>1, <2>2, JoinedOrder, Zenon
  <2> QED BY <2>1, <2>3, JoinedRange
<1> HIDE DEF all
<1>5. Proc!Range(all) = Proc!Range(ended) \ shed
  BY <1>2, <1>4, Zenon DEF Placed, Held
<1>6. ASSUME NEW i \in DOMAIN all, NEW j \in DOMAIN all, i < j
      PROVE  Proc!Before(all[i], all[j])
  <2>1. <<all[i], all[j]>> \in Ord
    BY <1>4, <1>6, Zenon DEF InOrder
  <2>2. \A x, y : <<x, y>>[1] = x /\ <<x, y>>[2] = y
    OBVIOUS
  <2> QED BY <2>1, <2>2, Zenon DEF Ord
<1> QED BY <1>5, <1>6, Zenon DEF Proc!SpansAreInOrder, all, front

-----------------------------------------------------------------------------
(* Process: the steps *)

places == <<req, queue, batch, exported, shed, ended>>

\* A step that moves no span: what it says of main and run is left to show.
LEMMA NoSpanMoves ==
    ASSUME ProcInv, UNCHANGED places,
           main' \in {"serving", "draining", "prober", "notifier", "tracer", "flushing", "closing",
                      "closed", "exited"}
    PROVE  ProcTypes' /\ Placed' /\ Ordered'
<1>1. UNCHANGED <<req, queue, batch, exported, shed, ended>> /\ ProcTypes /\ Placed /\ Ordered
  BY Zenon DEF ProcInv, places
<1>2. Ord' = Ord
  <2>1. \A x, y : Proc!Before(x, y)' <=> Proc!Before(x, y)
    BY <1>1, Zenon DEF Proc!Before
  <2> QED BY <2>1, Zenon DEF Ord
<1>3. ProcTypes'
  <2>1. Proc!Range(ended)' = Proc!Range(ended) /\ (Proc!IsInjective(ended)' <=> Proc!IsInjective(ended))
    BY <1>1, Zenon DEF Proc!Range, Proc!IsInjective
  <2>2. /\ Len(queue') <= MaxQueue /\ Proc!IsInjective(ended)'
        /\ \A r \in Requests : req'[r] = "done" <=> r \in Proc!Range(ended)'
    BY <1>1, <2>1, Zenon DEF ProcTypes, Proc!TypeOK
  <2> QED BY <1>1, <2>2, Zenon DEF ProcTypes, Proc!TypeOK
<1>4. Placed'
  BY <1>1, Zenon DEF Placed, Held
<1>5. Ordered'
  BY <1>1, <1>2, Zenon DEF Ordered
<1> QED BY <1>3, <1>4, <1>5, Zenon

\* main and the goroutines move and no span does.
LEMMA QuietProcStep ==
    ASSUME ProcInv,
           \/ Proc!RunEnds \/ Proc!Mail \/ Proc!Signal \/ Proc!ServerFails \/ Proc!Drained
           \/ Proc!ProberStops \/ Proc!NotifierStops \/ Proc!CloseStore \/ Proc!Return
           \/ UNCHANGED Proc!vars
    PROVE  ProcInv'
<1>1. UNCHANGED places /\ UNCHANGED late
  BY Zenon
  DEF places, Proc!RunEnds, Proc!Mail, Proc!Signal, Proc!ServerFails, Proc!Drained,
      Proc!ProberStops, Proc!NotifierStops, Proc!CloseStore, Proc!Return, Proc!vars
<1>2. main' \in {"serving", "draining", "prober", "notifier", "tracer", "flushing", "closing",
                 "closed", "exited"}
  BY DEF ProcInv, ProcTypes, Proc!TypeOK, Proc!Go,
         Proc!RunEnds, Proc!Mail, Proc!Signal, Proc!ServerFails, Proc!Drained,
         Proc!ProberStops, Proc!NotifierStops, Proc!CloseStore, Proc!Return, Proc!vars
<1>3. batch' = batch /\ Proc!Range(queue)' = Proc!Range(queue) /\ late' = late
  BY <1>1, Zenon DEF places, Proc!Range
<1>4. Shutdown'
  BY <1>3
  DEF ProcInv, Shutdown, PastFlush, Proc!Go,
      Proc!RunEnds, Proc!Mail, Proc!Signal, Proc!ServerFails, Proc!Drained,
      Proc!ProberStops, Proc!NotifierStops, Proc!CloseStore, Proc!Return, Proc!vars
<1> QED BY <1>1, <1>2, <1>4, NoSpanMoves, Zenon DEF ProcInv

\* A request is accepted.
LEMMA AcceptStep == ASSUME ProcInv, NEW r \in Requests, Proc!Accept(r) PROVE ProcInv'
<1>1. /\ req[r] = "new" /\ req' = [req EXCEPT ![r] = "running"]
      /\ UNCHANGED <<main, queue, run, batch, exported, shed, ended, late, aborted>>
  BY Zenon DEF Proc!Accept
<1>2. ProcTypes /\ Placed /\ Ordered /\ Shutdown
  BY Zenon DEF ProcInv
<1>3. Ord' = Ord
  <2>1. \A x, y : Proc!Before(x, y)' <=> Proc!Before(x, y)
    BY <1>1, Zenon DEF Proc!Before
  <2> QED BY <2>1, Zenon DEF Ord
<1>4. ProcTypes'
  <2>1. req' \in [Requests -> {"new", "running", "done"}]
    BY <1>1, <1>2, Zenon DEF ProcTypes
  <2>2. \A q \in Requests : req'[q] = "done" <=> req[q] = "done"
    BY <1>1, <1>2 DEF ProcTypes
  <2>3. Proc!TypeOK'
    BY <1>1, <1>2, <2>2, Zenon DEF ProcTypes, Proc!TypeOK
  <2> QED BY <1>1, <1>2, <2>1, <2>3, Zenon DEF ProcTypes
<1>5. Placed' /\ Ordered' /\ Shutdown'
  BY <1>1, <1>2, <1>3, Zenon DEF Placed, Held, Ordered, Shutdown, PastFlush
<1> QED BY <1>4, <1>5, Zenon DEF ProcInv

\* The spans that wait become the batch, of which nothing was left.
LEMMA SwapStep ==
    ASSUME ProcInv, batch = << >>, Proc!Swap, UNCHANGED <<req, exported, shed, ended>>,
           main' \in {"serving", "draining", "prober", "notifier", "tracer", "flushing", "closing",
                      "closed", "exited"}
    PROVE  ProcTypes' /\ Placed' /\ Ordered'
<1>1. /\ batch' = queue /\ queue' = << >> /\ UNCHANGED <<req, exported, shed, ended>>
      /\ ProcTypes /\ Placed /\ Ordered
  BY Zenon DEF ProcInv, Proc!Swap
<1>2. Ord' = Ord
  <2>1. \A x, y : Proc!Before(x, y)' <=> Proc!Before(x, y)
    BY <1>1, Zenon DEF Proc!Before
  <2> QED BY <2>1, Zenon DEF Ord
<1>3. ProcTypes'
  <2>1. Len(queue') <= MaxQueue
    BY <1>1, ProcessAssumption DEF Proc!WellFormed
  <2> QED BY <1>1, <2>1, EmptySpans, Zenon DEF ProcTypes, Proc!TypeOK
<1>4. Placed'
  BY <1>1, EmptySpans, Zenon DEF Placed, Held
<1>5. Ordered'
  BY <1>1, <1>2, EmptySpans, Zenon DEF Ordered
<1> QED BY <1>3, <1>4, <1>5, Zenon

\* The batch reaches the collector, or is shed.
LEMMA ExportStep ==
    ASSUME ProcInv, Proc!Export, UNCHANGED <<req, queue, ended>>,
           main' \in {"serving", "draining", "prober", "notifier", "tracer", "flushing", "closing",
                      "closed", "exited"}
    PROVE  ProcTypes' /\ Placed' /\ Ordered'
<1>1. /\ batch' = << >> /\ UNCHANGED <<req, queue, ended>>
      /\ ProcTypes /\ Placed /\ Ordered
  BY Zenon DEF ProcInv, Proc!Export
<1>2. Ord' = Ord
  <2>1. \A x, y : Proc!Before(x, y)' <=> Proc!Before(x, y)
    BY <1>1, Zenon DEF Proc!Before
  <2> QED BY <2>1, Zenon DEF Ord
<1>3. exported \in Seq(Requests) /\ batch \in Seq(Requests)
  BY <1>1, Zenon DEF ProcTypes
<1>4. CASE exported' = exported \o batch /\ UNCHANGED shed
  <2>1. /\ exported' \in Seq(Requests)
        /\ Proc!Range(exported)' = Proc!Range(exported) \cup Proc!Range(batch)
        /\ InOrder(exported', Ord)
    <3>1. InOrder(exported, Ord) /\ InOrder(batch, Ord) /\ Precedes(exported, batch, Ord)
      BY <1>1, Zenon DEF Ordered
    <3>2. InOrder(exported \o batch, Ord)
      BY <1>3, <3>1, JoinedOrder, Zenon
    <3>3. /\ exported \o batch \in Seq(Requests)
          /\ Proc!Range(exported \o batch) = Proc!Range(exported) \cup Proc!Range(batch)
      BY <1>3, JoinedRange
    <3> QED BY <1>4, <3>2, <3>3, Zenon
  <2>2. ProcTypes'
    BY <1>1, <2>1, EmptySpans, Zenon DEF ProcTypes, Proc!TypeOK
  <2>3. Placed'
    BY <1>1, <1>4, <2>1, EmptySpans, Zenon DEF Placed, Held
  <2>4. Precedes(exported', queue, Ord)
    BY <1>1, <2>1, Zenon DEF Ordered, Precedes
  <2>5. Ordered'
    BY <1>1, <1>2, <2>1, <2>4, EmptySpans, Zenon DEF Ordered
  <2> QED BY <2>2, <2>3, <2>5, Zenon
<1>5. CASE shed' = shed \cup Proc!Range(batch) /\ UNCHANGED exported
  <2>1. ProcTypes'
    BY <1>1, <1>5, EmptySpans, Zenon DEF ProcTypes, Proc!TypeOK
  <2>2. /\ Proc!Range(exported) \cap Proc!Range(batch) = {}
        /\ Proc!Range(batch) \cap Proc!Range(queue) = {}
    BY <1>1, PlacesAreApart, Zenon DEF Ordered
  <2>3. Held' = Proc!Range(exported) \cup Proc!Range(queue)
    BY <1>1, <1>5, EmptySpans, Zenon DEF Held
  <2>4. Placed'
    <3>1. shed' \subseteq Proc!Range(ended)
      BY <1>1, <1>5, Zenon DEF Placed, Held
    <3>2. ASSUME NEW x PROVE x \in Held' <=> x \in Proc!Range(ended) \ shed'
      BY <1>1, <1>5, <2>2, <2>3, Zenon DEF Placed, Held
    <3> QED BY <1>1, <3>1, <3>2, Zenon DEF Placed
  <2>5. Ordered'
    BY <1>1, <1>2, <1>5, EmptySpans, Zenon DEF Ordered
  <2> QED BY <2>1, <2>4, <2>5, Zenon
<1> QED BY <1>4, <1>5, Zenon DEF Proc!Export

\* The four halves of the two kinds of flush.
LEMMA FlushSteps ==
    ASSUME ProcInv, Proc!Flush \/ Proc!Flushed \/ Proc!LastFlush \/ Proc!LastFlushed
    PROVE  ProcInv'
<1>1. ProcTypes /\ Placed /\ Ordered /\ Shutdown /\ Proc!TypeOK
  BY Zenon DEF ProcInv, ProcTypes
<1>2. main' \in {"serving", "draining", "prober", "notifier", "tracer", "flushing", "closing",
                 "closed", "exited"}
  BY <1>1
  DEF Proc!TypeOK, Proc!Flush, Proc!Flushed, Proc!LastFlush, Proc!LastFlushed, Proc!Go
<1>3. CASE Proc!Flush
  <2>1. /\ run = "idle" /\ run' = "exporting" /\ Proc!Swap /\ main # "exited"
        /\ UNCHANGED <<main, req, exported, shed, ended, late, aborted>>
    BY <1>3, Zenon DEF Proc!Flush, Proc!Alive
  <2>2. batch = << >> /\ ~PastFlush
    BY <1>1, <2>1 DEF Shutdown, PastFlush
  <2>3. Shutdown'
    BY <1>1, <2>1, <2>2 DEF Shutdown, PastFlush
  <2> QED BY <1>2, <2>1, <2>2, <2>3, SwapStep, Zenon DEF ProcInv
<1>4. CASE Proc!Flushed
  <2>1. /\ run = "exporting" /\ run' = "idle" /\ Proc!Export
        /\ UNCHANGED <<main, req, queue, ended, late, aborted>> /\ batch' = << >>
    BY <1>4, Zenon DEF Proc!Flushed, Proc!Export
  <2>2. Shutdown'
    BY <1>1, <2>1 DEF Shutdown, PastFlush
  <2> QED BY <1>2, <2>1, <2>2, ExportStep, Zenon DEF ProcInv
<1>5. CASE Proc!LastFlush
  <2>1. /\ main = "tracer" /\ main' = "flushing" /\ run = "gone" /\ Proc!Swap /\ queue' = << >>
        /\ UNCHANGED <<req, run, exported, shed, ended, late, aborted>>
    BY <1>5, Zenon DEF Proc!LastFlush, Proc!Go, Proc!Swap
  <2>2. batch = << >>
    BY <1>1, <2>1 DEF Shutdown
  <2>3. Proc!Range(queue)' \subseteq late'
    BY <2>1, EmptySpans, Zenon
  <2>4. Shutdown'
    BY <1>1, <2>1, <2>3 DEF Shutdown, PastFlush
  <2> QED BY <1>2, <2>1, <2>2, <2>4, SwapStep, Zenon DEF ProcInv
<1>6. CASE Proc!LastFlushed
  <2>1. /\ main = "flushing" /\ main' = "closing" /\ Proc!Export /\ batch' = << >>
        /\ UNCHANGED <<req, run, queue, ended, late, aborted>>
    BY <1>6, Zenon DEF Proc!LastFlushed, Proc!Go, Proc!Export
  <2>2. run = "gone" /\ Proc!Range(queue)' \subseteq late'
    BY <1>1, <2>1, Zenon DEF Shutdown, PastFlush
  <2>3. Shutdown'
    BY <1>1, <2>1, <2>2 DEF Shutdown, PastFlush
  <2> QED BY <1>2, <2>1, <2>3, ExportStep, Zenon DEF ProcInv
<1> QED BY <1>3, <1>4, <1>5, <1>6, Zenon

\* What Enqueue does: the queue is cut, unless it has room, and r is appended.
LEMMA EnqueueCuts ==
    ASSUME ProcInv, NEW r \in Requests, Proc!Enqueue(r)
    PROVE  \E cut \in Seq(Requests), rest \in Seq(Requests) :
              /\ queue = cut \o rest /\ queue' = Append(rest, r)
              /\ shed' = shed \cup Proc!Range(cut) /\ Len(rest) + 1 <= MaxQueue
<1> DEFINE half == Len(queue) \div 2
<1>1. /\ queue \in Seq(Requests) /\ Len(queue) <= MaxQueue /\ Len(queue) \in Nat
      /\ MaxQueue \in Nat /\ MaxQueue >= 2
  BY ProcessAssumption DEF ProcInv, ProcTypes, Proc!TypeOK, Proc!WellFormed
<1>2. CASE Len(queue) >= MaxQueue
  <2>1. half \in 0 .. Len(queue) /\ Len(queue) - half + 1 <= MaxQueue
    BY <1>1, <1>2
  <2>2. /\ queue' = Append(SubSeq(queue, half + 1, Len(queue)), r)
        /\ shed' = shed \cup Proc!Range(SubSeq(queue, 1, half))
    BY <1>2, Zenon DEF Proc!Enqueue
  <2> HIDE DEF half
  <2>3. /\ SubSeq(queue, 1, half) \in Seq(Requests) /\ SubSeq(queue, half + 1, Len(queue)) \in Seq(Requests)
        /\ Len(SubSeq(queue, half + 1, Len(queue))) = Len(queue) - half
        /\ queue = SubSeq(queue, 1, half) \o SubSeq(queue, half + 1, Len(queue))
    BY <1>1, <2>1, Cutting, Zenon
  <2>4. Len(SubSeq(queue, half + 1, Len(queue))) + 1 <= MaxQueue
    BY <2>1, <2>3, Zenon
  <2> QED BY <2>2, <2>3, <2>4, Zenon
<1>3. CASE ~(Len(queue) >= MaxQueue)
  <2>1. /\ queue' = Append(queue, r) /\ shed' = shed
    BY <1>3, Zenon DEF Proc!Enqueue
  <2>2. Len(queue) + 1 <= MaxQueue
    BY <1>1, <1>3
  <2>3. << >> \in Seq(Requests) /\ queue = << >> \o queue
    BY <1>1
  <2>4. shed' = shed \cup Proc!Range(<< >>)
    BY <2>1, EmptySpans, Zenon
  <2> QED BY <1>1, <2>1, <2>2, <2>3, <2>4, Zenon
<1> QED BY <1>2, <1>3, Zenon

\* A request ends after those that have ended.
LEMMA EndedLast ==
    ASSUME ProcInv, NEW r \in Requests, Proc!Finish(r)
    PROVE  /\ ended' \in Seq(Requests) /\ r \notin Proc!Range(ended)
           /\ Proc!Range(ended)' = Proc!Range(ended) \cup {r}
           /\ Proc!IsInjective(ended)'
           /\ Ord \subseteq Ord' /\ \A x \in Proc!Range(ended) : <<x, r>> \in Ord'
<1>1. /\ ended' = Append(ended, r) /\ req[r] = "running" /\ ended \in Seq(Requests)
      /\ Proc!IsInjective(ended) /\ \A q \in Requests : req[q] = "done" <=> q \in Proc!Range(ended)
  BY Zenon DEF ProcInv, ProcTypes, Proc!TypeOK, Proc!Finish
<1>2. r \notin Proc!Range(ended)
  BY <1>1
<1>3. ended' \in Seq(Requests) /\ Proc!Range(ended)' = Proc!Range(ended) \cup {r}
  BY <1>1, Appending, Zenon
<1>4. /\ Len(ended) \in Nat /\ DOMAIN ended = 1 .. Len(ended) /\ DOMAIN ended' = 1 .. Len(ended) + 1
      /\ \A i \in 1 .. Len(ended) : ended'[i] = ended[i] /\ ended[i] \in Requests
      /\ ended'[Len(ended) + 1] = r
  BY <1>1
<1>5. \A n \in Nat : /\ \A i \in 1 .. n : i \in 1 .. n + 1 /\ i < n + 1
                     /\ n + 1 \in 1 .. n + 1
                     /\ \A i \in 1 .. n + 1 : i = n + 1 \/ i \in 1 .. n
  OBVIOUS
<1>6. Proc!IsInjective(ended)'
  <2> SUFFICES ASSUME NEW i \in DOMAIN ended', NEW j \in DOMAIN ended', ended'[i] = ended'[j]
               PROVE  i = j
    BY Zenon DEF Proc!IsInjective
  <2>1. CASE i \in DOMAIN ended /\ j \in DOMAIN ended
    BY <1>1, <1>4, <2>1, Zenon DEF Proc!IsInjective
  <2>2. CASE i \in DOMAIN ended /\ j = Len(ended) + 1
    BY <1>2, <1>4, <2>2, Zenon DEF Proc!Range
  <2>3. CASE i = Len(ended) + 1 /\ j \in DOMAIN ended
    BY <1>2, <1>4, <2>3, Zenon DEF Proc!Range
  <2> QED BY <1>4, <1>5, <2>1, <2>2, <2>3, Zenon
<1>7. ASSUME NEW x \in Requests, NEW y \in Requests, Proc!Before(x, y) PROVE Proc!Before(x, y)'
  <2>1. PICK i, j \in DOMAIN ended : i < j /\ ended[i] = x /\ ended[j] = y
    BY <1>7, Zenon DEF Proc!Before
  <2>2. i \in DOMAIN ended' /\ j \in DOMAIN ended' /\ ended'[i] = x /\ ended'[j] = y
    BY <1>4, <1>5, <2>1, Zenon
  <2> QED BY <2>1, <2>2, Zenon DEF Proc!Before
<1>8. ASSUME NEW x \in Proc!Range(ended) PROVE x \in Requests /\ Proc!Before(x, r)'
  <2>1. PICK i \in DOMAIN ended : ended[i] = x
    BY <1>8, Zenon DEF Proc!Range
  <2>2. /\ i \in DOMAIN ended' /\ Len(ended) + 1 \in DOMAIN ended' /\ i < Len(ended) + 1
        /\ ended'[i] = x /\ ended'[Len(ended) + 1] = r /\ x \in Requests
    BY <1>4, <1>5, <2>1, Zenon
  <2> QED BY <2>2, Zenon DEF Proc!Before
<1>9. \A x, y : <<x, y>>[1] = x /\ <<x, y>>[2] = y
  OBVIOUS
<1>10. ASSUME NEW x \in Proc!Range(ended) PROVE <<x, r>> \in Ord'
  BY <1>8, <1>9, <1>10, Zenon DEF Ord
<1>11. Ord \subseteq Ord'
  <2>1. ASSUME NEW p \in Ord PROVE p[1] \in Requests /\ p[2] \in Requests
    BY DEF Ord
  <2> QED BY <1>7, <2>1, Zenon DEF Ord
<1> QED BY <1>2, <1>3, <1>6, <1>10, <1>11, Zenon

\* A larger order orders what the smaller one does.
LEMMA OrderGrows ==
    ASSUME NEW A, NEW B, A \subseteq B
    PROVE  /\ \A s : InOrder(s, A) => InOrder(s, B)
           /\ \A s, t : Precedes(s, t, A) => Precedes(s, t, B)
BY Zenon DEF InOrder, Precedes

\* A request ends, and its span waits.
LEMMA FinishStep == ASSUME ProcInv, NEW r \in Requests, Proc!Finish(r) PROVE ProcInv'
<1>1. ProcTypes /\ Placed /\ Ordered /\ Shutdown
  BY Zenon DEF ProcInv
<1>2. /\ req' = [req EXCEPT ![r] = "done"] /\ Proc!Enqueue(r)
      /\ late' = IF main \in {"serving", "draining"} THEN late ELSE late \cup {r}
      /\ UNCHANGED <<main, run, batch, exported, aborted>>
  BY Zenon DEF Proc!Finish
<1>3. PICK cut \in Seq(Requests), rest \in Seq(Requests) :
           /\ queue = cut \o rest /\ queue' = Append(rest, r)
           /\ shed' = shed \cup Proc!Range(cut) /\ Len(rest) + 1 <= MaxQueue
  BY <1>2, EnqueueCuts, Zenon
<1>4. /\ ended' \in Seq(Requests) /\ r \notin Proc!Range(ended)
      /\ Proc!Range(ended)' = Proc!Range(ended) \cup {r}
      /\ Proc!IsInjective(ended)'
      /\ Ord \subseteq Ord' /\ \A x \in Proc!Range(ended) : <<x, r>> \in Ord'
  BY EndedLast, Zenon
<1>5. /\ Proc!Range(queue) = Proc!Range(cut) \cup Proc!Range(rest)
      /\ InOrder(rest, Ord) /\ Precedes(cut, rest, Ord)
  <2>1. InOrder(cut \o rest, Ord)
    BY <1>1, <1>3, Zenon DEF Ordered
  <2>2. Proc!Range(cut \o rest) = Proc!Range(cut) \cup Proc!Range(rest)
    BY <1>3, JoinedRange
  <2>3. InOrder(rest, Ord) /\ Precedes(cut, rest, Ord)
    BY <1>3, <2>1, OrderOfParts, Zenon
  <2> QED BY <1>3, <2>2, <2>3, Zenon
<1>6. /\ Proc!Range(exported) \subseteq Proc!Range(ended) /\ Proc!Range(batch) \subseteq Proc!Range(ended)
      /\ Proc!Range(cut) \subseteq Proc!Range(ended) /\ Proc!Range(rest) \subseteq Proc!Range(ended)
  BY <1>1, <1>5, Zenon DEF Placed, Held
<1>7. /\ queue' \in Seq(Requests) /\ Len(queue') <= MaxQueue
      /\ Proc!Range(queue)' = Proc!Range(rest) \cup {r}
      /\ InOrder(rest, Ord') /\ (\A y \in Proc!Range(rest) : <<y, r>> \in Ord') => InOrder(queue', Ord')
  <2>1. /\ Append(rest, r) \in Seq(Requests) /\ Len(Append(rest, r)) = Len(rest) + 1
        /\ Proc!Range(Append(rest, r)) = Proc!Range(rest) \cup {r}
        /\ InOrder(rest, Ord') /\ (\A y \in Proc!Range(rest) : <<y, r>> \in Ord')
             => InOrder(Append(rest, r), Ord')
    BY <1>3, Appending, Zenon
  <2> QED BY <1>3, <2>1, Zenon
<1>8. ProcTypes'
  <2>1. req' \in [Requests -> {"new", "running", "done"}]
    BY <1>1, <1>2, Zenon DEF ProcTypes
  <2>2. ASSUME NEW q \in Requests PROVE req'[q] = "done" <=> q \in Proc!Range(ended)'
    <3>1. req'[q] = "done" <=> q = r \/ req[q] = "done"
      BY <1>1, <1>2 DEF ProcTypes
    <3>2. req[q] = "done" <=> q \in Proc!Range(ended)
      BY <1>1, Zenon DEF ProcTypes, Proc!TypeOK
    <3> QED BY <1>4, <3>1, <3>2, Zenon
  <2>3. Proc!TypeOK'
    BY <1>1, <1>2, <1>4, <1>7, <2>2, Zenon DEF ProcTypes, Proc!TypeOK
  <2> QED BY <1>1, <1>2, <1>4, <1>7, <2>1, <2>3, Zenon DEF ProcTypes
<1>9. Placed'
  <2>1. /\ Proc!Range(exported) \cap Proc!Range(queue) = {}
        /\ Proc!Range(batch) \cap Proc!Range(queue) = {}
        /\ Proc!Range(cut) \cap Proc!Range(rest) = {}
    BY <1>1, <1>5, PlacesAreApart, Zenon DEF Ordered
  <2>2. shed' \subseteq Proc!Range(ended)'
    BY <1>1, <1>3, <1>4, <1>6, Zenon DEF Placed
  <2>3. Held' = Proc!Range(exported) \cup Proc!Range(batch) \cup (Proc!Range(rest) \cup {r})
    BY <1>2, <1>7, Zenon DEF Held
  <2>4. /\ shed \subseteq Proc!Range(ended)
        /\ \A x : x \in Proc!Range(ended) /\ x \notin shed
                    <=> \/ x \in Proc!Range(exported) \/ x \in Proc!Range(batch)
                        \/ x \in Proc!Range(cut) \/ x \in Proc!Range(rest)
    BY <1>1, <1>5, Zenon DEF Placed, Held
  <2>5. ASSUME NEW x PROVE x \in Held' <=> x \in Proc!Range(ended)' \ shed'
    <3>1. x \in Held' <=> \/ x \in Proc!Range(exported) \/ x \in Proc!Range(batch)
                          \/ x \in Proc!Range(rest) \/ x = r
      BY <2>3, Zenon
    <3>2. x \in Proc!Range(ended)' <=> x \in Proc!Range(ended) \/ x = r
      BY <1>4, Zenon
    <3>3. x \in shed' <=> x \in shed \/ x \in Proc!Range(cut)
      BY <1>3, Zenon
    <3>4. x \in Proc!Range(cut) => /\ x \notin Proc!Range(exported) /\ x \notin Proc!Range(batch)
                                   /\ x \notin Proc!Range(rest) /\ x # r
      BY <1>4, <1>5, <1>6, <2>1, Zenon
    <3>5. r \notin shed
      BY <1>4, <2>4, Zenon
    <3> QED BY <2>4, <3>1, <3>2, <3>3, <3>4, <3>5, Zenon
  <2> QED BY <2>2, <2>5, Zenon DEF Placed
<1>10. Ordered'
  <2>1. /\ InOrder(exported, Ord') /\ InOrder(batch, Ord') /\ InOrder(rest, Ord')
        /\ Precedes(exported, batch, Ord')
        /\ Precedes(exported, queue, Ord') /\ Precedes(batch, queue, Ord')
    BY <1>1, <1>4, <1>5, OrderGrows, Zenon DEF Ordered
  <2>2. InOrder(queue', Ord')
    BY <1>4, <1>6, <1>7, <2>1, Zenon
  <2>3. Precedes(exported, queue', Ord')
    BY <1>4, <1>5, <1>6, <1>7, <2>1, Zenon DEF Precedes
  <2>4. Precedes(batch, queue', Ord')
    BY <1>4, <1>5, <1>6, <1>7, <2>1, Zenon DEF Precedes
  <2> QED BY <1>2, <2>1, <2>2, <2>3, <2>4, Zenon DEF Ordered
<1>11. Shutdown'
  <2>1. PastFlush' <=> PastFlush
    BY <1>2, Zenon DEF PastFlush
  <2>2. PastFlush => main \notin {"serving", "draining"}
    BY DEF PastFlush
  <2>3. PastFlush => Proc!Range(queue)' \subseteq late'
    BY <1>1, <1>2, <1>5, <1>7, <2>2, Zenon DEF Shutdown
  <2> QED BY <1>1, <1>2, <2>1, <2>3, Zenon DEF Shutdown
<1> QED BY <1>8, <1>9, <1>10, <1>11, Zenon DEF ProcInv

-----------------------------------------------------------------------------
(* Process: theorems *)

\* The inductive invariant holds of every execution: the places of spans are in
\* order and disjoint, and after the last flush only late spans wait.
THEOREM ProcessInvariance == Proc!Spec => []ProcInv
<1>1. Proc!Init => ProcInv
  <2> SUFFICES ASSUME Proc!Init PROVE ProcInv
    BY Zenon
  <2>1. /\ main = "serving" /\ run = "idle" /\ aborted = FALSE /\ req = [r \in Requests |-> "new"]
        /\ queue = << >> /\ batch = << >> /\ exported = << >> /\ ended = << >>
        /\ shed = {} /\ late = {}
    BY Zenon DEF Proc!Init
  <2>2. Len(<< >>) <= MaxQueue /\ DOMAIN << >> = {}
    BY ProcessAssumption DEF Proc!WellFormed
  <2>3. \A r \in Requests : req[r] = "done" <=> r \in Proc!Range(ended)
    BY <2>1, EmptySpans
  <2>4. Proc!IsInjective(ended)
    BY <2>1, <2>2, Zenon DEF Proc!IsInjective
  <2>5. ProcTypes
    BY <2>1, <2>2, <2>3, <2>4, EmptySpans, Zenon DEF ProcTypes, Proc!TypeOK
  <2>6. Placed /\ Ordered
    BY <2>1, EmptySpans, Zenon DEF Placed, Held, Ordered
  <2>7. Shutdown
    BY <2>1 DEF Shutdown, PastFlush
  <2> QED BY <2>5, <2>6, <2>7, Zenon DEF ProcInv
<1>2. ProcInv /\ [Proc!Next]_(Proc!vars) => ProcInv'
  BY AcceptStep, FinishStep, FlushSteps, QuietProcStep, Zenon DEF Proc!Next, Proc!Ended
<1> QED BY <1>1, <1>2, PTL DEF Proc!Spec

\* Whatever the order in which handlers end, the queue is halved, exports fail
\* and the process shuts down: the collector gets each span once and in the
\* order in which spans ended, the queue keeps its bound, and when main has
\* returned only handlers that outlived the drain have left a span behind.
THEOREM SpansAreKept == Proc!Spec => []SpansAreAccounted
<1>1. ProcInv => SpansAreAccounted
  <2> SUFFICES ASSUME ProcInv PROVE SpansAreAccounted
    BY Zenon
  <2>1. ProcTypes /\ Placed /\ Ordered /\ Shutdown /\ Proc!TypeOK
    BY Zenon DEF ProcInv, ProcTypes
  <2>2. ASSUME main = "exited", ~aborted PROVE Proc!Range(queue \o batch) \subseteq late
    <3>1. PastFlush
      BY <2>2, Zenon DEF PastFlush
    <3>2. batch = << >>
      BY <2>1, <2>2, <3>1 DEF Shutdown
    <3>3. Proc!Range(queue \o batch) = Proc!Range(queue) \cup Proc!Range(batch)
      <4>1. queue \in Seq(Requests) /\ batch \in Seq(Requests)
        BY <2>1, Zenon DEF ProcTypes
      <4> QED BY <4>1, JoinedRange
    <3> QED BY <2>1, <3>1, <3>2, <3>3, EmptySpans, Zenon DEF Shutdown
  <2>3. Proc!NothingLeftBehind
    BY <2>2, Zenon DEF Proc!NothingLeftBehind
  <2> QED BY <2>1, <2>3, PlacesTogether, Zenon DEF SpansAreAccounted
<1> QED BY <1>1, ProcessInvariance, PTL


=============================================================================
