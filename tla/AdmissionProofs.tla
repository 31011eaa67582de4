-------------------------- MODULE AdmissionProofs --------------------------
(***************************************************************************)
(* Proofs about Admission.  Whoever acts as a user has, or recently had,   *)
(* the role it acts with, and a logout is final, for any users, clients,   *)
(* ttl and length of a login.  The limiter keeps the day's counts, for any *)
(* limits, windows and number of handlers.  A request is judged by its     *)
(* sender's address, for any machines, proxies, headers and keys.          *)
(***************************************************************************)
EXTENDS Admission, Sequences, FiniteSetTheorems, TLAPS

-----------------------------------------------------------------------------
(* Counting *)

\* a of at most b + n are admitted when s of the n handlers stray: one more that
\* is counted, and one more by a handler that strays no longer, keep the bound.
LEMMA OneMoreAdmitted ==
    ASSUME NEW a \in Nat, NEW b \in Nat, NEW s \in Nat, NEW n \in Nat, a + s <= b + n,
           NEW m \in {0, 1}
    PROVE  /\ (a + m) + s <= (b + m) + n
           /\ (a + m) + (s - 1) <= b + n
  OBVIOUS

\* The bound without the strays, and with the limit for what was counted.
LEMMA AdmittedWithin ==
    ASSUME NEW a \in Nat, NEW b \in Nat, NEW s \in Nat, NEW n \in Nat, a + s <= b + n,
           NEW d \in Nat, b <= d
    PROVE  a <= d + n
  OBVIOUS

\* Nothing was counted and nobody but s of the n handlers admits.
LEMMA NothingAdmitted == ASSUME NEW s \in Nat, NEW n \in Nat, s <= n PROVE 0 + s <= 0 + n
  OBVIOUS

\* A count within a limit is a number, and one below the limit can grow.
LEMMA CountsWithin ==
    ASSUME NEW limit \in Nat, NEW i \in 0 .. limit
    PROVE  i \in Nat /\ i <= limit /\ (i < limit => i + 1 \in 0 .. limit)
  OBVIOUS

\* A number is at most itself, 0 if it is not above 0, and above 0 after one more.
LEMMA NumberFacts == \A n \in Nat : n <= n /\ (~(n > 0) => n = 0) /\ n + 1 > 0 /\ n + 0 = n
  OBVIOUS

-----------------------------------------------------------------------------
(* Users and sessions: the inductive invariant *)

Tokens == [id : Nat \ {0}, user : Names, role : Roles, exp : Int, secret : Nat]
Actors == [user : Names \cup {"token", "legacy", None}, role : Roles \cup {None}, token : Nat]

Types ==
    /\ now \in Nat /\ secret \in Nat
    /\ users \in [Names -> Roles \cup {"absent"}]
    /\ held \in [Names -> [Roles -> Int]]
    /\ tokens \subseteq Tokens /\ IsFiniteSet(tokens)
    /\ pc \in [Clients -> {"idle", "login", "handling"}]
    /\ as \in [Clients -> Actors]
    /\ since \in [Clients -> Nat]

\* The history is that of the table.
HistoryIsKept ==
    \A u \in Names : \A r \in Roles :
        held[u][r] <= now /\ (users[u] = r => held[u][r] = now)

\* A token lives for the ttl from a login, and the login found the role.
TokensAreRecent ==
    \A t \in tokens : held[t.user][t.role] >= 0 /\ held[t.user][t.role] + Ttl + MaxHold >= t.exp

\* A login found the role when it began, and a request has it from a login or
\* had it when it began.
LoginIsRecent(c) ==
    pc[c] = "login" =>
        /\ as[c].user \in Names /\ as[c].role \in Roles
        /\ held[as[c].user][as[c].role] >= since[c]
        /\ now - since[c] <= MaxHold

Slack(token) == IF token = 0 THEN 0 ELSE Ttl + MaxHold

RequestIsRecent(c) ==
    pc[c] = "handling" /\ as[c].user \in Names =>
        /\ as[c].role \in Roles
        /\ held[as[c].user][as[c].role] >= 0
        /\ held[as[c].user][as[c].role] + Slack(as[c].token) >= since[c]

ClientsAreRecent == \A c \in Clients : LoginIsRecent(c) /\ RequestIsRecent(c)

Recent == Types /\ HistoryIsKept /\ TokensAreRecent /\ ClientsAreRecent

\* The tokens that exist are numbered, and those that were logged out are
\* revoked or signed by an earlier process.
Numbered ==
    /\ \A t \in tokens : t.id <= Cardinality(tokens) /\ t.secret <= secret /\ t.exp <= now + Ttl
    /\ \A i \in left : i \in 1 .. Cardinality(tokens)
    /\ \A t \in tokens : t.id \in left => t.id \in revoke \/ t.secret < secret
    /\ \A c \in Clients : pc[c] = "idle" <=> as[c] = Nobody

\* No entry of the history gets older.
Older == \A u \in Names : \A r \in Roles : held'[u][r] >= held[u][r]

\* Remember keeps the history that of the table.
LEMMA RememberKeeps ==
    ASSUME Types, HistoryIsKept, Remember,
           now' \in Nat, now' >= now, users' \in [Names -> Roles \cup {"absent"}]
    PROVE  /\ held' \in [Names -> [Roles -> Int]]
           /\ HistoryIsKept'
           /\ Older
  BY DEF Types, HistoryIsKept, Remember, Older

\* What is at least m away stays so.
LEMMA NotLess ==
    ASSUME NEW a \in Int, NEW b \in Int, NEW k \in Nat, NEW m \in Nat, b >= a, a + k >= m
    PROVE  b + k >= m /\ (a >= 0 => b >= 0)
  OBVIOUS

\* The time a login may add is a number.
LEMMA SlackType == ASSUME WellFormed, NEW n PROVE Slack(n) \in Nat
  BY DEF WellFormed, Slack

\* The client of a step that does not take part in it.
LEMMA OtherClient ==
    ASSUME WellFormed, Types, Older, held' \in [Names -> [Roles -> Int]],
           NEW c \in Clients, LoginIsRecent(c), RequestIsRecent(c),
           now' = now, pc'[c] = pc[c], as'[c] = as[c], since'[c] = since[c]
    PROVE  LoginIsRecent(c)' /\ RequestIsRecent(c)'
  <1>1. Slack(as[c].token) \in Nat
    BY SlackType, Zenon
  <1>2. since[c] \in Nat
    BY Zenon DEF Types
  <1>3. LoginIsRecent(c)'
    <2>. SUFFICES ASSUME pc[c] = "login"
                  PROVE  /\ as[c].user \in Names /\ as[c].role \in Roles
                         /\ held'[as[c].user][as[c].role] >= since[c]
                         /\ now - since[c] <= MaxHold
      BY Zenon DEF LoginIsRecent
    <2>. DEFINE a == held[as[c].user][as[c].role]
                b == held'[as[c].user][as[c].role]
    <2>1. /\ as[c].user \in Names /\ as[c].role \in Roles
          /\ a >= since[c] /\ now - since[c] <= MaxHold
      BY Zenon DEF LoginIsRecent
    <2>2. a \in Int /\ b \in Int /\ b >= a
      BY <2>1, Zenon DEF Types, Older
    <2>3. b >= since[c]
      <3>. HIDE DEF a, b
      <3>. QED BY <1>2, <2>1, <2>2
    <2>. QED BY <2>1, <2>3, Zenon
  <1>4. ASSUME pc'[c] = "handling", as'[c].user \in Names
        PROVE  /\ as'[c].role \in Roles
               /\ held'[as'[c].user][as'[c].role] >= 0
               /\ held'[as'[c].user][as'[c].role] + Slack(as'[c].token) >= since'[c]
    <2>. DEFINE a == held[as[c].user][as[c].role]
                b == held'[as[c].user][as[c].role]
    <2>1. /\ as[c].user \in Names /\ as[c].role \in Roles
          /\ a >= 0 /\ a + Slack(as[c].token) >= since[c]
      BY <1>4, Zenon DEF RequestIsRecent
    <2>2. a \in Int /\ b \in Int /\ b >= a
      BY <2>1, Zenon DEF Types, Older
    <2>3. b >= 0 /\ b + Slack(as[c].token) >= since[c]
      <3>. HIDE DEF a, b
      <3>. QED BY <1>1, <1>2, <2>1, <2>2, NotLess, Zenon
    <2>. QED BY <2>1, <2>3, Zenon DEF b
  <1>5. RequestIsRecent(c)'
    BY <1>4, Zenon DEF RequestIsRecent
  <1>. QED BY <1>3, <1>5, Zenon

\* A client that is done has nothing to be recent.
LEMMA IdleClient ==
    ASSUME NEW c \in Clients, pc'[c] = "idle"
    PROVE  LoginIsRecent(c)' /\ RequestIsRecent(c)'
  BY Zenon DEF LoginIsRecent, RequestIsRecent

\* Init: nobody acts yet.
LEMMA RecentInit == ASSUME WellFormed, Init PROVE Recent
  <1>1. IsFiniteSet({})
    BY FS_EmptySet, Zenon
  <1>2. Types
    BY <1>1 DEF WellFormed, Init, Types, Actors, Nobody
  <1>. QED
    BY <1>2 DEF WellFormed, Init, Recent, HistoryIsKept, TokensAreRecent, ClientsAreRecent,
                LoginIsRecent, RequestIsRecent

\* A step that ends what a client does.
LEMMA EndStep ==
    ASSUME WellFormed, Types, Older, held' \in [Names -> [Roles -> Int]], ClientsAreRecent,
           NEW c \in Clients, End(c), now' = now
    PROVE  /\ ClientsAreRecent'
           /\ pc' \in [Clients -> {"idle", "login", "handling"}]
           /\ as' \in [Clients -> Actors] /\ since' \in [Clients -> Nat]
  <1>1. /\ pc' \in [Clients -> {"idle", "login", "handling"}]
        /\ since' \in [Clients -> Nat]
    BY Zenon DEF End, Types
  <1>2. Nobody \in Actors
    BY Zenon DEF Nobody, Actors
  <1>3. as' \in [Clients -> Actors]
    BY <1>2, Zenon DEF End, Types
  <1>4. ASSUME NEW d \in Clients PROVE LoginIsRecent(d)' /\ RequestIsRecent(d)'
    <2>1. CASE d = c
      <3>1. pc'[d] = "idle" BY <2>1, Zenon DEF End, Types
      <3>. QED BY <3>1, IdleClient, Zenon
    <2>2. CASE d # c
      <3>1. pc'[d] = pc[d] /\ as'[d] = as[d] /\ since'[d] = since[d]
        BY <2>2, Zenon DEF End, Types
      <3>2. LoginIsRecent(d) /\ RequestIsRecent(d) BY Zenon DEF ClientsAreRecent
      <3>. QED BY <3>1, <3>2, OtherClient, Zenon
    <2>. QED BY <2>1, <2>2, Zenon
  <1>. QED BY <1>1, <1>3, <1>4, Zenon DEF ClientsAreRecent

\* A step that begins something for a client, with a role that is recent.
LEMMA BeginStep ==
    ASSUME WellFormed, Types, ClientsAreRecent, UNCHANGED <<now, held>>,
           NEW c \in Clients, NEW step \in {"login", "handling"}, NEW who \in Actors,
           Begin(c, step, who),
           step = "login" => /\ who.user \in Names /\ who.role \in Roles
                             /\ held[who.user][who.role] >= now,
           who.user \in Names => /\ who.role \in Roles
                                 /\ held[who.user][who.role] >= 0
                                 /\ held[who.user][who.role] + Slack(who.token) >= now
    PROVE  /\ ClientsAreRecent'
           /\ pc' \in [Clients -> {"idle", "login", "handling"}]
           /\ as' \in [Clients -> Actors] /\ since' \in [Clients -> Nat]
  <1>1. /\ pc' \in [Clients -> {"idle", "login", "handling"}]
        /\ as' \in [Clients -> Actors] /\ since' \in [Clients -> Nat]
    BY Zenon DEF Begin, Types
  <1>2. Older /\ held' \in [Names -> [Roles -> Int]]
    BY DEF Older, Types
  <1>3. ASSUME NEW d \in Clients PROVE LoginIsRecent(d)' /\ RequestIsRecent(d)'
    <2>1. CASE d = c
      <3>1. pc'[c] = step /\ as'[c] = who /\ since'[c] = now
        BY Zenon DEF Begin, Types
      <3>2. LoginIsRecent(c)'
        BY <3>1 DEF LoginIsRecent, Types, WellFormed
      <3>3. RequestIsRecent(c)'
        BY <3>1, Zenon DEF RequestIsRecent
      <3>. QED BY <2>1, <3>2, <3>3, Zenon
    <2>2. CASE d # c
      <3>1. pc'[d] = pc[d] /\ as'[d] = as[d] /\ since'[d] = since[d]
        BY <2>2, Zenon DEF Begin, Types
      <3>2. LoginIsRecent(d) /\ RequestIsRecent(d) BY Zenon DEF ClientsAreRecent
      <3>. QED BY <1>2, <3>1, <3>2, OtherClient, Zenon
    <2>. QED BY <2>1, <2>2, Zenon
  <1>. QED BY <1>1, <1>3, Zenon DEF ClientsAreRecent

\* Tokens stay recent when the history does not get older.
LEMMA TokensStay ==
    ASSUME WellFormed, Types, TokensAreRecent, Older, held' \in [Names -> [Roles -> Int]],
           tokens' = tokens
    PROVE  TokensAreRecent'
  <1>. SUFFICES ASSUME NEW t \in tokens
                PROVE  held'[t.user][t.role] >= 0 /\ held'[t.user][t.role] + Ttl + MaxHold >= t.exp
    BY Zenon DEF TokensAreRecent
  <1>1. t \in Tokens
    BY Zenon DEF Types
  <1>2. t.user \in Names /\ t.role \in Roles /\ t.exp \in Int
    BY <1>1, Zenon DEF Tokens
  <1>3. /\ held[t.user][t.role] \in Int /\ held'[t.user][t.role] \in Int
        /\ held'[t.user][t.role] >= held[t.user][t.role]
    BY <1>2, Zenon DEF Types, Older
  <1>. QED BY <1>2, <1>3 DEF TokensAreRecent, WellFormed

\* Every step keeps the bounds: one case for each action.
LEMMA RecentStep == ASSUME WellFormed, Recent, [Next]_vars PROVE Recent'
  <1>. USE DEF Recent
  <1>a. UNCHANGED held => Older /\ held' \in [Names -> [Roles -> Int]]
    BY DEF Older, Types
  <1>1. ASSUME NEW c \in Clients, NEW u \in Names, Login(c, u) PROVE Recent'
    <2>. DEFINE who == [user |-> u, role |-> users[u], token |-> 0]
    <2>1. users[u] \in Roles /\ held[u][users[u]] = now
      BY <1>1, Zenon DEF Login, Types, HistoryIsKept
    <2>2. who \in Actors /\ Slack(who.token) = 0
      BY <2>1, Zenon DEF Actors, Slack
    <2>3. UNCHANGED <<now, users, secret, tokens, held>> /\ Begin(c, "login", who)
      BY <1>1, Zenon DEF Login
    <2>4. who.user = u /\ who.role = users[u] /\ now \in Nat
      BY Zenon DEF Types
    <2>. HIDE DEF who
    <2>5. /\ ClientsAreRecent' /\ pc' \in [Clients -> {"idle", "login", "handling"}]
          /\ as' \in [Clients -> Actors] /\ since' \in [Clients -> Nat]
      BY <2>1, <2>2, <2>3, <2>4, BeginStep
    <2>. QED
      BY <2>3, <2>5, Zenon DEF Types, HistoryIsKept, TokensAreRecent
  <1>2. ASSUME NEW c \in Clients, Mint(c) PROVE Recent'
    <2>. DEFINE t == [id |-> Cardinality(tokens) + 1, user |-> as[c].user,
                      role |-> as[c].role, exp |-> now + Ttl, secret |-> secret]
    <2>1. Cardinality(tokens) \in Nat /\ IsFiniteSet(tokens \cup {t})
      BY FS_CardinalityType, FS_AddElement, Zenon DEF Types
    <2>2. LoginIsRecent(c) /\ pc[c] = "login" /\ since[c] \in Nat
      BY <1>2, Zenon DEF Mint, ClientsAreRecent, Types
    <2>3. as[c].user \in Names /\ as[c].role \in Roles
      BY <2>2, Zenon DEF LoginIsRecent
    <2>4. Cardinality(tokens) + 1 \in Nat \ {0} /\ now + Ttl \in Int /\ secret \in Nat
      BY <2>1 DEF Types, WellFormed
    <2>5. t \in Tokens
      BY <2>3, <2>4, Zenon DEF Tokens
    <2>6. tokens' = tokens \cup {t} /\ End(c) /\ UNCHANGED <<now, users, secret, held>>
      BY <1>2, Zenon DEF Mint
    <2>7. held[as[c].user][as[c].role] >= 0 /\ held[as[c].user][as[c].role] + Ttl + MaxHold >= now + Ttl
      <3>. DEFINE a == held[as[c].user][as[c].role]
      <3>0. held \in [Names -> [Roles -> Int]] /\ now \in Nat /\ Ttl \in Nat /\ MaxHold \in Nat
        BY Zenon DEF Types, WellFormed
      <3>1. a \in Int
        BY <2>3, <3>0, Zenon
      <3>2. a >= since[c] /\ now - since[c] <= MaxHold
        BY <2>2, Zenon DEF LoginIsRecent
      <3>. HIDE DEF a
      <3>3. a >= 0 /\ a + Ttl + MaxHold >= now + Ttl
        BY <2>2, <3>0, <3>1, <3>2
      <3>. QED BY <3>3, Zenon DEF a
    <2>8. t.user = as[c].user /\ t.role = as[c].role /\ t.exp = now + Ttl
      BY Zenon
    <2>. HIDE DEF t
    <2>9. TokensAreRecent' /\ HistoryIsKept'
      BY <2>6, <2>7, <2>8, Zenon DEF TokensAreRecent, HistoryIsKept
    <2>10. /\ ClientsAreRecent' /\ pc' \in [Clients -> {"idle", "login", "handling"}]
           /\ as' \in [Clients -> Actors] /\ since' \in [Clients -> Nat]
      BY <1>a, <2>6, EndStep, Zenon
    <2>. QED
      BY <2>1, <2>5, <2>6, <2>9, <2>10, Zenon DEF Types
  <1>3. ASSUME NEW c \in Clients, LoginFails(c) \/ Other(c) PROVE Recent'
    <2>1. End(c) /\ UNCHANGED <<now, users, secret, tokens, held>>
      BY <1>3, Zenon DEF LoginFails, Other
    <2>2. /\ ClientsAreRecent' /\ pc' \in [Clients -> {"idle", "login", "handling"}]
          /\ as' \in [Clients -> Actors] /\ since' \in [Clients -> Nat]
      BY <1>a, <2>1, EndStep, Zenon
    <2>. QED
      BY <2>1, <2>2, Zenon DEF Types, HistoryIsKept, TokensAreRecent
  <1>4. ASSUME NEW t \in tokens, Logout(t) PROVE Recent'
    BY <1>4, Zenon DEF Logout, Types, HistoryIsKept, TokensAreRecent, ClientsAreRecent, LoginIsRecent,
                RequestIsRecent
  <1>5. ASSUME NEW c \in Clients, Authenticate(c) PROVE Recent'
    <2>1. UNCHANGED <<now, users, secret, tokens, held>>
      BY <1>5, Zenon DEF Authenticate
    <2>2. PICK who \in Actors :
               /\ Begin(c, "handling", who)
               /\ who.user \in Names => /\ who.role \in Roles
                                        /\ held[who.user][who.role] >= 0
                                        /\ held[who.user][who.role] + Slack(who.token) >= now
      <3>1. CASE \E t \in tokens :
                     /\ Verify(t)
                     /\ Begin(c, "handling", [user |-> t.user, role |-> t.role, token |-> t.id])
        <4>1. PICK t \in tokens :
                     /\ Verify(t)
                     /\ Begin(c, "handling", [user |-> t.user, role |-> t.role, token |-> t.id])
          BY <3>1, Zenon
        <4>2. t \in Tokens /\ now <= t.exp
          BY <4>1, Zenon DEF Types, Verify
        <4>3. t.user \in Names /\ t.role \in Roles /\ t.id \in Nat /\ t.id # 0 /\ t.exp \in Int
          BY <4>2, Zenon DEF Tokens
        <4>4. held[t.user][t.role] \in Int /\ now \in Nat
          BY <4>3, Zenon DEF Types
        <4>5. held[t.user][t.role] >= 0 /\ held[t.user][t.role] + Slack(t.id) >= now
          BY <4>2, <4>3, <4>4 DEF TokensAreRecent, Slack, WellFormed
        <4>. QED
          BY <4>1, <4>3, <4>5 DEF Actors
      <3>2. CASE \E u \in Names :
                     /\ users[u] # "absent"
                     /\ Begin(c, "handling", [user |-> u, role |-> users[u], token |-> 0])
        <4>1. PICK u \in Names :
                     /\ users[u] # "absent"
                     /\ Begin(c, "handling", [user |-> u, role |-> users[u], token |-> 0])
          BY <3>2, Zenon
        <4>2. users[u] \in Roles /\ held[u][users[u]] = now /\ now \in Nat
          BY <4>1, Zenon DEF Types, HistoryIsKept
        <4>. QED
          BY <4>1, <4>2 DEF Actors, Slack
      <3>3. CASE \/ Begin(c, "handling", [user |-> "token", role |-> "super_admin", token |-> 0])
                 \/ Begin(c, "handling", [user |-> "legacy", role |-> "admin", token |-> 0])
        BY <3>3 DEF Actors, Roles, WellFormed
      <3>. QED BY <1>5, <3>1, <3>2, <3>3, Zenon DEF Authenticate
    <2>3. /\ ClientsAreRecent' /\ pc' \in [Clients -> {"idle", "login", "handling"}]
          /\ as' \in [Clients -> Actors] /\ since' \in [Clients -> Nat]
      BY <2>1, <2>2, BeginStep, Zenon
    <2>. QED
      BY <2>1, <2>3, Zenon DEF Types, HistoryIsKept, TokensAreRecent
  <1>6. ASSUME NEW c \in Clients, ManageUsers(c) PROVE Recent'
    <2>1. users' \in [Names -> Roles \cup {"absent"}]
      BY <1>6, Zenon DEF ManageUsers, NormalizeRole, Types, Roles
    <2>2. Remember /\ End(c) /\ UNCHANGED <<now, secret, tokens>> /\ now' \in Nat /\ now' >= now
      BY <1>6 DEF ManageUsers, Types
    <2>3. held' \in [Names -> [Roles -> Int]] /\ HistoryIsKept' /\ Older
      BY <2>1, <2>2, RememberKeeps, Zenon
    <2>4. /\ ClientsAreRecent' /\ pc' \in [Clients -> {"idle", "login", "handling"}]
          /\ as' \in [Clients -> Actors] /\ since' \in [Clients -> Nat]
      BY <2>2, <2>3, EndStep, Zenon
    <2>5. TokensAreRecent'
      BY <2>2, <2>3, TokensStay, Zenon
    <2>. QED BY <2>1, <2>2, <2>3, <2>4, <2>5, Zenon DEF Types
  <1>7. CASE Restart
    <2>1. /\ Remember /\ UNCHANGED <<now, tokens>> /\ now' \in Nat /\ now' >= now
          /\ users' \in [Names -> Roles \cup {"absent"}]
      BY <1>7 DEF Restart, Types, WellFormed
    <2>2. held' \in [Names -> [Roles -> Int]] /\ HistoryIsKept' /\ Older
      BY <2>1, RememberKeeps, Zenon
    <2>3. Types'
      BY <1>7, <2>1, <2>2 DEF Restart, Nobody, Types, Actors
    <2>4. TokensAreRecent'
      BY <2>1, <2>2, TokensStay, Zenon
    <2>5. ClientsAreRecent'
      BY <1>7, IdleClient, Zenon DEF Restart, ClientsAreRecent
    <2>. QED BY <2>2, <2>3, <2>4, <2>5, Zenon
  <1>8. CASE Tick
    <2>1. /\ Remember /\ UNCHANGED <<users, secret, tokens, pc, as, since>>
          /\ now' = now + 1 /\ now' \in Nat /\ now' >= now
          /\ users' \in [Names -> Roles \cup {"absent"}]
      BY <1>8 DEF Tick, Types
    <2>2. held' \in [Names -> [Roles -> Int]] /\ HistoryIsKept' /\ Older
      BY <2>1, RememberKeeps, Zenon
    <2>3. Types'
      BY <2>1, <2>2, Zenon DEF Types
    <2>4. TokensAreRecent'
      BY <2>1, <2>2, TokensStay, Zenon
    <2>5. ASSUME NEW c \in Clients PROVE LoginIsRecent(c)' /\ RequestIsRecent(c)'
      <3>1. LoginIsRecent(c) /\ RequestIsRecent(c) /\ since[c] \in Nat /\ now \in Nat
        BY Zenon DEF ClientsAreRecent, Types
      <3>2. pc[c] # "idle" => now' - since[c] <= MaxHold
        BY <1>8, <3>1 DEF Tick, WellFormed
      <3>3. \A u \in Names : \A r \in Roles :
                held[u][r] \in Int /\ held'[u][r] \in Int /\ held'[u][r] >= held[u][r]
        BY <2>2, Zenon DEF Types, Older
      <3>. DEFINE a == held[as[c].user][as[c].role]
                  b == held'[as[c].user][as[c].role]
      <3>4. LoginIsRecent(c)'
        <4>. SUFFICES ASSUME pc[c] = "login"
                      PROVE  /\ as[c].user \in Names /\ as[c].role \in Roles
                             /\ b >= since[c] /\ now' - since[c] <= MaxHold
          BY <2>1, Zenon DEF LoginIsRecent
        <4>1. as[c].user \in Names /\ as[c].role \in Roles /\ a >= since[c]
          BY <3>1, Zenon DEF LoginIsRecent
        <4>2. a \in Int /\ b \in Int /\ b >= a
          BY <3>3, <4>1, Zenon
        <4>3. b >= since[c]
          <5>. HIDE DEF a, b
          <5>. QED BY <3>1, <4>1, <4>2
        <4>. QED BY <3>2, <4>1, <4>3, Zenon
      <3>5. Slack(as[c].token) \in Nat
        BY SlackType, Zenon
      <3>6. RequestIsRecent(c)'
        <4>. SUFFICES ASSUME pc[c] = "handling", as[c].user \in Names
                      PROVE  /\ as[c].role \in Roles /\ b >= 0
                             /\ b + Slack(as[c].token) >= since[c]
          BY <2>1, Zenon DEF RequestIsRecent
        <4>1. as[c].role \in Roles /\ a >= 0 /\ a + Slack(as[c].token) >= since[c]
          BY <3>1, Zenon DEF RequestIsRecent
        <4>2. a \in Int /\ b \in Int /\ b >= a
          BY <3>3, <4>1, Zenon
        <4>3. b >= 0 /\ b + Slack(as[c].token) >= since[c]
          <5>. HIDE DEF a, b
          <5>. QED BY <3>1, <3>5, <4>1, <4>2, NotLess, Zenon
        <4>. QED BY <4>1, <4>3, Zenon
      <3>. QED BY <3>4, <3>6, Zenon
    <2>6. ClientsAreRecent'
      BY <2>5, Zenon DEF ClientsAreRecent
    <2>. QED BY <2>2, <2>3, <2>4, <2>6, Zenon
  <1>9. CASE UNCHANGED vars
    BY <1>9, Zenon DEF vars, Types, HistoryIsKept, TokensAreRecent, ClientsAreRecent, LoginIsRecent,
                RequestIsRecent
  <1>. QED
    BY <1>1, <1>2, <1>3, <1>4, <1>5, <1>6, <1>7, <1>8, <1>9, Zenon DEF Next

-----------------------------------------------------------------------------
(* Users and sessions: tokens and logouts *)

\* A step of one client that leaves the tokens alone.
LEMMA ClientStep ==
    ASSUME Types, Numbered, NEW c \in Clients, UNCHANGED <<now, tokens, secret, revoke, left>>,
           \/ End(c)
           \/ \E step, who : step # "idle" /\ who # Nobody /\ Begin(c, step, who)
    PROVE  Numbered'
<1>1. /\ \A t \in tokens' : t.id <= Cardinality(tokens)' /\ t.secret <= secret' /\ t.exp <= now' + Ttl
      /\ \A i \in left' : i \in 1 .. Cardinality(tokens)'
      /\ \A t \in tokens' : t.id \in left' => t.id \in revoke' \/ t.secret < secret'
  BY Zenon DEF Numbered
<1>2. ASSUME NEW d \in Clients PROVE pc'[d] = "idle" <=> as'[d] = Nobody
  <2>1. pc[d] = "idle" <=> as[d] = Nobody
    BY Zenon DEF Numbered
  <2>2. CASE End(c)
    BY <2>1, <2>2, Zenon DEF End, Types
  <2>3. ASSUME NEW step, NEW who, step # "idle", who # Nobody, Begin(c, step, who)
        PROVE  pc'[d] = "idle" <=> as'[d] = Nobody
    BY <2>1, <2>3, Zenon DEF Begin, Types
  <2> QED BY <2>2, <2>3, Zenon
<1> QED BY <1>1, <1>2, Zenon DEF Numbered, Nobody

\* A step of the sessions keeps the tokens numbered.
LEMMA NumberedStep ==
    ASSUME Recent, Numbered, [Next]_vars
    PROVE  Numbered'
<1>. Types /\ None \notin Roles
  BY AccessAssumption, Zenon DEF Recent, WellFormed
<1>1. ASSUME NEW c \in Clients, NEW u \in Names, Login(c, u) PROVE Numbered'
  <2> DEFINE who == [user |-> u, role |-> users[u], token |-> 0]
  <2>1. users[u] \in Roles
    BY <1>1, Zenon DEF Login, Types
  <2>2. who # Nobody
    BY <2>1, Zenon DEF Nobody
  <2> HIDE DEF who
  <2>3. Begin(c, "login", who) /\ UNCHANGED <<now, tokens, secret, revoke, left>>
    BY <1>1, Zenon DEF Login, who
  <2>4. "login" # "idle"
    BY Zenon
  <2> QED BY <2>2, <2>3, <2>4, ClientStep, Zenon
<1>2. ASSUME NEW c \in Clients, LoginFails(c) PROVE Numbered'
  BY <1>2, ClientStep, Zenon DEF LoginFails
<1>3. ASSUME NEW c \in Clients, Mint(c) PROVE Numbered'
  <2> DEFINE n == Cardinality(tokens)
             x == [id |-> n + 1, user |-> as[c].user, role |-> as[c].role,
                   exp |-> now + Ttl, secret |-> secret]
  <2>1. tokens' = tokens \cup {x} /\ UNCHANGED <<now, secret, revoke, left>> /\ End(c)
    BY <1>3, Zenon DEF Mint
  <2>2. n \in Nat /\ IsFiniteSet(tokens)
    BY FS_CardinalityType, Zenon DEF Types
  <2>3. x.id = n + 1 /\ x.secret = secret /\ x.exp = now + Ttl
    BY Zenon
  <2> HIDE DEF x
  <2>4. x \notin tokens
    BY <2>2, <2>3 DEF Numbered
  <2>5. Cardinality(tokens') = n + 1
    BY <2>1, <2>2, <2>4, FS_AddElement, Zenon
  <2>6. \A t \in tokens : t.id \in Nat /\ t.secret \in Nat
    BY Zenon DEF Types, Tokens
  <2>7. now \in Nat /\ secret \in Nat /\ Ttl \in Nat
    BY AccessAssumption, Zenon DEF Types, WellFormed
  <2> HIDE DEF n
  <2>8. /\ \A t \in tokens' : t.id <= n + 1 /\ t.secret <= secret /\ t.exp <= now + Ttl
        /\ \A i \in left : i \in 1 .. n + 1
        /\ \A t \in tokens' : t.id \in left => t.id \in revoke \/ t.secret < secret
    <3>1. \A t \in tokens : t.id <= n /\ t.secret <= secret /\ t.exp <= now + Ttl
      BY Zenon DEF Numbered, n
    <3>2. \A i \in left : i \in 1 .. n
      BY Zenon DEF Numbered, n
    <3>3. \A t \in tokens : t.id \in left => t.id \in revoke \/ t.secret < secret
      BY Zenon DEF Numbered
    <3>4. x.id \notin left
      BY <2>2, <2>3, <3>2
    <3> QED BY <2>1, <2>2, <2>3, <2>6, <2>7, <3>1, <3>2, <3>3, <3>4
  <2>9. ASSUME NEW d \in Clients PROVE pc'[d] = "idle" <=> as'[d] = Nobody
    BY <2>1, Zenon DEF End, Types, Numbered
  <2> QED BY <2>1, <2>5, <2>8, <2>9, Zenon DEF Numbered, Nobody
<1>4. ASSUME NEW t \in tokens, Logout(t) PROVE Numbered'
  <2>1. /\ revoke' = revoke \cup {t.id} /\ left' = left \cup {t.id}
        /\ UNCHANGED <<now, tokens, secret, pc, as>>
    BY <1>4, Zenon DEF Logout
  <2>2. t.id \in 1 .. Cardinality(tokens)
    <3>1. t.id \in Nat \ {0} /\ t.id <= Cardinality(tokens) /\ Cardinality(tokens) \in Nat
      BY FS_CardinalityType, Zenon DEF Types, Tokens, Numbered
    <3> QED BY <3>1
  <2> QED BY <2>1, <2>2, Zenon DEF Numbered, Nobody
<1>5. ASSUME NEW c \in Clients, Authenticate(c) PROVE Numbered'
  <2>1. UNCHANGED <<now, tokens, secret, revoke, left>>
    BY <1>5, Zenon DEF Authenticate
  <2>2. PICK who : who.role \in Roles /\ Begin(c, "handling", who)
    <3>1. \A t \in tokens : t.role \in Roles
      BY Zenon DEF Types, Tokens
    <3>2. \A u \in Names : users[u] # "absent" => users[u] \in Roles
      BY Zenon DEF Types
    <3> DEFINE Found == \E who : who.role \in Roles /\ Begin(c, "handling", who)
    <3>3. ASSUME Begin(c, "handling", [user |-> "token", role |-> "super_admin", token |-> 0])
          PROVE  Found
      BY <3>3 DEF Roles
    <3>4. ASSUME Begin(c, "handling", [user |-> "legacy", role |-> "admin", token |-> 0])
          PROVE  Found
      BY <3>4 DEF Roles
    <3>5. ASSUME NEW t \in tokens,
                 Begin(c, "handling", [user |-> t.user, role |-> t.role, token |-> t.id])
          PROVE  Found
      <4>1. [user |-> t.user, role |-> t.role, token |-> t.id].role \in Roles
        BY <3>1, Zenon
      <4> QED BY <3>5, <4>1, Zenon
    <3>6. ASSUME NEW u \in Names, users[u] # "absent",
                 Begin(c, "handling", [user |-> u, role |-> users[u], token |-> 0])
          PROVE  Found
      <4>1. [user |-> u, role |-> users[u], token |-> 0].role \in Roles
        BY <3>2, <3>6, Zenon
      <4> QED BY <3>6, <4>1, Zenon
    <3> HIDE DEF Found
    <3>7. Found
      BY <1>5, <3>3, <3>4, <3>5, <3>6, Zenon DEF Authenticate
    <3> QED BY <3>7, Zenon DEF Found
  <2>3. who # Nobody
    BY <2>2 DEF Nobody
  <2>4. "handling" # "idle"
    BY Zenon
  <2> QED BY <2>1, <2>2, <2>3, <2>4, ClientStep, Zenon
<1>6. ASSUME NEW c \in Clients, ManageUsers(c) \/ Other(c) PROVE Numbered'
  BY <1>6, ClientStep, Zenon DEF ManageUsers, Other
<1>7. CASE Restart
  <2>1. /\ secret' = secret + 1 /\ revoke' = {} /\ UNCHANGED <<now, tokens, left>>
        /\ pc' = [c \in Clients |-> "idle"] /\ as' = [c \in Clients |-> Nobody]
    BY <1>7, Zenon DEF Restart
  <2>2. secret \in Nat /\ \A t \in tokens : t.secret \in Nat /\ t.secret <= secret
    BY Zenon DEF Types, Tokens, Numbered
  <2>3. \A t \in tokens : t.secret < secret' /\ t.secret <= secret'
    BY <2>1, <2>2
  <2>4. Nobody' = Nobody
    BY Zenon DEF Nobody
  <2> QED BY <2>1, <2>3, <2>4, Zenon DEF Numbered
<1>8. CASE Tick
  <2>1. now' = now + 1 /\ UNCHANGED <<secret, tokens, revoke, pc, as, left>>
    BY <1>8, Zenon DEF Tick
  <2>2. now \in Nat /\ Ttl \in Nat /\ \A t \in tokens : t.exp \in Int /\ t.exp <= now + Ttl
    BY AccessAssumption, Zenon DEF Types, Tokens, Numbered, WellFormed
  <2>3. \A t \in tokens : t.exp <= now' + Ttl
    BY <2>1, <2>2
  <2> QED BY <2>1, <2>3, Zenon DEF Numbered, Nobody
<1>9. CASE UNCHANGED vars
  BY <1>9, Zenon DEF vars, Numbered, Nobody
<1> QED BY <1>1, <1>2, <1>3, <1>4, <1>5, <1>6, <1>7, <1>8, <1>9, Zenon DEF Next

\* The invariant of the users and their sessions.
THEOREM SessionsInvariance == Spec => [](Recent /\ Numbered)
<1>1. Init => Recent /\ Numbered
  <2>1. ASSUME Init PROVE Recent
    BY <2>1, AccessAssumption, RecentInit, Zenon
  <2>2. ASSUME Init PROVE Numbered
    BY <2>2, Zenon DEF Init, Numbered
  <2> QED BY <2>1, <2>2, Zenon
<1>2. Recent /\ Numbered /\ [Next]_vars => Recent' /\ Numbered'
  BY AccessAssumption, RecentStep, NumberedStep, Zenon
<1> QED BY <1>1, <1>2, PTL DEF Spec

\* Whoever acts as a user had the role when the request began, or no longer
\* before than the ttl of a session and the time of a login.
THEOREM AdminRolesAreRecent == Spec => []RolesAreRecent
  <1>1. Recent => ActorsHadTheRole
    <2>. SUFFICES ASSUME Recent, NEW c \in Clients, pc[c] = "handling", as[c].user \in Names
                  PROVE  /\ held[as[c].user][as[c].role] >= 0
                         /\ Age(c) <= (now - since[c])
                               + IF as[c].token = 0 THEN 0 ELSE Ttl + MaxHold
      BY Zenon DEF ActorsHadTheRole
    <2>1. RequestIsRecent(c) /\ since[c] \in Nat /\ now \in Nat
      BY Zenon DEF Recent, Types, ClientsAreRecent
    <2>2. as[c].role \in Roles
      BY <2>1, Zenon DEF RequestIsRecent
    <2>. DEFINE a == held[as[c].user][as[c].role]
                k == Slack(as[c].token)
    <2>3. a \in Int /\ k \in Nat
      BY <2>2, AccessAssumption, SlackType, Zenon DEF Recent, Types
    <2>4. a >= 0 /\ a + k >= since[c]
      BY <2>1, Zenon DEF RequestIsRecent
    <2>5. now - a <= (now - since[c]) + k
      <3>. HIDE DEF a, k
      <3>. QED BY <2>1, <2>3, <2>4
    <2>. QED
      BY <2>4, <2>5, Zenon DEF Slack, Age
  <1>2. Recent /\ Numbered => TypeOK
    BY Zenon DEF Recent, Types, Tokens, Numbered, TypeOK
  <1>. QED BY <1>1, <1>2, SessionsInvariance, PTL DEF RolesAreRecent

\* A token that was used to log out authenticates no request, although a restart
\* forgets the list of revoked tokens.
THEOREM LogoutsAreFinal == Spec => LogoutIsFinal
<1>1. Recent /\ Numbered /\ [Next]_vars => [NotAfterLogout]_vars
  <2> SUFFICES ASSUME Recent, Numbered, Next, NEW c \in Clients,
                      pc[c] = "idle", pc'[c] = "handling"
               PROVE  as'[c].token \notin left
    BY Zenon DEF NotAfterLogout
  <2>. Types
    BY Zenon DEF Recent
  <2>1. ASSUME NEW d \in Clients, NEW who, Begin(d, "handling", who), who.token \notin left
        PROVE  as'[c].token \notin left
    <3>1. c = d
      BY <2>1, Zenon DEF Begin, Types
    <3> QED BY <2>1, <3>1, Zenon DEF Begin, Types
  <2>2. 0 \notin left
    BY DEF Numbered
  <2>3. ASSUME NEW d \in Clients, Authenticate(d) PROVE as'[c].token \notin left
    <3>1. CASE Begin(d, "handling", [user |-> "token", role |-> "super_admin", token |-> 0])
      BY <2>1, <2>2, <3>1
    <3>2. CASE Begin(d, "handling", [user |-> "legacy", role |-> "admin", token |-> 0])
      BY <2>1, <2>2, <3>2
    <3>3. ASSUME NEW u \in Names,
                 Begin(d, "handling", [user |-> u, role |-> users[u], token |-> 0])
          PROVE  as'[c].token \notin left
      BY <2>1, <2>2, <3>3
    <3>4. ASSUME NEW t \in tokens, Verify(t),
                 Begin(d, "handling", [user |-> t.user, role |-> t.role, token |-> t.id])
          PROVE  as'[c].token \notin left
      <4>1. t.id \notin left
        <5>1. t.secret = secret /\ t.id \notin revoke /\ secret \in Nat
          BY <3>4, Zenon DEF Verify, Types
        <5> QED BY <5>1 DEF Numbered
      <4> QED BY <2>1, <3>4, <4>1
    <3> QED BY <2>3, <3>1, <3>2, <3>3, <3>4, Zenon DEF Authenticate
  <2>4. ASSUME NEW d \in Clients, End(d) PROVE FALSE
    BY <2>4, Zenon DEF End, Types
  <2>5. ASSUME NEW d \in Clients, NEW u \in Names, Login(d, u) PROVE FALSE
    BY <2>5, Zenon DEF Login, Begin, Types
  <2>6. ASSUME UNCHANGED pc PROVE FALSE
    BY <2>6, Zenon
  <2>7. ASSUME Restart PROVE FALSE
    BY <2>7, Zenon DEF Restart
  <2> QED BY <2>3, <2>4, <2>5, <2>6, <2>7, Zenon
          DEF Next, Mint, LoginFails, Logout, ManageUsers, Other, Tick
<1> QED BY <1>1, SessionsInvariance, PTL DEF Spec, LogoutIsFinal

-----------------------------------------------------------------------------
(* The limiter: the inductive invariant *)

Today == Limiter!DayOf(clock)

BucketFields == [window : Nat, day : Nat, count : 0 .. Rpm, dayCount : 0 .. DailyReq, dayTokens : Nat]

LimiterTypes ==
    /\ clock \in Nat /\ map \in Buckets \cup {None}
    /\ fields \in [Buckets -> BucketFields]
    /\ lpc \in [Clients -> {"idle", "reserve", "add"}]
    /\ bucket \in [Clients -> Buckets \cup {None}]
    /\ admits \in Nat /\ spent \in Nat /\ lost \in BOOLEAN
    /\ \A o \in Buckets : fields[o].day <= Today /\ fields[o].window <= clock
    /\ \A c \in Clients : lpc[c] = "idle" <=> bucket[c] = None

\* What a bucket says of today; one that was not used today says nothing.
Counted(o) == IF o # None /\ fields[o].day = Today THEN fields[o].dayCount ELSE 0
Tokened(o) == IF o # None /\ fields[o].day = Today THEN fields[o].dayTokens ELSE 0

\* Handlers that hold a bucket which the collector has dropped.
Strays == {c \in Clients : bucket[c] # None /\ bucket[c] # map}

\* Until a held bucket is dropped the bucket in the map has counted everything.
Exact == ~lost => Strays = {} /\ admits = Counted(map) /\ spent = Tokened(map)

\* After that each handler that strays may admit one more.
Overshoot == lost => admits + Cardinality(Strays) <= Counted(map) + Cardinality(Clients)

\* No second bucket is dropped on the same day: the next one is new and about to
\* be used, or has been used.
InUse ==
    lost /\ map # None =>
        /\ fields[map].day = Today
        /\ \/ fields[map].dayCount > 0 \/ fields[map].dayTokens > 0
           \/ /\ fields[map].window = clock /\ fields[map].count = 0
              /\ fields[map].dayCount = 0 /\ fields[map].dayTokens = 0
              /\ \E c \in Clients : bucket[c] = map

LimiterInv == LimiterTypes /\ Exact /\ Overshoot /\ InUse

-----------------------------------------------------------------------------
(* The limiter: days and rolls *)

\* Days are numbers, and time passes.
LEMMA DaysPass ==
    ASSUME NEW t \in Nat, NEW d \in Nat \ {0}
    PROVE  t \div d \in Nat /\ (t + 1) \div d \in Nat /\ t \div d <= (t + 1) \div d
  OBVIOUS

\* Days are numbered.
LEMMA TodayType == ASSUME clock \in Nat PROVE Today \in Nat
<1>1. Day \in Nat \ {0}
  BY LimiterAssumption, Zenon DEF Limiter!WellFormed
<1> QED BY <1>1, DaysPass, Zenon DEF Today, Limiter!DayOf

\* What a bucket counts today is a number within the limit.
LEMMA CountedType ==
    ASSUME LimiterTypes, NEW o \in Buckets \cup {None}
    PROVE  Counted(o) \in Nat /\ Counted(o) <= DailyReq /\ DailyReq \in Nat
<1>1. DailyReq \in Nat /\ 0 \in 0 .. DailyReq
  BY LimiterAssumption DEF Limiter!WellFormed
<1>2. Counted(o) \in 0 .. DailyReq
  BY <1>1, Zenon DEF Counted, LimiterTypes, BucketFields
<1> QED BY <1>1, <1>2, CountsWithin, Zenon

\* rollLocked brings a bucket to today and keeps what it says of today.
LEMMA RollKeepsToday ==
    ASSUME LimiterTypes, NEW o \in Buckets, NEW x, x = Limiter!Roll(fields[o])
    PROVE  /\ x \in BucketFields /\ x.day = Today /\ x.window <= clock
           /\ x.dayCount = Counted(o) /\ x.dayTokens = Tokened(o)
           /\ fields[o].window = clock => x.count = fields[o].count
<1> DEFINE f == fields[o]
           y == IF clock - f.window >= Minute THEN [f EXCEPT !.window = clock, !.count = 0] ELSE f
<1>1. /\ f \in BucketFields /\ f.window <= clock /\ o # None /\ clock \in Nat /\ Today \in Nat
      /\ Minute \in Nat \ {0} /\ Rpm \in Nat /\ DailyReq \in Nat
  BY LimiterAssumption, TodayType, Zenon DEF LimiterTypes, Limiter!WellFormed
<1>2. x = IF f.day # Today THEN [y EXCEPT !.day = Today, !.dayCount = 0, !.dayTokens = 0] ELSE y
  BY Zenon DEF Limiter!Roll, Today
<1>3. /\ Counted(o) = (IF f.day = Today THEN f.dayCount ELSE 0)
      /\ Tokened(o) = (IF f.day = Today THEN f.dayTokens ELSE 0)
  BY <1>1, Zenon DEF Counted, Tokened
<1> HIDE DEF f
<1>4. /\ y \in BucketFields /\ y.window <= clock /\ y.day = f.day
      /\ y.dayCount = f.dayCount /\ y.dayTokens = f.dayTokens
      /\ f.window = clock => y.count = f.count
  <2>1. CASE clock - f.window >= Minute
    <3>1. y = [f EXCEPT !.window = clock, !.count = 0]
      BY <2>1, Zenon
    <3>2. 0 \in 0 .. Rpm
      BY <1>1
    <3>3. f.window # clock
      BY <1>1, <2>1 DEF BucketFields
    <3> HIDE DEF y
    <3>4. y \in BucketFields
      <4>1. clock \in Nat /\ f \in BucketFields
        BY <1>1, Zenon
      <4> QED BY <3>1, <3>2, <4>1, Zenon DEF BucketFields
    <3>5. /\ y.window = clock /\ y.day = f.day
          /\ y.dayCount = f.dayCount /\ y.dayTokens = f.dayTokens
      BY <1>1, <3>1, Zenon DEF BucketFields
    <3> QED BY <1>1, <3>3, <3>4, <3>5
  <2>2. CASE ~(clock - f.window >= Minute)
    <3>1. y = f
      BY <2>2, Zenon
    <3> QED BY <1>1, <3>1, Zenon
  <2> QED BY <2>1, <2>2, Zenon
<1> HIDE DEF y
<1>5. CASE f.day = Today
  <2>1. x = y
    BY <1>2, <1>5, Zenon
  <2> QED BY <1>3, <1>4, <1>5, <2>1, Zenon DEF f
<1>6. CASE f.day # Today
  <2>1. x = [y EXCEPT !.day = Today, !.dayCount = 0, !.dayTokens = 0]
    BY <1>2, <1>6, Zenon
  <2>2. 0 \in 0 .. DailyReq
    BY <1>1
  <2>3. x \in BucketFields
    <3>1. Today \in Nat /\ y \in BucketFields /\ 0 \in Nat
      BY <1>1, <1>4, Zenon
    <3> QED BY <2>1, <2>2, <3>1, Zenon DEF BucketFields
  <2>4. /\ x.day = Today /\ x.dayCount = 0 /\ x.dayTokens = 0
        /\ x.window = y.window /\ x.count = y.count
    BY <1>4, <2>1, Zenon DEF BucketFields
  <2> QED BY <1>3, <1>4, <1>6, <2>3, <2>4, Zenon DEF f
<1> QED BY <1>5, <1>6, Zenon

-----------------------------------------------------------------------------
(* The limiter: steps *)

\* A handler gets a bucket, an old one or a new one.
LEMMA GetStep ==
    ASSUME LimiterInv, NEW c \in Clients, NEW op \in {"reserve", "add"}, Limiter!Get(c, op)
    PROVE  LimiterInv'
<1>1. /\ lpc[c] = "idle" /\ bucket[c] = None
      /\ lpc' = [lpc EXCEPT ![c] = op] /\ UNCHANGED <<clock, admits, spent, lost>>
  BY Zenon DEF Limiter!Get, LimiterInv, LimiterTypes
<1>2. LimiterTypes /\ Today' = Today
  BY <1>1, Zenon DEF LimiterInv, Today, Limiter!DayOf
<1>3. CASE map # None /\ bucket' = [bucket EXCEPT ![c] = map] /\ UNCHANGED <<map, fields>>
  <2>1. LimiterTypes'
    BY <1>1, <1>2, <1>3, Zenon DEF LimiterTypes
  <2>2. Strays' = Strays
    BY <1>1, <1>2, <1>3, Zenon DEF Strays, LimiterTypes
  <2>3. Counted(map)' = Counted(map) /\ Tokened(map)' = Tokened(map)
    BY <1>2, <1>3, Zenon DEF Counted, Tokened
  <2>4. Exact' /\ Overshoot'
    BY <1>1, <2>2, <2>3, Zenon DEF Exact, Overshoot, LimiterInv
  <2>5. InUse'
    BY <1>1, <1>2, <1>3, Zenon DEF InUse, LimiterInv, LimiterTypes
  <2> QED BY <2>1, <2>4, <2>5, Zenon DEF LimiterInv
<1>4. ASSUME NEW o \in Buckets, o \notin {bucket[d] : d \in Clients}, map = None, map' = o,
             fields' = [fields EXCEPT ![o] = Limiter!Fresh],
             bucket' = [bucket EXCEPT ![c] = o]
      PROVE  LimiterInv'
  <2> DEFINE x == Limiter!Fresh
  <2>1. /\ x \in BucketFields /\ x.day = Today /\ x.window = clock
        /\ x.count = 0 /\ x.dayCount = 0 /\ x.dayTokens = 0
    <3>1. x = [window |-> clock, day |-> Today, count |-> 0, dayCount |-> 0, dayTokens |-> 0]
      BY Zenon DEF Limiter!Fresh, Today
    <3>2. clock \in Nat /\ Today \in Nat /\ 0 \in 0 .. Rpm /\ 0 \in 0 .. DailyReq
      BY <1>2, LimiterAssumption, TodayType DEF LimiterTypes, Limiter!WellFormed
    <3> QED BY <3>1, <3>2, Zenon DEF BucketFields
  <2> HIDE DEF x
  <2>2. /\ o # None /\ fields'[o] = x /\ \A p \in Buckets : p # o => fields'[p] = fields[p]
        /\ fields' \in [Buckets -> BucketFields]
    BY <1>2, <1>4, <2>1, LimiterAssumption, Zenon DEF LimiterTypes, x, Limiter!WellFormed
  <2>3. LimiterTypes'
    <3>1. \A p \in Buckets : fields'[p].day <= Today /\ fields'[p].window <= clock
      BY <1>2, <2>1, <2>2, TodayType DEF LimiterTypes
    <3>2. bucket' \in [Clients -> Buckets \cup {None}] /\ lpc' \in [Clients -> {"idle", "reserve", "add"}]
      BY <1>1, <1>2, <1>4, Zenon DEF LimiterTypes
    <3>3. \A d \in Clients : lpc'[d] = "idle" <=> bucket'[d] = None
      BY <1>1, <1>2, <1>4, <2>2, Zenon DEF LimiterTypes
    <3>4. /\ clock' \in Nat /\ map' \in Buckets \cup {None} /\ fields' \in [Buckets -> BucketFields]
          /\ admits' \in Nat /\ spent' \in Nat /\ lost' \in BOOLEAN /\ clock' = clock
      BY <1>1, <1>2, <1>4, <2>2, Zenon DEF LimiterTypes
    <3> QED BY <1>2, <3>1, <3>2, <3>3, <3>4, Zenon DEF LimiterTypes
  <2>4. Strays' = Strays
    BY <1>1, <1>2, <1>4, <2>2, Zenon DEF Strays, LimiterTypes
  <2>5. /\ Counted(map) = 0 /\ Tokened(map) = 0
        /\ Counted(map)' = 0 /\ Tokened(map)' = 0
    BY <1>2, <1>4, <2>1, <2>2, Zenon DEF Counted, Tokened
  <2>6. Exact' /\ Overshoot'
    BY <1>1, <2>4, <2>5, Zenon DEF Exact, Overshoot, LimiterInv
  <2>7. bucket'[c] = map'
    BY <1>2, <1>4, Zenon DEF LimiterTypes
  <2>8. InUse'
    BY <1>1, <1>2, <1>4, <2>1, <2>2, <2>7, Zenon DEF InUse
  <2> QED BY <2>3, <2>6, <2>8, Zenon DEF LimiterInv
<1> QED BY <1>3, <1>4, Zenon DEF Limiter!Get

\* There are at most as many strays as clients.
LEMMA StraysAreFinite ==
    /\ IsFiniteSet(Clients) /\ IsFiniteSet(Strays) /\ Strays \subseteq Clients
    /\ Cardinality(Clients) \in Nat /\ Cardinality(Strays) \in Nat
    /\ Cardinality(Strays) <= Cardinality(Clients)
<1>1. IsFiniteSet(Clients) /\ Strays \subseteq Clients
  BY LimiterAssumption, Zenon DEF Limiter!WellFormed, Strays, Limiter!IsFiniteSet, IsFiniteSet
<1> QED BY <1>1, FS_Subset, FS_CardinalityType, Zenon

\* A handler uses the bucket it holds: what it adds to the day it adds to the
\* bucket's fields y, and a bucket about to be used becomes a used one.
LEMMA UseStep ==
    ASSUME LimiterInv, NEW c \in Clients, lpc[c] # "idle",
           NEW y \in BucketFields, y.day = Today, y.window <= clock,
           fields' = [fields EXCEPT ![bucket[c]] = y], Limiter!Return(c),
           UNCHANGED <<clock, map, lost>>,
           NEW m \in {0, 1}, NEW n \in {0, 1}, admits' = admits + m, spent' = spent + n,
           y.dayCount = Counted(bucket[c]) + m, y.dayTokens = Tokened(bucket[c]) + n,
           lost /\ bucket[c] = map => y.dayCount > 0 \/ y.dayTokens > 0
    PROVE  LimiterInv'
<1> DEFINE o == bucket[c]
<1>1. LimiterTypes /\ Today' = Today
  BY Zenon DEF LimiterInv, Today, Limiter!DayOf
<1>2. /\ o \in Buckets /\ o # None /\ fields'[o] = y
      /\ \A p \in Buckets : p # o => fields'[p] = fields[p]
      /\ fields' \in [Buckets -> BucketFields]
  BY <1>1, Zenon DEF LimiterTypes
<1>3. /\ bucket' = [bucket EXCEPT ![c] = None] /\ lpc' = [lpc EXCEPT ![c] = "idle"]
  BY Zenon DEF Limiter!Return
<1>4. LimiterTypes'
  <2>1. \A p \in Buckets : fields'[p].day <= Today /\ fields'[p].window <= clock
    <3>1. Today <= Today
      BY <1>1, TodayType, NumberFacts, Zenon DEF LimiterTypes
    <3> QED BY <1>1, <1>2, <3>1, Zenon DEF LimiterTypes
  <2>2. bucket' \in [Clients -> Buckets \cup {None}] /\ lpc' \in [Clients -> {"idle", "reserve", "add"}]
    BY <1>1, <1>3, Zenon DEF LimiterTypes
  <2>3. \A d \in Clients : lpc'[d] = "idle" <=> bucket'[d] = None
    BY <1>1, <1>3, Zenon DEF LimiterTypes
  <2>4. admits' \in Nat /\ spent' \in Nat
    BY <1>1 DEF LimiterTypes
  <2> QED BY <1>1, <1>2, <2>1, <2>2, <2>3, <2>4, Zenon DEF LimiterTypes
<1>5. CASE o = map
  <2>1. Strays' = Strays
    BY <1>1, <1>3, <1>5, Zenon DEF Strays, LimiterTypes
  <2>2. Counted(map)' = Counted(map) + m /\ Tokened(map)' = Tokened(map) + n
    BY <1>1, <1>2, <1>5, Zenon DEF Counted, Tokened
  <2>3. Exact'
    BY <2>1, <2>2, Zenon DEF Exact, LimiterInv
  <2>4. Overshoot'
    <3>1. Counted(map) \in Nat
      BY <1>1, CountedType, Zenon DEF LimiterTypes
    <3>2. admits \in Nat
      BY <1>1, Zenon DEF LimiterTypes
    <3>3. lost => admits + Cardinality(Strays) <= Counted(map) + Cardinality(Clients)
      BY Zenon DEF LimiterInv, Overshoot
    <3>4. lost => (admits + m) + Cardinality(Strays) <= (Counted(map) + m) + Cardinality(Clients)
      BY <3>1, <3>2, <3>3, StraysAreFinite, OneMoreAdmitted, Zenon
    <3> QED BY <2>1, <2>2, <3>4, Zenon DEF Overshoot
  <2>5. InUse'
    BY <1>1, <1>2, <1>5, Zenon DEF InUse
  <2> QED BY <1>4, <2>3, <2>4, <2>5, Zenon DEF LimiterInv
<1>6. CASE o # map
  <2>1. c \in Strays /\ Strays' = Strays \ {c}
    BY <1>1, <1>2, <1>3, <1>6, Zenon DEF Strays, LimiterTypes
  <2>2. lost
    BY <2>1, Zenon DEF LimiterInv, Exact
  <2>3. Counted(map)' = Counted(map) /\ Counted(map) \in Nat
    <3>1. Counted(map) \in Nat
      BY <1>1, CountedType, Zenon DEF LimiterTypes
    <3>2. map # None => fields'[map] = fields[map]
      BY <1>1, <1>2, <1>6, Zenon DEF LimiterTypes
    <3>3. map' = map
      BY Zenon
    <3>4. CASE map = None
      BY <3>1, <3>3, <3>4, Zenon DEF Counted
    <3>5. CASE map # None
      <4>1. fields'[map'] = fields[map] /\ map' # None
        BY <3>2, <3>3, <3>5, Zenon
      <4>2. CASE fields[map].day = Today
        <5>1. fields'[map'].day = Today' /\ fields'[map'].dayCount = fields[map].dayCount
          BY <1>1, <4>1, <4>2, Zenon
        <5>2. Counted(map)' = fields'[map'].dayCount
          BY <4>1, <5>1, Zenon DEF Counted
        <5>3. Counted(map) = fields[map].dayCount
          BY <3>5, <4>2, Zenon DEF Counted
        <5> QED BY <3>1, <5>1, <5>2, <5>3, Zenon
      <4>3. CASE fields[map].day # Today
        <5>1. fields'[map'].day # Today'
          BY <1>1, <4>1, <4>3, Zenon
        <5>2. Counted(map)' = 0
          BY <4>1, <5>1, Zenon DEF Counted
        <5>3. Counted(map) = 0
          BY <3>5, <4>3, Zenon DEF Counted
        <5> QED BY <3>1, <5>2, <5>3, Zenon
      <4> QED BY <4>2, <4>3, Zenon
    <3> QED BY <3>4, <3>5, Zenon
  <2>4. Cardinality(Strays \ {c}) = Cardinality(Strays) - 1
    BY <2>1, StraysAreFinite, FS_RemoveElement, Zenon
  <2>5. admits \in Nat /\ admits + Cardinality(Strays) <= Counted(map) + Cardinality(Clients)
    BY <1>1, <2>2, Zenon DEF LimiterInv, LimiterTypes, Overshoot
  <2>6. (admits + m) + (Cardinality(Strays) - 1) <= Counted(map) + Cardinality(Clients)
    BY <2>3, <2>5, StraysAreFinite, OneMoreAdmitted, Zenon
  <2>7. Exact' /\ Overshoot'
    BY <2>1, <2>2, <2>3, <2>4, <2>6, Zenon DEF Exact, Overshoot
  <2>8. InUse'
    <3> SUFFICES ASSUME map # None PROVE InUse'
      BY Zenon DEF InUse
    <3>1. fields'[map] = fields[map]
      BY <1>1, <1>2, <1>6, Zenon DEF LimiterTypes
    <3>2. \A d \in Clients : bucket[d] = map => bucket'[d] = map
      BY <1>1, <1>3, <1>6, Zenon DEF LimiterTypes
    <3> QED BY <1>1, <2>2, <3>1, <3>2, Zenon DEF InUse, LimiterInv
  <2> QED BY <1>4, <2>7, <2>8, Zenon DEF LimiterInv
<1> QED BY <1>5, <1>6, Zenon

\* CheckAndReserve
LEMMA ReserveStep ==
    ASSUME LimiterInv, NEW c \in Clients, Limiter!Reserve(c)
    PROVE  LimiterInv'
<1> DEFINE o  == bucket[c]
           x  == Limiter!Roll(fields[o])
           ok == x.count < Rpm /\ x.dayCount < DailyReq /\ x.dayTokens < DailyTok
           y  == IF ok THEN [x EXCEPT !.count = @ + 1, !.dayCount = @ + 1] ELSE x
<1>1. LimiterTypes /\ lpc[c] = "reserve" /\ lpc[c] # "idle" /\ o \in Buckets
  BY Zenon DEF LimiterInv, LimiterTypes, Limiter!Reserve
<1>2. /\ fields' = [fields EXCEPT ![o] = y] /\ admits' = (IF ok THEN admits + 1 ELSE admits)
      /\ Limiter!Return(c) /\ UNCHANGED <<clock, map, lost>> /\ spent' = spent
  BY Zenon DEF Limiter!Reserve
<1>3. /\ x \in BucketFields /\ x.day = Today /\ x.window <= clock
      /\ x.dayCount = Counted(o) /\ x.dayTokens = Tokened(o)
      /\ fields[o].window = clock => x.count = fields[o].count
  BY <1>1, RollKeepsToday, Zenon
<1>4. Rpm \in Nat \ {0} /\ DailyReq \in Nat \ {0} /\ DailyTok \in Nat \ {0}
  BY LimiterAssumption, Zenon DEF Limiter!WellFormed
<1> HIDE DEF x
<1>5. lost /\ o = map => ok \/ x.dayCount > 0 \/ x.dayTokens > 0
  <2> SUFFICES ASSUME lost, o = map, ~(x.dayCount > 0 \/ x.dayTokens > 0) PROVE ok
    BY Zenon
  <2>1. x.dayCount = fields[o].dayCount /\ x.dayTokens = fields[o].dayTokens /\ o # None
    BY <1>1, <1>3, LimiterAssumption, Zenon DEF LimiterInv, InUse, Counted, Tokened, Limiter!WellFormed
  <2>2. x.count = 0
    BY <1>3, <2>1, Zenon DEF LimiterInv, InUse
  <2>3. x.dayCount \in Nat /\ x.dayTokens \in Nat
    BY <1>3 DEF BucketFields
  <2> QED BY <1>4, <2>2, <2>3
<1>6. CASE ok
  <2>1. y = [x EXCEPT !.count = x.count + 1, !.dayCount = x.dayCount + 1]
    BY <1>6, Zenon
  <2>2. x.count + 1 \in 0 .. Rpm /\ x.dayCount + 1 \in 0 .. DailyReq /\ x.dayCount \in Nat
    BY <1>3, <1>4, <1>6, CountsWithin, Zenon DEF BucketFields
  <2> HIDE DEF y
  <2>3. y \in BucketFields
    BY <1>3, <2>1, <2>2, Zenon DEF BucketFields
  <2>4. /\ y.day = x.day /\ y.window = x.window /\ y.dayTokens = x.dayTokens
        /\ y.dayCount = x.dayCount + 1
    BY <1>3, <2>1, Zenon DEF BucketFields
  <2>5. y.dayCount > 0 /\ y.dayTokens = Tokened(o) + 0
    <3>1. x.dayTokens \in Nat
      BY <1>3, Zenon DEF BucketFields
    <3> QED BY <1>3, <2>2, <2>4, <3>1, NumberFacts, Zenon
  <2>6. admits' = admits + 1 /\ spent' = spent + 0
    BY <1>1, <1>2, <1>6 DEF LimiterTypes
  <2> QED BY <1>1, <1>2, <1>3, <2>3, <2>4, <2>5, <2>6, UseStep, Zenon
<1>7. CASE ~ok
  <2>1. y = x
    BY <1>7, Zenon
  <2>2. admits' = admits + 0 /\ spent' = spent + 0
    BY <1>1, <1>2, <1>7 DEF LimiterTypes
  <2>3. x.dayCount = Counted(o) + 0 /\ x.dayTokens = Tokened(o) + 0
    BY <1>3 DEF BucketFields
  <2>4. lost /\ o = map => x.dayCount > 0 \/ x.dayTokens > 0
    BY <1>5, <1>7, Zenon
  <2> HIDE DEF ok, y
  <2> QED BY <1>1, <1>2, <1>3, <2>1, <2>2, <2>3, <2>4, UseStep, Zenon
<1> QED BY <1>6, <1>7, Zenon


\* AddTokens
LEMMA AddTokensStep ==
    ASSUME LimiterInv, NEW c \in Clients, Limiter!AddTokens(c)
    PROVE  LimiterInv'
<1> DEFINE o == bucket[c]
           x == Limiter!Roll(fields[o])
           y == [x EXCEPT !.dayTokens = x.dayTokens + 1]
<1>1. LimiterTypes /\ lpc[c] = "add" /\ lpc[c] # "idle" /\ o \in Buckets
  BY Zenon DEF LimiterInv, LimiterTypes, Limiter!AddTokens
<1>2. /\ fields' = [fields EXCEPT ![o] = y] /\ spent' = spent + 1
      /\ Limiter!Return(c) /\ UNCHANGED <<clock, map, lost>> /\ admits' = admits
  BY Zenon DEF Limiter!AddTokens
<1>3. /\ x \in BucketFields /\ x.day = Today /\ x.window <= clock
      /\ x.dayCount = Counted(o) /\ x.dayTokens = Tokened(o)
  BY <1>1, RollKeepsToday, Zenon
<1> HIDE DEF x
<1>4. x.dayTokens + 1 \in Nat /\ x.dayTokens \in Nat
  BY <1>3 DEF BucketFields
<1>5. y \in BucketFields
  BY <1>3, <1>4, Zenon DEF BucketFields
<1>6. /\ y.day = x.day /\ y.window = x.window /\ y.dayCount = x.dayCount
      /\ y.dayTokens = x.dayTokens + 1
  BY <1>3, Zenon DEF BucketFields
<1> HIDE DEF y
<1>7. y.dayTokens > 0 /\ y.dayCount = Counted(o) + 0
  BY <1>3, <1>4, <1>6 DEF BucketFields
<1>8. admits' = admits + 0
  BY <1>1, <1>2 DEF LimiterTypes
<1> QED BY <1>1, <1>2, <1>3, <1>5, <1>6, <1>7, <1>8, UseStep, Zenon

\* gcLoop: a bucket that goes has counted nothing today, and none goes twice.
LEMMA CollectStep ==
    ASSUME LimiterInv, Limiter!Collect
    PROVE  LimiterInv'
<1>1. LimiterTypes /\ Today' = Today
  BY Zenon DEF LimiterInv, Today, Limiter!DayOf, Limiter!Collect
<1>2. /\ map \in Buckets /\ map # None /\ map' = None
      /\ clock - fields[map].window > Idle
      /\ fields[map].dayCount = 0 /\ fields[map].dayTokens = 0
      /\ lost' = (lost \/ \E c \in Clients : bucket[c] = map)
      /\ UNCHANGED <<clock, fields, lpc, bucket, admits, spent>>
  BY <1>1, Zenon DEF Limiter!Collect, LimiterTypes
<1>3. ~lost
  <2>1. Idle \in Nat /\ clock \in Nat
    BY <1>1, LimiterAssumption, Zenon DEF Limiter!WellFormed, LimiterTypes
  <2>2. fields[map].window # clock
    BY <1>2, <2>1
  <2>3. ~(0 > 0)
    OBVIOUS
  <2> QED BY <1>2, <2>2, <2>3, Zenon DEF LimiterInv, InUse
<1>4. admits = 0 /\ spent = 0 /\ Strays = {}
  BY <1>2, <1>3, Zenon DEF LimiterInv, Exact, Counted, Tokened
<1>5. LimiterTypes'
  <2>1. map' \in Buckets \cup {None} /\ lost' \in BOOLEAN
    BY <1>2, Zenon
  <2> QED BY <1>1, <1>2, <2>1, Zenon DEF LimiterTypes
<1>6. Counted(map)' = 0 /\ Tokened(map)' = 0
  BY <1>2, Zenon DEF Counted, Tokened
<1>7. Exact'
  <2>1. ~lost' => Strays' = {}
    BY <1>2, <1>4, Zenon DEF Strays
  <2> QED BY <1>2, <1>4, <1>6, <2>1, Zenon DEF Exact
<1>8. Overshoot'
  <2> DEFINE T == Strays'
  <2>1. T \subseteq Clients
    BY <1>2, Zenon DEF Strays
  <2> HIDE DEF T
  <2>2. Cardinality(T) \in Nat /\ Cardinality(T) <= Cardinality(Clients)
    BY <2>1, StraysAreFinite, FS_Subset, FS_CardinalityType, Zenon
  <2>3. admits' + Cardinality(T) <= Counted(map)' + Cardinality(Clients)
    BY <1>2, <1>4, <1>6, <2>2, StraysAreFinite, NothingAdmitted, Zenon
  <2> QED BY <2>3, Zenon DEF Overshoot, T
<1>9. InUse'
  BY <1>2, Zenon DEF InUse
<1> QED BY <1>5, <1>7, <1>8, <1>9, Zenon DEF LimiterInv

\* The clock: nobody holds a bucket, and at midnight no bucket is of the new day.
LEMMA TickStep ==
    ASSUME LimiterInv, Limiter!Tick
    PROVE  LimiterInv'
<1>1. LimiterTypes /\ clock' = clock + 1 /\ UNCHANGED <<map, fields, lpc, bucket>>
  BY Zenon DEF LimiterInv, Limiter!Tick
<1>2. Today \in Nat /\ Today' \in Nat /\ Today <= Today' /\ clock \in Nat
  BY <1>1, DaysPass, LimiterAssumption, Zenon DEF Today, LimiterTypes, Limiter!DayOf, Limiter!WellFormed
<1>3. \A c \in Clients : bucket[c] = None
  BY <1>1, Zenon DEF Limiter!Tick, LimiterTypes
<1>4. Strays = {} /\ Strays' = {}
  BY <1>1, <1>3, Zenon DEF Strays
<1>5. \A o \in Buckets : /\ fields[o].day \in Nat /\ fields[o].window \in Nat
                         /\ fields'[o].day <= Today' /\ fields'[o].window <= clock'
  <2>1. \A o \in Buckets : fields[o].day \in Nat /\ fields[o].window \in Nat
    BY <1>1, Zenon DEF LimiterTypes, BucketFields
  <2> QED BY <1>1, <1>2, <2>1 DEF LimiterTypes
<1>6. CASE Today' = Today /\ UNCHANGED <<admits, spent, lost>>
  <2>1. LimiterTypes'
    <3>1. clock' \in Nat
      BY <1>1, <1>2
    <3> QED BY <1>1, <1>5, <1>6, <3>1, Zenon DEF LimiterTypes
  <2>2. Counted(map)' = Counted(map) /\ Tokened(map)' = Tokened(map)
    BY <1>1, <1>6, Zenon DEF Counted, Tokened
  <2>3. Exact' /\ Overshoot'
    BY <1>4, <1>6, <2>2, Zenon DEF Exact, Overshoot, LimiterInv
  <2>4. InUse'
    BY <1>1, <1>3, <1>6, Zenon DEF InUse, LimiterInv
  <2> QED BY <2>1, <2>3, <2>4, Zenon DEF LimiterInv
<1>7. CASE Today' # Today /\ admits' = 0 /\ spent' = 0 /\ lost' = FALSE
  <2>1. LimiterTypes'
    <3>1. lost' \in BOOLEAN /\ admits' \in Nat /\ spent' \in Nat
      BY <1>7, Zenon
    <3>2. clock' \in Nat
      BY <1>1, <1>2
    <3> QED BY <1>1, <1>5, <3>1, <3>2, Zenon DEF LimiterTypes
  <2>2. map # None => fields[map].day # Today'
    BY <1>1, <1>2, <1>5, <1>7 DEF LimiterTypes
  <2>3. Counted(map)' = 0 /\ Tokened(map)' = 0
    BY <1>1, <2>2, Zenon DEF Counted, Tokened
  <2>4. Exact' /\ Overshoot' /\ InUse'
    BY <1>4, <1>7, <2>3, Zenon DEF Exact, Overshoot, InUse
  <2> QED BY <2>1, <2>4, Zenon DEF LimiterInv
<1> QED BY <1>6, <1>7, Zenon DEF Limiter!Tick, Today

\* Init: no bucket, nothing counted.
LEMMA LimiterInit == Limiter!Init => LimiterInv
<1> SUFFICES ASSUME Limiter!Init PROVE LimiterInv
  BY Zenon
<1> DEFINE z == [window |-> 0, day |-> 0, count |-> 0, dayCount |-> 0, dayTokens |-> 0]
<1>1. Rpm \in Nat /\ DailyReq \in Nat /\ None \notin Buckets
  BY LimiterAssumption, Zenon DEF Limiter!WellFormed
<1>2. /\ clock = 0 /\ map = None /\ fields = [o \in Buckets |-> z]
      /\ lpc = [c \in Clients |-> "idle"] /\ bucket = [c \in Clients |-> None]
      /\ admits = 0 /\ spent = 0 /\ lost = FALSE
  BY Zenon DEF Limiter!Init
<1>3. 0 \in 0 .. Rpm /\ 0 \in 0 .. DailyReq
  BY <1>1
<1>4. z \in BucketFields /\ z.day = 0 /\ z.window = 0
  BY <1>3, Zenon DEF BucketFields
<1> HIDE DEF z
<1>5. 0 \in Nat /\ 0 <= 0
  OBVIOUS
<1>6. 0 <= Today
  BY <1>2, <1>5, TodayType
<1>7. LimiterTypes
  BY <1>2, <1>4, <1>5, <1>6, Zenon DEF LimiterTypes
<1>8. Strays = {}
  BY <1>2, Zenon DEF Strays
<1> QED BY <1>2, <1>7, <1>8, Zenon DEF LimiterInv, Exact, Overshoot, InUse, Counted, Tokened

\* The limiter's inductive invariant holds of every execution, for any numbers
\* of handlers and buckets, any limits, and any lengths of minute, day and idling.
THEOREM LimiterInvariance == Limiter!Spec => []LimiterInv
<1>1. LimiterInv /\ [Limiter!Next]_(Limiter!vars) => LimiterInv'
  <2> SUFFICES ASSUME LimiterInv, [Limiter!Next]_(Limiter!vars) PROVE LimiterInv'
    BY Zenon
  <2>1. CASE UNCHANGED Limiter!vars
    BY <2>1, Zenon DEF Limiter!vars, LimiterInv, LimiterTypes, Exact, Overshoot, InUse,
         Strays, Counted, Tokened, Today, Limiter!DayOf
  <2>2. ASSUME NEW c \in Clients, NEW op \in {"reserve", "add"}, Limiter!Get(c, op)
        PROVE  LimiterInv'
    BY <2>2, GetStep, Zenon
  <2> QED BY <2>1, <2>2, ReserveStep, AddTokensStep, CollectStep, TickStep, Zenon DEF Limiter!Next
<1> QED BY <1>1, LimiterInit, PTL DEF Limiter!Spec

\* Between two midnights CheckAndReserve admits at most the daily limit, plus
\* one per handler if gcLoop dropped a bucket between a handler's get and its
\* lock; until then the key's bucket knows every token AddTokens added today.
THEOREM BucketsKeepTheDay == Limiter!Spec => []BucketKeepsTheDay
<1>1. LimiterInv => BucketKeepsTheDay
  <2> SUFFICES ASSUME LimiterInv PROVE BucketKeepsTheDay
    BY Zenon
  <2>1. LimiterTypes
    BY Zenon DEF LimiterInv
  <2>2. Limiter!TypeOK
    <3>1. \A o \in Buckets : fields[o].count \in 0 .. Rpm /\ fields[o].dayCount \in 0 .. DailyReq
      BY <2>1, Zenon DEF LimiterTypes, BucketFields
    <3> QED BY <2>1, <3>1, Zenon DEF Limiter!TypeOK, LimiterTypes, Today
  <2>3. Counted(map) \in Nat /\ Counted(map) <= DailyReq /\ DailyReq \in Nat
    BY <2>1, CountedType, Zenon DEF LimiterTypes
  <2>4. Limiter!Cardinality(Clients) = Cardinality(Clients)
    BY Zenon DEF Limiter!Cardinality, Cardinality
  <2>5. Limiter!DailyLimitHolds
    <3>1. CASE lost
      <4>1. admits \in Nat /\ admits + Cardinality(Strays) <= Counted(map) + Cardinality(Clients)
        BY <2>1, <3>1, Zenon DEF LimiterInv, Overshoot, LimiterTypes
      <4>2. admits <= DailyReq + Cardinality(Clients)
        BY <2>3, <4>1, StraysAreFinite, AdmittedWithin, Zenon
      <4> QED BY <2>4, <3>1, <4>2, Zenon DEF Limiter!DailyLimitHolds
    <3>2. CASE ~lost
      <4>1. admits <= DailyReq + 0
        BY <2>3, <3>2, NumberFacts, Zenon DEF LimiterInv, Exact
      <4> QED BY <3>2, <4>1, Zenon DEF Limiter!DailyLimitHolds
    <3> QED BY <3>1, <3>2, Zenon
  <2>6. Limiter!TokensAreRemembered
    BY <2>1, Zenon DEF LimiterInv, Exact, Tokened, Today, Limiter!TokensAreRemembered
  <2> QED BY <2>2, <2>5, <2>6, Zenon DEF BucketKeepsTheDay, Limiter!DayIsCounted
<1> QED BY <1>1, LimiterInvariance, PTL

-----------------------------------------------------------------------------
(* The address of a request *)

\* An address, or an entry that is none.
HeaderType == Seq(Machines \cup {Junk})

\* A request that has left a sender that is no proxy is at a proxy, and its
\* header names the sender and after it proxies only.
Traced ==
    \/ at = sender
    \/ /\ at \in Trusted
       /\ \E i \in DOMAIN xff : /\ xff[i] = sender
                                /\ \A j \in DOMAIN xff : j > i => xff[j] \in Trusted

AddressTypes ==
    /\ sender \in Machines /\ at \in Machines /\ xff \in HeaderType
    /\ inFirst \in 0 .. Len(xff)

AddressInv ==
    /\ AddressTypes
    /\ sender \notin Trusted => Traced
    /\ SendersAreKnown

\* The address is a machine's, whatever the header holds.
LEMMA AddressIsMachine ==
    ASSUME NEW peer \in Machines, NEW header \in HeaderType, NEW ri
    PROVE  Arrivals!ClientIP(peer, header, ri) \in Machines
  <1> DEFINE S == Arrivals!Untrusted(header)
             last == {i \in S : \A j \in S : j <= i}
  <1>1. CASE Arrivals!isTrustedIP(peer) /\ last # {}
    <2>1. (CHOOSE i \in last : TRUE) \in last
      BY <1>1, Zenon
    <2>2. \A i \in last : i \in DOMAIN header /\ header[i] # Junk
      BY Zenon DEF Arrivals!Untrusted, Arrivals!Split
    <2>3. \A i \in DOMAIN header : header[i] \in Machines \cup {Junk}
      BY DEF HeaderType
    <2> QED
      BY <1>1, <2>1, <2>2, <2>3, Zenon DEF Arrivals!ClientIP
  <1>2. CASE ~(Arrivals!isTrustedIP(peer) /\ last # {})
    BY <1>2, Zenon DEF Arrivals!ClientIP, Arrivals!RealOr
  <1> QED
    BY <1>1, <1>2, Zenon

\* Behind proxies the last untrusted entry is the one the sender's proxy wrote.
LEMMA AddressIsSender ==
    ASSUME AddressTypes, Traced, sender \notin Trusted, NEW ri
    PROVE  Arrivals!ClientIP(at, xff, ri) = sender
  <1>1. CASE at = sender
    BY <1>1, Zenon DEF Arrivals!ClientIP, Arrivals!isTrustedIP
  <1>2. ASSUME at \in Trusted, NEW i \in DOMAIN xff, xff[i] = sender,
               \A j \in DOMAIN xff : j > i => xff[j] \in Trusted
        PROVE  Arrivals!ClientIP(at, xff, ri) = sender
    <2> DEFINE S == Arrivals!Untrusted(xff)
               last == {k \in S : \A j \in S : j <= k}
    <2>1. DOMAIN xff \subseteq Nat
      BY DEF AddressTypes, HeaderType
    <2>2. sender # Junk
      BY AddressAssumption, Zenon DEF AddressTypes, Arrivals!WellFormed
    <2>3. i \in S
      BY <1>2, <2>2, Zenon DEF Arrivals!Untrusted, Arrivals!Split, Arrivals!isTrustedIP
    <2>4. \A j \in S : j \in DOMAIN xff /\ ~(j > i)
      BY <1>2, Zenon DEF Arrivals!Untrusted, Arrivals!Split, Arrivals!isTrustedIP
    <2>5. \A j \in S : j <= i
      <3>1. \A j, k \in Nat : ~(j > k) => j <= k
        OBVIOUS
      <3> QED
        BY <2>1, <2>4, <3>1, Zenon
    <2>6. i \in last
      BY <2>3, <2>5, Zenon
    <2>7. \A k \in last : k = i
      <3>1. \A j, k \in Nat : j <= k /\ k <= j => k = j
        OBVIOUS
      <3>2. \A k \in last : k \in Nat /\ i <= k /\ k <= i
        BY <2>1, <2>3, <2>4, <2>5, Zenon
      <3> QED
        BY <2>1, <3>1, <3>2, Zenon
    <2>8. (CHOOSE k \in last : TRUE) = i
      BY <2>6, <2>7, Zenon
    <2>9. Arrivals!ClientIP(at, xff, ri) = xff[CHOOSE k \in last : TRUE]
      BY <1>2, <2>6, Zenon DEF Arrivals!ClientIP, Arrivals!isTrustedIP
    <2> QED
      BY <1>2, <2>8, <2>9, Zenon
  <1> QED
    BY <1>1, <1>2, Zenon DEF Traced

\* A proxy appends its peer: the sender first, and then proxies.
LEMMA RelayStep ==
    ASSUME AddressInv, NEW p \in Trusted, Arrivals!Relay(p)
    PROVE  AddressInv'
  <1>1. /\ xff' = Append(xff, at) /\ at' = p /\ sender' = sender /\ verdict' = {}
        /\ inFirst' \in {Len(xff) + 1, inFirst}
    BY Zenon DEF Arrivals!Relay
  <1>2. AddressTypes'
    <2>1. xff' \in HeaderType /\ inFirst' \in 0 .. Len(xff')
      BY <1>1 DEF AddressInv, AddressTypes, HeaderType
    <2> QED
      BY <1>1, <2>1, AddressAssumption, Zenon DEF AddressInv, AddressTypes, Arrivals!WellFormed
  <1>3. SendersAreKnown'
    BY <1>1, Zenon DEF SendersAreKnown, Arrivals!AddressIsTheSenders,
       Arrivals!KeyAdmitsSender
  <1>4. ASSUME sender \notin Trusted PROVE Traced'
    <2>1. /\ DOMAIN xff' = 1 .. Len(xff) + 1 /\ DOMAIN xff = 1 .. Len(xff) /\ Len(xff) \in Nat
          /\ xff'[Len(xff) + 1] = at
          /\ \A j \in 1 .. Len(xff) : xff'[j] = xff[j]
      BY <1>1 DEF AddressInv, AddressTypes, HeaderType
    <2> DEFINE n == Len(xff)
    <2>2. \A j \in 1 .. n + 1 : j \in 1 .. n \/ j = n + 1
      BY <2>1
    <2>3. n + 1 \in 1 .. n + 1 /\ \A j \in 1 .. n + 1 : ~(j > n + 1)
      BY <2>1
    <2>4. \A j \in 1 .. n : j \in 1 .. n + 1
      BY <2>1
    <2> HIDE DEF n
    <2>5. CASE at = sender
      <3>1. xff'[n + 1] = sender
        BY <2>1, <2>5, Zenon DEF n
      <3> QED
        BY <1>1, <2>1, <2>3, <3>1, Zenon DEF Traced, n
    <2>6. ASSUME at \in Trusted, NEW i \in DOMAIN xff, xff[i] = sender,
                 \A j \in DOMAIN xff : j > i => xff[j] \in Trusted
          PROVE  Traced'
      <3>1. i \in 1 .. n /\ i \in DOMAIN xff' /\ xff'[i] = sender
        BY <2>1, <2>4, <2>6, Zenon DEF n
      <3>2. ASSUME NEW j \in DOMAIN xff', j > i PROVE xff'[j] \in Trusted
        <4>1. CASE j = n + 1
          BY <2>1, <2>6, <4>1, Zenon DEF n
        <4>2. CASE j \in 1 .. n
          BY <2>1, <2>6, <3>2, <4>2, Zenon DEF n
        <4> QED
          BY <2>1, <2>2, <3>2, <4>1, <4>2, Zenon DEF n
      <3> QED
        BY <1>1, <3>1, <3>2, Zenon DEF Traced
    <2> QED
      BY <1>4, <2>5, <2>6, Zenon DEF AddressInv, Traced
  <1> QED
    BY <1>1, <1>2, <1>3, <1>4, Zenon DEF AddressInv

\* The authenticator decides by the address of the sender.
LEMMA ArrivalStep ==
    ASSUME AddressInv, NEW header \in Arrivals!Headers, NEW key \in ApiKeys,
           Arrivals!Arrive(header, key)
    PROVE  AddressInv'
  <1> DEFINE ip == Arrivals!ClientIP(at, Arrivals!Get(xff), real)
             v  == [header |-> header, key |-> key, ip |-> ip,
                    code |-> Arrivals!Middleware(header, key, ip)]
  <1>1. verdict' = {v} /\ UNCHANGED <<sender, at, xff, inFirst>>
    BY Zenon DEF Arrivals!Arrive
  <1>2. AddressTypes' /\ (sender' \notin Trusted => Traced')
    BY <1>1, Zenon DEF AddressInv, AddressTypes, Traced
  <1>3. ip \in Machines /\ (Arrivals!Traceable => ip = sender)
    <2>1. Arrivals!Get(xff) \in HeaderType /\ (inFirst = Len(xff) => Arrivals!Get(xff) = xff)
      <3>1. xff \in HeaderType /\ inFirst \in 0 .. Len(xff)
        BY Zenon DEF AddressInv, AddressTypes
      <3> QED BY <3>1 DEF Arrivals!Get, HeaderType
    <2>2. ip \in Machines
      BY <2>1, AddressIsMachine, Zenon DEF AddressInv, AddressTypes
    <2>3. Arrivals!Traceable => ip = sender
      BY <2>1, AddressIsSender, Zenon DEF AddressInv, Arrivals!Traceable
    <2> QED BY <2>2, <2>3, Zenon
  <1>4. /\ v.ip = ip /\ v.code = Arrivals!Middleware(header, key, ip)
        /\ v.header = header /\ v.key = key
    BY Zenon
  <1> HIDE DEF v, ip
  <1>8. Arrivals!Traceable' <=> Arrivals!Traceable
    BY <1>1, Zenon DEF Arrivals!Traceable
  <1>5. Arrivals!AddressIsTheSenders'
    BY <1>8, <1>1, <1>3, <1>4, Zenon DEF Arrivals!AddressIsTheSenders
  <1>6. Arrivals!Middleware(header, key, ip) = "admitted" <=>
            /\ header = "key" /\ key.known /\ key.enabled /\ ~key.expired
            /\ ip \notin key.denied
            /\ key.allowed = {} \/ ip \in key.allowed
    <2>1. /\ Arrivals!extractKey(header).raw <=> header = "key"
          /\ Arrivals!extractKey(header).prefixOK <=> header # "wrong_prefix"
      BY Zenon DEF Arrivals!extractKey
    <2>2. header = "key" => header # "wrong_prefix"
      BY Zenon
    <2>3. "invalid_api_key" # "admitted" /\ "client_ip_not_allowed" # "admitted"
      BY Zenon
    <2>4. ip \in key.denied => key.denied # {}
      BY Zenon
    <2> QED
      BY <2>1, <2>2, <2>3, <2>4, Zenon DEF Arrivals!Middleware, Arrivals!MatchAny
  <1>7. Arrivals!KeyAdmitsSender'
    BY <1>8, <1>1, <1>3, <1>4, <1>6, Zenon DEF Arrivals!KeyAdmitsSender
  <1> QED
    BY <1>2, <1>5, <1>7, Zenon DEF AddressInv, SendersAreKnown

\* The address that the extractor works out and the authenticator checks is
\* the sender's, for any machines, proxies, keys, headers and number of
\* relays, if the proxies append to one line of X-Forwarded-For and the sender
\* is none of them; else it is some machine's.
THEOREM AddressesAreTheSenders == Arrivals!Spec => []SendersAreKnown
<1>1. ASSUME Arrivals!Init PROVE AddressInv
  <2>1. sender \in Machines /\ at = sender /\ verdict = {}
    BY <1>1, Zenon DEF Arrivals!Init
  <2>2. xff \in HeaderType /\ inFirst \in 0 .. Len(xff)
    <3>1. PICK k \in 0 .. MaxEntries : xff \in [1 .. k -> Machines \cup {Junk}]
      BY <1>1, Zenon DEF Arrivals!Init, Arrivals!Entries
    <3>2. k \in Nat
      BY AddressAssumption DEF Arrivals!WellFormed
    <3>3. inFirst \in 0 .. Len(xff)
      BY <1>1, Zenon DEF Arrivals!Init
    <3>4. xff \in HeaderType
      BY <3>1, <3>2 DEF HeaderType
    <3> QED
      BY <3>3, <3>4, Zenon
  <2> QED
    BY <2>1, <2>2, Zenon DEF AddressInv, AddressTypes, Traced, SendersAreKnown,
       Arrivals!AddressIsTheSenders, Arrivals!KeyAdmitsSender
<1>2. ASSUME AddressInv, [Arrivals!Next]_(Arrivals!vars) PROVE AddressInv'
  <2>1. CASE Arrivals!Again \/ UNCHANGED Arrivals!vars
    <3>1. UNCHANGED <<sender, at, xff, inFirst>> /\ verdict' \in {verdict, {}}
      BY <2>1, Zenon DEF Arrivals!Again, Arrivals!vars
    <3>2. AddressTypes' /\ (sender' \notin Trusted => Traced')
      BY <1>2, <3>1, Zenon DEF AddressInv, AddressTypes, Traced
    <3>3. SendersAreKnown'
      BY <1>2, <3>1, Zenon DEF AddressInv, SendersAreKnown, Arrivals!AddressIsTheSenders,
         Arrivals!KeyAdmitsSender, Arrivals!Traceable
    <3> QED
      BY <3>2, <3>3, Zenon DEF AddressInv
  <2> QED
    BY <1>2, <2>1, RelayStep, ArrivalStep, Zenon DEF Arrivals!Next
<1>3. AddressInv => SendersAreKnown
  BY Zenon DEF AddressInv
<1> QED
  BY <1>1, <1>2, <1>3, PTL DEF Arrivals!Spec

=============================================================================
