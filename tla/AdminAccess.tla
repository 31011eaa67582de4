---------------------------- MODULE AdminAccess ----------------------------
(***************************************************************************)
(* Who may use the admin API: users with roles, session tokens that carry  *)
(* the role of the moment of login, logout, and a restart, after which the *)
(* users are those of the configuration and tokens are signed with a new   *)
(* secret.  A login compares a slow password hash between reading the user *)
(* and signing the token; a request is authenticated before it is handled. *)
(***************************************************************************)
EXTENDS Integers, FiniteSets

CONSTANTS
    Clients,       \* requests under way
    Configured,    \* [names of users -> the configured role, or "absent"]
    Bodies,        \* the roles that createUser is asked for
    BindToken,     \* BOOLEAN: admin.bind_token is set
    Legacy,        \* BOOLEAN: admin.username is set
    Ttl,           \* of a session: 12 hours, in ticks
    MaxHold,       \* a login or a request takes at most so many ticks
    MaxTokens, MaxTime, MaxRestarts,   \* bounds
    None

Names == DOMAIN Configured
Roles == {"super_admin", "admin", "operator", "viewer", "auditor"}

\* What the results below ask of the constants; no user has the name that
\* authMiddleware gives to the bind token or to the single user of old.
WellFormed ==
    /\ Ttl \in Nat /\ MaxHold \in Nat
    /\ Configured \in [Names -> Roles \cup {"absent"}]
    /\ {"token", "legacy"} \cap Names = {} /\ None \notin Roles

ASSUME AccessAssumption == WellFormed

VARIABLES
    now,
    users,     \* [Names -> Roles \cup {"absent"}]
    secret,    \* the number of the process, for its signing secret
    tokens,    \* the tokens that clients have: [id, user, role, exp, secret]
    revoke,    \* IDs of revoked tokens
    pc,        \* [Clients -> {"idle", "login", "handling"}]
    as,        \* [Clients -> the user looked up or authenticated: [user, role, token]]
    since,     \* [Clients -> when that was]
    held,      \* history: [Names -> [Roles -> when the user last had the role; before: -1]]
    left       \* history: tokens that were used to log out

vars == <<now, users, secret, tokens, revoke, pc, as, since, held, left>>

Nobody == [user |-> None, role |-> None, token |-> 0]

Init ==
    /\ now = 0 /\ users = Configured /\ secret = 1
    /\ tokens = {} /\ revoke = {} /\ left = {}
    /\ pc = [c \in Clients |-> "idle"] /\ as = [c \in Clients |-> Nobody]
    /\ since = [c \in Clients |-> 0]
    /\ held = [u \in Names |-> [r \in Roles |-> IF users[u] = r THEN 0 ELSE -1]]

\* The history of the roles, whenever users or the time change.
Remember == held' = [u \in Names |-> [r \in Roles |-> IF users'[u] = r THEN now' ELSE held[u][r]]]

Begin(c, step, who) ==
    /\ pc[c] = "idle" /\ pc' = [pc EXCEPT ![c] = step]
    /\ as' = [as EXCEPT ![c] = who] /\ since' = [since EXCEPT ![c] = now]

End(c) ==
    /\ pc' = [pc EXCEPT ![c] = "idle"]
    /\ as' = [as EXCEPT ![c] = Nobody] /\ since' = [since EXCEPT ![c] = 0]

-----------------------------------------------------------------------------
(* Sessions *)

\* Mutant: the expiry is not looked at.
VerifyForever(t) == t.secret = secret /\ t.id \notin revoke

\* Verify: signed by this process, not expired, not revoked.
Verify(t) == t.secret = secret /\ now <= t.exp /\ t.id \notin revoke

\* loginHandler finds the user and begins to compare the password.
Login(c, u) ==
    /\ users[u] # "absent"
    /\ Begin(c, "login", [user |-> u, role |-> users[u], token |-> 0])
    /\ UNCHANGED <<now, users, secret, tokens, revoke, held, left>>

\* The password matches: Mint signs a token for the role that was found.
Mint(c) ==
    /\ pc[c] = "login"
    /\ Cardinality(tokens) < MaxTokens
    /\ tokens' = tokens \cup {[id |-> Cardinality(tokens) + 1, user |-> as[c].user,
                               role |-> as[c].role, exp |-> now + Ttl, secret |-> secret]}
    /\ End(c)
    /\ UNCHANGED <<now, users, secret, revoke, held, left>>

\* The password does not match, or the client is gone.
LoginFails(c) ==
    /\ pc[c] = "login"
    /\ End(c)
    /\ UNCHANGED <<now, users, secret, tokens, revoke, held, left>>

\* logoutHandler
Logout(t) ==
    /\ Verify(t)
    /\ revoke' = revoke \cup {t.id} /\ left' = left \cup {t.id}
    /\ UNCHANGED <<now, users, secret, tokens, pc, as, since, held>>

-----------------------------------------------------------------------------
(* Requests *)

\* authMiddleware: whom a request acts for.
Authenticate(c) ==
    /\ \/ /\ BindToken
          /\ Begin(c, "handling", [user |-> "token", role |-> "super_admin", token |-> 0])
       \/ \E t \in tokens :
             /\ Verify(t)
             /\ Begin(c, "handling", [user |-> t.user, role |-> t.role, token |-> t.id])
       \/ \E u \in Names :
             /\ users[u] # "absent"
             /\ Begin(c, "handling", [user |-> u, role |-> users[u], token |-> 0])
       \/ /\ Legacy
          /\ Begin(c, "handling", [user |-> "legacy", role |-> "admin", token |-> 0])
    /\ UNCHANGED <<now, users, secret, tokens, revoke, held, left>>

\* HasPermission
HasPermission(role, action) ==
    \/ role = "super_admin"
    \/ role = "admin" /\ action # "manage_users"
    \/ role = "operator" /\ action \in {"read", "backend_toggle", "view_logs"}
    \/ role = "viewer" /\ action \in {"read", "view_logs"}
    \/ role = "auditor" /\ action \in {"read", "view_logs", "view_audit"}

\* NormalizeRole, and the default of createUser.
NormalizeRole(r) == IF r \in Roles THEN r ELSE "viewer"

\* requirePerm and createUser or deleteUser.
ManageUsers(c) ==
    /\ pc[c] = "handling"
    /\ HasPermission(as[c].role, "manage_users")
    /\ \E u \in Names : \/ \E r \in Bodies : users' = [users EXCEPT ![u] = NormalizeRole(r)]
                        \/ users' = [users EXCEPT ![u] = "absent"]
    /\ End(c)
    /\ UNCHANGED <<now, secret, tokens, revoke, left>>
    /\ Remember

\* A request that is refused, or does something else.
Other(c) ==
    /\ pc[c] = "handling"
    /\ End(c)
    /\ UNCHANGED <<now, users, secret, tokens, revoke, held, left>>

-----------------------------------------------------------------------------
(* The process and the clock *)

\* Mutant: the secret survives, the list of revoked tokens does not.
RestartSameSecret ==
    /\ secret <= MaxRestarts
    /\ secret' = secret /\ users' = Configured /\ revoke' = {}
    /\ pc' = [c \in Clients |-> "idle"] /\ as' = [c \in Clients |-> Nobody]
    /\ since' = [c \in Clients |-> 0]
    /\ UNCHANGED <<now, tokens, left>>
    /\ Remember

\* The process ends and starts anew: NewSessionManager draws a secret and
\* LoadFromConfig reads the users.
Restart ==
    /\ secret <= MaxRestarts
    /\ secret' = secret + 1 /\ users' = Configured /\ revoke' = {}
    /\ pc' = [c \in Clients |-> "idle"] /\ as' = [c \in Clients |-> Nobody]
    /\ since' = [c \in Clients |-> 0]
    /\ UNCHANGED <<now, tokens, left>>
    /\ Remember

Tick ==
    /\ now < MaxTime /\ now' = now + 1
    /\ \A c \in Clients : pc[c] # "idle" => now - since[c] < MaxHold
    /\ UNCHANGED <<users, secret, tokens, revoke, pc, as, since, left>>
    /\ Remember

Next ==
    \/ \E c \in Clients : \E u \in Names : Login(c, u)
    \/ \E c \in Clients : Mint(c) \/ LoginFails(c)
    \/ \E t \in tokens : Logout(t)
    \/ \E c \in Clients : Authenticate(c) \/ ManageUsers(c) \/ Other(c)
    \/ Restart \/ Tick

Spec == Init /\ [][Next]_vars

-----------------------------------------------------------------------------
(* Properties *)

TypeOK ==
    /\ users \in [Names -> Roles \cup {"absent"}]
    /\ \A t \in tokens : t.user \in Names /\ t.role \in Roles /\ t.exp <= now + Ttl
    /\ \A c \in Clients : (pc[c] = "idle") = (as[c] = Nobody)

\* How long ago the user of a request had the role it acts with.
Age(c) == now - held[as[c].user][as[c].role]

\* Whoever acts as a user has, or had, the role: with a password when the
\* request began, with a session no longer ago than its ttl and the login that
\* began it.  A user who is deleted or demoted is out after that time.
ActorsHadTheRole ==
    \A c \in Clients : pc[c] = "handling" /\ as[c].user \in Names =>
        /\ held[as[c].user][as[c].role] >= 0
        /\ Age(c) <= (now - since[c]) + IF as[c].token = 0 THEN 0 ELSE Ttl + MaxHold

NotAfterLogout ==
    \A c \in Clients : pc[c] = "idle" /\ pc'[c] = "handling" => as'[c].token \notin left

\* Whoever acts as a user had the role when the request began or, with a
\* session, no longer before than its ttl and the login that began it
\* (loginHandler, Verify, authMiddleware).
RolesAreRecent == TypeOK /\ ActorsHadTheRole

\* No request begins with a token that was logged out, not after a restart
\* either, which forgets the list of revoked tokens (Revoke, Verify).
LogoutIsFinal == [][NotAfterLogout]_vars

=============================================================================
