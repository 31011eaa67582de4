---------------------------- MODULE ClientAddress ----------------------------
(***************************************************************************)
(* Who sent a request, and whether its API key admits it: a request passes *)
(* through proxies that append to X-Forwarded-For, the extractor works out *)
(* the client's address from the headers and the peer, and the             *)
(* authenticator checks the key and its lists of addresses.                *)
(*                                                                         *)
(* An address stands for its canonical form; an entry that is no address   *)
(* is Junk.  X-Forwarded-For may come in several lines, of which           *)
(* Header.Get returns the first; a proxy joins the lines and appends its   *)
(* peer, or adds a line of its own.                                        *)
(***************************************************************************)
EXTENDS Integers, Sequences

CONSTANTS
    Machines,   \* the addresses
    Trusted,    \* server.trusted_proxies
    Junk,       \* an entry that does not parse
    Absent,     \* no X-Real-IP
    Keys,       \* API keys: [known, enabled, expired, denied, allowed]
    MaxEntries, \* bound on the entries that the sender writes
    MaxRelays   \* bound on the proxies on the way

\* Proxies are machines, and what is no address is none.
WellFormed ==
    /\ Trusted \subseteq Machines
    /\ Junk \notin Machines
    /\ MaxEntries \in Nat /\ MaxRelays \in Nat

VARIABLES
    sender,    \* the machine the request comes from
    at,        \* where it is now
    xff,       \* the entries of X-Forwarded-For, of all its lines
    inFirst,   \* how many of them are in its first line
    real,      \* X-Real-IP
    relays,    \* proxies passed
    verdict    \* what the authenticator decided, and from what; {} before

vars == <<sender, at, xff, inFirst, real, relays, verdict>>

Entries == Machines \cup {Junk}

\* Any machine sends, with any headers.
Init ==
    /\ sender \in Machines /\ at = sender
    /\ xff \in UNION {[1 .. k -> Entries] : k \in 0 .. MaxEntries}
    /\ inFirst \in 0 .. Len(xff)
    /\ real \in Entries \cup {Absent}
    /\ relays = 0 /\ verdict = {}

\* A trusted proxy passes the request on and says who its peer is: it joins
\* the lines and appends, or adds a line, the first if there was none.
Relay(p) ==
    /\ verdict = {} /\ relays < MaxRelays /\ p # at
    /\ xff' = Append(xff, at)
    /\ inFirst' \in {Len(xff) + 1, inFirst}
    /\ real' \in {real, at}
    /\ at' = p /\ relays' = relays + 1
    /\ UNCHANGED <<sender, verdict>>

-----------------------------------------------------------------------------
(* The extractor *)

isTrustedIP(ip) == ip \in Trusted

\* Header.Get: the first line.
Get(lines) == SubSeq(lines, 1, inFirst)

\* splitForwardedFor drops what is no address; the places of what it keeps.
Split(header) == {i \in DOMAIN header : header[i] # Junk}

\* The entries that are not trusted proxies.
Untrusted(header) == {i \in Split(header) : ~isTrustedIP(header[i])}

\* X-Real-IP, if it is an address that is not trusted, or else the peer.
RealOr(peer, ri) == IF ri \in Machines /\ ~isTrustedIP(ri) THEN ri ELSE peer

\* Mutant: the first entry counts.
ClientIPFirst(peer, header, ri) ==
    LET S == Untrusted(header)
        first == {i \in S : \A j \in S : i <= j}
    IN  IF ~isTrustedIP(peer) THEN peer
        ELSE IF first # {} THEN header[CHOOSE i \in first : TRUE]
        ELSE RealOr(peer, ri)

\* ClientIP: the last entry that is not a trusted proxy.
ClientIP(peer, header, ri) ==
    LET S == Untrusted(header)
        last == {i \in S : \A j \in S : j <= i}
    IN  IF ~isTrustedIP(peer) THEN peer
        ELSE IF last # {} THEN header[CHOOSE i \in last : TRUE]
        ELSE RealOr(peer, ri)

-----------------------------------------------------------------------------
(* The authenticator *)

\* What the API key header holds.
Headers == {"absent", "wrong_prefix", "blank", "key"}

\* extractKey: the raw key, empty when the header is absent or blank.
extractKey(header) == [raw |-> header = "key", prefixOK |-> header # "wrong_prefix"]

\* MatchAny
MatchAny(ip, list) == ip \in list

\* Middleware, check by check.
Middleware(header, key, ip) ==
    LET x == extractKey(header)
    IN  IF ~x.prefixOK \/ ~x.raw \/ ~key.known \/ ~key.enabled \/ key.expired THEN "invalid_api_key"
        ELSE IF key.denied # {} /\ MatchAny(ip, key.denied) THEN "client_ip_not_allowed"
        ELSE IF key.allowed # {} /\ ~MatchAny(ip, key.allowed) THEN "client_ip_not_allowed"
        ELSE "admitted"

\* The request arrives.
Arrive(header, key) ==
    /\ verdict = {}
    /\ LET ip == ClientIP(at, Get(xff), real)
       IN  verdict' = {[header |-> header, key |-> key, ip |-> ip, code |-> Middleware(header, key, ip)]}
    /\ UNCHANGED <<sender, at, xff, inFirst, real, relays>>

\* The request is sent again, the same way.
Again == verdict # {} /\ verdict' = {} /\ UNCHANGED <<sender, at, xff, inFirst, real, relays>>

Next == \/ \E p \in Trusted : Relay(p)
        \/ \E header \in Headers, key \in Keys : Arrive(header, key)
        \/ Again

Spec == Init /\ [][Next]_vars

-----------------------------------------------------------------------------
(* Properties *)

\* What the proxies wrote can be traced: the sender is none of them, and they
\* appended to the one line that Get returns.
Traceable == sender \notin Trusted /\ inFirst = Len(xff)

\* The address that is checked and logged is the sender's, however many
\* trusted proxies the request passed and whatever its headers said before,
\* if they append to one line; for any other request it is an address, not
\* junk.
AddressIsTheSenders ==
    \A v \in verdict : v.ip \in Machines /\ (Traceable => v.ip = sender)

\* A request is admitted exactly when its key is good and the sender is on
\* the right side of the key's lists.
KeyAdmitsSender ==
    \A v \in verdict :
        Traceable =>
            (v.code = "admitted" <=>
                /\ v.header = "key" /\ v.key.known /\ v.key.enabled /\ ~v.key.expired
                /\ sender \notin v.key.denied
                /\ v.key.allowed = {} \/ sender \in v.key.allowed)

=============================================================================
