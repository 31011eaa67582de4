------------------------------ MODULE KeyIndex ------------------------------
(***************************************************************************)
(* The two tables of the store that hold API keys, apiKeys (by ID) and     *)
(* keyByHash, for one key ID, under concurrent admin requests.  Each store *)
(* operation is atomic; the handlers make several of them, and rotate      *)
(* clears the hash of the shared object in between without a lock.         *)
(***************************************************************************)
EXTENDS Naturals

CONSTANTS
    Admins,    \* admin requests in progress
    Objects,   \* key objects; one that no one refers to is new
    Hashes,    \* hashes of raw keys; one that no one refers to is new
    None,
    Recreate   \* whether createAPIKey is called with an ID in use

\* What the constants have to be.
WellFormed == None \notin Objects \cup Hashes /\ Recreate \in BOOLEAN

VARIABLES
    entry,     \* Store.apiKeys[id]
    index,     \* [Hashes -> Objects and None]: Store.keyByHash
    hash,      \* [Objects -> Hashes and None]: APIKey.KeyHash
    pc,        \* [Admins -> Steps]
    held       \* [Admins -> Objects and None]: the handler's key object

Steps == {"idle", "patching", "rotating", "clearing", "issuing"}
vars  == <<entry, index, hash, pc, held>>

Init ==
    /\ entry = None
    /\ index = [h \in Hashes |-> None]
    /\ hash = [o \in Objects |-> None]
    /\ pc = [a \in Admins |-> "idle"]
    /\ held = [a \in Admins |-> None]

NewObject(o) == /\ o # entry
                /\ \A h \in Hashes : index[h] # o
                /\ \A a \in Admins : held[a] # o
NewHash(h)   == /\ index[h] = None
                /\ \A o \in Objects : hash[o] # h

-----------------------------------------------------------------------------
(* The store *)

\* APIKey(id) found the key; otherwise the handler answers 404.
Found == entry # None

\* Mutant: only a new raw key is indexed.
UpsertUnindexed(k, h) ==
    /\ hash' = IF h = None THEN hash ELSE [hash EXCEPT ![k] = h]
    /\ entry' = k
    /\ index' = IF h = None THEN index ELSE [index EXCEPT ![h] = k]

\* UpsertAPIKey(k, rawKey), h the hash of rawKey or None for no raw key.
UpsertAPIKey(k, h) ==
    /\ hash' = IF h = None THEN hash ELSE [hash EXCEPT ![k] = h]
    /\ entry' = k
    /\ index' = IF hash'[k] = None THEN index ELSE [index EXCEPT ![hash'[k]] = k]

\* Mutant: the index keeps the hash.
DeleteEntryOnly == entry' = None /\ UNCHANGED index

DeleteAPIKey ==
    /\ index' = IF entry = None \/ hash[entry] = None THEN index
                ELSE [index EXCEPT ![hash[entry]] = None]
    /\ entry' = None

-----------------------------------------------------------------------------
(* The admin handlers *)

Goto(a, step, k) == pc' = [pc EXCEPT ![a] = step] /\ held' = [held EXCEPT ![a] = k]

\* createAPIKey
Create(a) ==
    /\ pc[a] = "idle"
    /\ entry = None \/ Recreate
    /\ \E o \in Objects, h \in Hashes : NewObject(o) /\ NewHash(h) /\ UpsertAPIKey(o, h)
    /\ UNCHANGED <<pc, held>>

\* deleteAPIKey
Delete(a) ==
    /\ pc[a] = "idle"
    /\ DeleteAPIKey
    /\ UNCHANGED <<hash, pc, held>>

\* patchAPIKey, setAPIKeyEnabled and rotateAPIKey look the key up ...
Load(a) ==
    /\ pc[a] = "idle"
    /\ Found
    /\ \E step \in {"patching", "rotating"} : Goto(a, step, entry)
    /\ UNCHANGED <<entry, index, hash>>

\* ... a patch changes fields of the object and puts it back ...
Patch(a) ==
    /\ pc[a] = "patching"
    /\ UpsertAPIKey(held[a], None)
    /\ Goto(a, "idle", None)

\* ... a rotation takes the key out of the tables ...
RotateDelete(a) ==
    /\ pc[a] = "rotating"
    /\ DeleteAPIKey
    /\ Goto(a, "clearing", held[a])
    /\ UNCHANGED hash

\* ... clears its hash ...
RotateClear(a) ==
    /\ pc[a] = "clearing"
    /\ hash' = [hash EXCEPT ![held[a]] = None]
    /\ Goto(a, "issuing", held[a])
    /\ UNCHANGED <<entry, index>>

\* ... and puts it back with a new raw key.
RotateIssue(a) ==
    /\ pc[a] = "issuing"
    /\ \E h \in Hashes : NewHash(h) /\ UpsertAPIKey(held[a], h)
    /\ Goto(a, "idle", None)

Next == \E a \in Admins : \/ Create(a) \/ Delete(a) \/ Load(a) \/ Patch(a)
                          \/ RotateDelete(a) \/ RotateClear(a) \/ RotateIssue(a)

Spec == Init /\ [][Next]_vars

-----------------------------------------------------------------------------
(* Properties *)

\* Every variable has its type, and a handler past its lookup holds a key.
TypeOK ==
    /\ entry \in Objects \cup {None}
    /\ index \in [Hashes -> Objects \cup {None}]
    /\ hash \in [Objects -> Hashes \cup {None}]
    /\ pc \in [Admins -> Steps]
    /\ held \in [Admins -> Objects \cup {None}]
    /\ \A a \in Admins : pc[a] # "idle" => held[a] # None

\* A handler is about to give the key a new hash.
Issuing(k) == \E a \in Admins : pc[a] = "issuing" /\ held[a] = k

\* A key that is listed authenticates: however create, patch, rotate and
\* delete overlap, the key found by ID is found by its current hash too,
\* unless a rotation that will issue its hash is in progress.
ListedKeyIsIndexed ==
    entry # None /\ ~Issuing(entry) => hash[entry] # None /\ index[hash[entry]] = entry

\* With no admin request in progress a hash finds a key only if the key is
\* listed and the hash is its current one.
IndexIsExact ==
    (\A a \in Admins : pc[a] = "idle") =>
        \A h \in Hashes : index[h] # None => index[h] = entry /\ hash[entry] = h

=============================================================================
