------------------------------ MODULE Catalog ------------------------------
(***************************************************************************)
(* Which models the gateway lists and which it serves: the configuration   *)
(* that is validated and loaded, the registry of models, the aliases and   *)
(* lists of ModelNames, the models that backends advertise, the virtual    *)
(* models of the orchestrator, /v1/models, the lookup of a request up to   *)
(* its candidates, and the admin operations on all of them.                *)
(*                                                                         *)
(* patchModel holds a pointer to the registry's entry while it reads its   *)
(* body, so another request may replace or delete the entry under it.      *)
(***************************************************************************)
EXTENDS ModelNames, FiniteSetsExt

CONSTANTS
    Configs,      \* configuration files
    Serves,       \* backend -> the models it advertises
    Modes,        \* capability modes that admin requests carry
    Descriptors,  \* capability descriptors: feature -> BOOLEAN
    Registered,   \* names that registry entries are edited under
    Features,     \* what a request may use: tools, images, thinking
    NoName

VARIABLES
    config,    \* the loaded configuration of the orchestrator
    models,    \* the registry: name -> [enabled, mode, caps]
    backends,  \* registered backends -> whether they are enabled
    patch,     \* the patchModel request that reads its body
    fresh      \* the process has just started

names   == <<aliases, denied, allowed>>
catvars == <<names, config, models, backends, patch, fresh>>

-----------------------------------------------------------------------------
(* Configuration *)

validCapabilityMode(mode) == mode \in {"passthrough", "declared", "strict"}

\* An absent mode is passthrough.
Filled(mode) == IF mode = "" THEN "passthrough" ELSE mode

Real(c) == DOMAIN c.models \cup DOMAIN c.aliases \cup UNION {Serves[b] : b \in DOMAIN c.backends}

Virtuals(c) == IF c.enabled THEN {c.router, c.conductor} \ {NoName} ELSE {}

\* Mutant: an alias may have the name of a virtual model.
ValidRefsNoAliases(c) ==
    c.enabled => /\ Virtuals(c) \cap (Real(c) \ DOMAIN c.aliases) = {}
                 /\ \A w \in c.workers : \E b \in DOMAIN c.backends : w \in Serves[b]

\* validateOrchestrationRefs
ValidRefs(c) ==
    c.enabled => /\ Virtuals(c) \cap Real(c) = {}
                 /\ \A w \in c.workers : \E b \in DOMAIN c.backends : w \in Serves[b]

\* validate of the orchestration section
ValidSection(c) ==
    c.enabled => /\ Virtuals(c) # {} /\ c.router # c.conductor
                 /\ c.workers # {} /\ c.steps <= 5

Validate(c) ==
    /\ \A b \in DOMAIN c.backends : Serves[b] # {}
    /\ \A n \in DOMAIN c.models : c.models[n].mode = "" \/ validCapabilityMode(c.models[n].mode)
    /\ ValidSection(c) /\ ValidRefs(c)

\* Without orchestration the rest of its section is not looked at.
NoOrchestrator == [enabled |-> FALSE, router |-> NoName, conductor |-> NoName, workers |-> {}, steps |-> 5]

\* LoadFromConfig, with the defaults that validate fills in.
Load(c) ==
    /\ config = IF ~c.enabled THEN NoOrchestrator
                ELSE [enabled |-> TRUE, router |-> c.router, conductor |-> c.conductor,
                      workers |-> c.workers, steps |-> IF c.steps <= 0 THEN 5 ELSE c.steps]
    /\ models = [n \in DOMAIN c.models |-> [c.models[n] EXCEPT !.mode = Filled(@)]]
    /\ aliases = c.aliases /\ backends = c.backends

NoPatch == [name |-> NoName, on |-> {}, mode |-> {}, caps |-> {}, held |-> {}]

CatInit ==
    /\ \E c \in Configs : Validate(c) /\ Load(c)
    /\ denied = {} /\ allowed = {} /\ patch = NoPatch /\ fresh = TRUE

-----------------------------------------------------------------------------
(* What a request finds *)

Virtual == Virtuals(config)

\* Disabled in the registry.
Off(n) == n \in DOMAIN models /\ ~models[n].enabled

\* cap_
Able(caps, f, unsetMeansAllow) == IF f \in DOMAIN caps THEN caps[f] ELSE unsetMeansAllow

\* Check: the features of the request that the entry does not allow.
Check(e, uses) ==
    IF e.mode = "passthrough" \/ (e.mode = "declared" /\ DOMAIN e.caps = {}) THEN {}
    ELSE {f \in uses : ~Able(e.caps, f, e.mode = "declared")}

Unable(n, uses) == n \in DOMAIN models /\ Check(models[n], uses) # {}

\* Forward, from the name to the backends: what becomes of a request.
Outcome(n, uses) ==
    LET r == Resolve(n).internal
    IN  CASE ~ModelAllowedResolved(n, r) -> "model_not_allowed"
          [] ModelAllowedResolved(n, r) /\ r \in Virtual ->
                IF Unable(r, uses) THEN "not_supported" ELSE "orchestrated"
          [] OTHER ->
                IF Off(r) THEN "disabled"
                ELSE IF Unable(r, uses) THEN "not_supported"
                ELSE IF \A b \in DOMAIN backends : r \notin Serves[b] THEN "unknown"
                ELSE IF \E b \in DOMAIN backends : r \in Serves[b] /\ backends[b] THEN "routed"
                ELSE "no_backend"

\* Mutant: an alias is listed by its own name.
ListedAliasesByName ==
    {a \in DOMAIN aliases : aliases[a].enabled /\ ~Off(aliases[a].to) /\ ModelAllowedResolved(a, a)}

ListedAliases ==
    {a \in DOMAIN aliases : /\ aliases[a].enabled /\ ~Off(aliases[a].to)
                            /\ ModelAllowedResolved(a, Resolve(a).internal)}

\* What enabled backends advertise.
Advertised == UNION {Serves[b] : b \in {c \in DOMAIN backends : backends[c]}}

\* The names that are listed as they are.
Plain == {n \in Advertised : ~Off(n)} \cup {n \in DOMAIN models : ~Off(n)} \cup Virtual

\* ListModels
ListModels == {n \in Plain : ModelAllowedResolved(n, n)} \cup ListedAliases

-----------------------------------------------------------------------------
(* The admin API *)

Model == [enabled : BOOLEAN, caps : Descriptors,
          mode : {m \in {Filled(x) : x \in Modes} : validCapabilityMode(m)}]

Put(n, e) == models' = [k \in DOMAIN models \cup {n} |-> IF k = n THEN e ELSE models[k]]

\* The entry that a patch points to leaves the registry: the patch keeps it.
Leaves(n) ==
    patch' = IF patch.name = n /\ patch.held = {} THEN [patch EXCEPT !.held = {models[n]}] ELSE patch

\* upsertModel: a new entry, enabled unless the body says otherwise.
UpsertModelAs(n, e) ==
    /\ Put(n, e) /\ Leaves(n) /\ fresh' = FALSE
    /\ UNCHANGED <<names, config, backends>>

\* deleteModel
DeleteModel(n) ==
    /\ models' = [k \in DOMAIN models \ {n} |-> models[k]]
    /\ Leaves(n) /\ fresh' = FALSE
    /\ UNCHANGED <<names, config, backends>>

\* patchModel: the lookup.  Of a field that the body may leave out, the set
\* of its values has at most one member.
BeginPatch(n, on, mode, caps) ==
    /\ patch = NoPatch /\ n \in DOMAIN models
    /\ patch' = [name |-> n, on |-> on, mode |-> mode, caps |-> caps, held |-> {}] /\ fresh' = FALSE
    /\ UNCHANGED <<names, config, models, backends>>

\* The entry a patch writes to: the registry's, or one that has left it.
Pointed == IF patch.held = {} THEN models[patch.name] ELSE CHOOSE e \in patch.held : TRUE

\* if body.Enabled != nil
Switched(e, on) == [e EXCEPT !.enabled = IF on = {} THEN @ ELSE TRUE \in on]

\* The first member of a body's field, or what was there.
Given(field, old) == IF field = {} THEN old ELSE CHOOSE x \in field : TRUE

\* patchModel with a body that does not parse.
PatchAborted ==
    /\ patch # NoPatch /\ patch' = NoPatch /\ fresh' = FALSE
    /\ UNCHANGED <<names, config, models, backends>>

\* patchModel with a mode that is refused: the entry is already changed.
PatchRefused ==
    /\ patch # NoPatch /\ \E m \in patch.mode : ~validCapabilityMode(m)
    /\ IF patch.held = {} THEN Put(patch.name, Switched(Pointed, patch.on)) ELSE UNCHANGED models
    /\ patch' = NoPatch /\ fresh' = FALSE
    /\ UNCHANGED <<names, config, backends>>

\* patchModel to its end: the entry is stored, also when it had left the
\* registry.
PatchDone ==
    /\ patch # NoPatch /\ \A m \in patch.mode : validCapabilityMode(m)
    /\ Put(patch.name, [Switched(Pointed, patch.on) EXCEPT !.mode = Given(patch.mode, @),
                                                           !.caps = Given(patch.caps, @)])
    /\ patch' = NoPatch /\ fresh' = FALSE
    /\ UNCHANGED <<names, config, backends>>

\* createBackend, enableBackend and disableBackend
PutBackend(b, on) ==
    /\ backends' = [c \in DOMAIN backends \cup {b} |-> IF c = b THEN on ELSE backends[c]]
    /\ fresh' = FALSE
    /\ UNCHANGED <<names, config, models, patch>>

DeleteBackend(b) ==
    /\ backends' = [c \in DOMAIN backends \ {b} |-> backends[c]]
    /\ fresh' = FALSE
    /\ UNCHANGED <<names, config, models, patch>>

\* The operations of ModelNames: aliases and a key's lists.
EditNames == Next /\ fresh' = FALSE /\ UNCHANGED <<config, models, backends, patch>>

\* A body's field: left out, or one of the values.
Field(values) == {{}} \cup {{x} : x \in values}

CatNext ==
    \/ \E n \in Registered : (\E e \in Model : UpsertModelAs(n, e)) \/ DeleteModel(n)
    \/ \E n \in Registered, on \in Field(BOOLEAN), mode \in Field(Modes), caps \in Field(Descriptors) :
            BeginPatch(n, on, mode, caps)
    \/ PatchAborted \/ PatchRefused \/ PatchDone
    \/ \E b \in DOMAIN Serves : (\E on \in BOOLEAN : PutBackend(b, on)) \/ DeleteBackend(b)
    \/ EditNames

CatSpec == CatInit /\ [][CatNext]_catvars

-----------------------------------------------------------------------------
(* Properties *)

\* Every variable has its type; in particular every stored mode is valid,
\* from the file, from upserts and from patches, refused ones included.
CatTypeOK ==
    /\ TypeOK
    /\ DOMAIN models \subseteq Names /\ DOMAIN backends \subseteq DOMAIN Serves
    /\ \A n \in DOMAIN models : validCapabilityMode(models[n].mode) /\ models[n].enabled \in BOOLEAN
    /\ config.steps \in 1 .. 5

\* A name that /v1/models shows to a key is not refused to it for lack of
\* permission, as the comment in ListModels promises; except where an alias
\* has the name of a model, which is listed for the model and resolved as
\* the alias.
ListedIsAllowed ==
    \A n \in ListModels \ {k \in Plain : Active(k)} : Outcome(n, {}) # "model_not_allowed"

\* What a request reaches is listed; except behind an alias of a name that
\* the registry disables and that is an alias or a virtual model as well.
ServedIsListed ==
    \A n \in Names :
        Outcome(n, {}) \in {"routed", "orchestrated"} =>
            \/ n \in ListModels
            \/ Active(n) /\ LET to == aliases[n].to IN Off(to) /\ (Active(to) \/ to \in Virtual)

\* A configuration that passes Validate serves every virtual model, has a
\* backend for every worker's model and lets no virtual model hide a real one.
StartServes ==
    fresh => /\ \A v \in Virtual : Outcome(v, {}) = "orchestrated" /\ v \in ListModels
             /\ config.enabled => config.workers \subseteq UNION {Serves[b] : b \in DOMAIN backends}
             /\ \A b \in DOMAIN backends : \A n \in Serves[b] :
                    ~Active(n) => Outcome(n, {}) # "orchestrated"

\* What declared mode refuses strict mode refuses, and passthrough nothing;
\* a feature that is declared is decided alike in both.
StrictIsStricter ==
    \A caps \in Descriptors, uses \in SUBSET Features :
        LET by(mode) == Check([mode |-> mode, caps |-> caps], uses)
        IN  /\ by("passthrough") = {}
            /\ by("declared") \subseteq by("strict")
            /\ by("strict") \ by("declared") = uses \ DOMAIN caps

=============================================================================
