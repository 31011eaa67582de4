----------------------------- MODULE ModelNames -----------------------------
(***************************************************************************)
(* What a requested model name stands for and who may use it: alias chains *)
(* (ResolveAlias), the patterns of a key's allow and deny lists            *)
(* (matchPattern, ModelAllowedResolved), and the admin operations that     *)
(* edit both.  A name is a sequence of letters, since the patterns are     *)
(* about letters.                                                          *)
(***************************************************************************)
EXTENDS Integers, Sequences, SequencesExt, FiniteSets

CONSTANTS
    Names,         \* every model and alias name
    AliasNames,    \* the ones that aliases are edited under
    Patterns,      \* patterns that the key's lists are edited with
    FirstAliases,  \* aliases from the configuration file
    MaxHops        \* 8 in the code

VARIABLES
    aliases,   \* alias -> [to, enabled, keep]
    denied,    \* denied_models of the key
    allowed    \* allowed_models of the key

vars == <<aliases, denied, allowed>>

Init == aliases \in FirstAliases /\ denied = {} /\ allowed = {}

-----------------------------------------------------------------------------
(* Aliases *)

Active(n) == n \in DOMAIN aliases /\ aliases[n].enabled

\* The hops of ResolveAlias from a name; a name that was left before, or
\* that is no alias, is not left.
Path(n) ==
    LET path[i \in 0 .. MaxHops] ==
            IF i = 0 THEN n
            ELSE LET cur == path[i - 1]
                 IN  IF Active(cur) /\ \A j \in 0 .. i - 2 : path[j] # cur
                     THEN aliases[cur].to ELSE cur
    IN  path

\* ResolveAlias: the internal model and the name that is sent upstream.
Resolve(n) ==
    LET internal == Path(n)[MaxHops]
    IN  [internal |-> internal, forward |-> IF Active(n) /\ aliases[n].keep THEN n ELSE internal]

-----------------------------------------------------------------------------
(* Permissions *)

\* strings.Split(pattern, "*")
Parts(p) ==
    FoldLeft(LAMBDA acc, c : IF c = "*" THEN Append(acc, << >>)
                             ELSE [acc EXCEPT ![Len(acc)] = Append(@, c)], << << >> >>, p)

\* The first place from pos on where seg occurs in v, or 0.
Index(v, pos, seg) ==
    LET at == {k \in pos .. Len(v) - Len(seg) + 1 : SubSeq(v, k, k + Len(seg) - 1) = seg}
    IN  IF at = {} THEN 0 ELSE CHOOSE k \in at : \A j \in at : k <= j

\* The position behind the middle parts, or 0 if one is missing.
Behind(v, pos, segs) ==
    FoldLeft(LAMBDA q, seg : IF q = 0 \/ Index(v, q, seg) = 0 THEN 0 ELSE Index(v, q, seg) + Len(seg),
             pos, segs)

\* Mutant: the last part may overlap the others.
MatchPatternOverlap(p, v) ==
    LET parts == Parts(p)
        pos   == Behind(v, IF IsPrefix(parts[1], v) THEN Len(parts[1]) + 1 ELSE 0,
                        SubSeq(parts, 2, Len(parts) - 1))
    IN  /\ p # << >>
        /\ \/ p = v
           \/ Len(parts) > 1 /\ pos # 0 /\ IsSuffix(Last(parts), v)

\* matchPattern
MatchPattern(p, v) ==
    LET parts == Parts(p)
        pos   == Behind(v, IF IsPrefix(parts[1], v) THEN Len(parts[1]) + 1 ELSE 0,
                        SubSeq(parts, 2, Len(parts) - 1))
    IN  /\ p # << >>
        /\ \/ p = v
           \/ Len(parts) > 1 /\ pos # 0 /\ IsSuffix(Last(parts), SubSeq(v, pos, Len(v)))

\* ModelAllowedResolved
ModelAllowedResolved(requested, internal) ==
    /\ \A d \in denied : ~MatchPattern(d, requested) /\ ~MatchPattern(d, internal)
    /\ \/ allowed = {}
       \/ \E a \in allowed : MatchPattern(a, requested) \/ MatchPattern(a, internal)

-----------------------------------------------------------------------------
(* The admin API *)

Entry == [to : Names, enabled : BOOLEAN, keep : BOOLEAN]

With(a, e) == [n \in DOMAIN aliases \cup {a} |-> IF n = a THEN e ELSE aliases[n]]

\* upsertAlias
UpsertAlias(a) == \E e \in Entry : aliases' = With(a, e) /\ UNCHANGED <<denied, allowed>>

\* patchAlias writes the stored alias field by field: when the mode is
\* refused the new internal model is already in place.
PatchAlias(a) ==
    /\ a \in DOMAIN aliases
    /\ \/ \E e \in Entry : aliases' = With(a, e)
       \/ \E to \in Names : aliases' = With(a, [aliases[a] EXCEPT !.to = to])
    /\ UNCHANGED <<denied, allowed>>

\* deleteAlias
DeleteAlias(a) ==
    /\ aliases' = [n \in DOMAIN aliases \ {a} |-> aliases[n]]
    /\ UNCHANGED <<denied, allowed>>

\* patchAPIKey: a list is replaced.
PatchKey ==
    /\ Patterns # {}
    /\ \E p \in Patterns : \/ denied' = {p} /\ UNCHANGED allowed
                           \/ allowed' = {p} /\ UNCHANGED denied
    /\ UNCHANGED aliases

Next == \/ \E a \in AliasNames : UpsertAlias(a) \/ PatchAlias(a) \/ DeleteAlias(a)
        \/ PatchKey

Spec == Init /\ [][Next]_vars

-----------------------------------------------------------------------------
(* Properties *)

\* Every variable has its type.
TypeOK ==
    /\ DOMAIN aliases \subseteq Names
    /\ \A a \in DOMAIN aliases : aliases[a] \in Entry
    /\ denied \subseteq Patterns /\ allowed \subseteq Patterns

\* The names that following enabled aliases may lead to: the least set that
\* holds the name and is closed under them.
Reach(n) ==
    LET closed == {S \in SUBSET Names : n \in S /\ \A m \in S : Active(m) => aliases[m].to \in S}
    IN  {m \in Names : \A S \in closed : m \in S}

\* If the chain of a name ends within the limit of hops, the name stands for
\* its end; if it runs into a cycle, for a name on the cycle.
AliasesResolve ==
    LET Hops(n) == {m \in Reach(n) : Active(m)}
    IN  \A n \in Names :
            LET r == Resolve(n).internal
            IN  Cardinality(Hops(n)) <= MaxHops =>
                    IF Hops(n) # Reach(n) THEN r \in Reach(n) \ Hops(n)
                    ELSE r \in Reach(n) /\ r \in Reach(aliases[r].to)

\* What a pattern means: a star stands for any letters.
Glob(p, v) ==
    LET g[i \in 1 .. Len(p) + 1, j \in 1 .. Len(v) + 1] ==
            IF i > Len(p) THEN j > Len(v)
            ELSE IF p[i] = "*" THEN g[i + 1, j] \/ (j <= Len(v) /\ g[i, j + 1])
            ELSE j <= Len(v) /\ p[i] = v[j] /\ g[i + 1, j + 1]
    IN  g[1, 1]

\* The greedy search of matchPattern decides exactly what the patterns mean.
PatternsMatch ==
    \A p \in denied \cup allowed, n \in Names : MatchPattern(p, n) = Glob(p, n)

\* No alias leads around a deny list, and a key with an allow list uses only
\* what it names, directly or behind an alias.
ListsAreObeyed ==
    \A n \in Names :
        LET r == Resolve(n).internal
        IN  ModelAllowedResolved(n, r) =>
                /\ \A d \in denied : ~Glob(d, n) /\ ~Glob(d, r)
                /\ allowed # {} => \E a \in allowed : Glob(a, n) \/ Glob(a, r)

=============================================================================
