------------------------------ MODULE Coalesce ------------------------------
(***************************************************************************)
(* What tools/coalesce.py decides: which library of an era carries a GUID, *)
(* under which name, and which entry of which release is copied there.     *)
(*                                                                         *)
(* A library is the set of its entries, [guid, name, typed]; a directory   *)
(* of per-release libraries maps each tag to its library ({} when there is *)
(* none).  A destination is <<"core", era>> or <<"only", tag>>.  The two   *)
(* command line experiments that are off by default (--all-spellings and   *)
(* --every-source) are left out.                                           *)
(***************************************************************************)
EXTENDS Integers, FiniteSets

CONSTANTS
    Eras,           \* ERAS, its keys
    Libs,           \* AGE: the tags of the per-release libraries
    EraOf,          \* ERAS: the one era a tag belongs to
    Age,            \* AGE.index
    KeepFolds,      \* FOLDED_POLICY: the eras that keep a folded GUID
    Guids,
    Names,
    Normalise,      \* normalise: the routine a name spells
    Placeholders    \* the names PLACEHOLDER matches

ASSUME ErasPartitionLibs == EraOf \in [Libs -> Eras]
ASSUME AgeOrdersLibs ==
    /\ IsFiniteSet(Libs)
    /\ Age \in [Libs -> Nat]
    /\ \A t, u \in Libs : Age[t] = Age[u] => t = u

Dests == ({"core"} \X Eras) \cup ({"only"} \X Libs)

\* delphi-rtl-core-<era> and the era's delphi-rtl-<tag>-only load together.
LoadedIn(era) ==
    {<<"core", era>>} \cup {<<"only", t>> : t \in {x \in Libs : EraOf[x] = era}}

NamesAt(lib, guid) == {e.name : e \in {x \in lib : x.guid = guid}}

Here(dir, era, guid) ==
    {t \in Libs : EraOf[t] = era /\ NamesAt(dir[t], guid) # {}}

(***************************************************************************)
(* vote, over a function from tags to the name each claims.                *)
(***************************************************************************)
Voters(votes) ==
    LET real == {t \in DOMAIN votes : votes[t] \notin Placeholders}
    IN  IF real = {} THEN DOMAIN votes ELSE real

Agreed(votes) ==
    \A t, u \in Voters(votes) : Normalise[votes[t]] = Normalise[votes[u]]

For(votes, name) == {t \in Voters(votes) : votes[t] = name}

Beats(votes, n, m) ==
    LET tally(x) == Cardinality(For(votes, x))
    IN  \/ tally(n) > tally(m)
        \/ /\ tally(n) = tally(m)
           /\ \E t \in For(votes, n) : \A u \in For(votes, m) : Age[t] > Age[u]

Vote(votes) ==
    LET spellings == {votes[t] : t \in Voters(votes)}
    IN  CHOOSE n \in spellings : \A m \in spellings \ {n} : Beats(votes, n, m)

(***************************************************************************)
(* plan.  A library that spells one routine twice at one GUID leaves the   *)
(* spelling its set of names yields last in `routines`; `order` ranks the  *)
(* names as the string hashes of that process happen to.                   *)
(***************************************************************************)
Folded(dir, era, guid) ==
    \E t \in Here(dir, era, guid) : Cardinality(NamesAt(dir[t], guid)) > 1

Routines(dir, era, guid) ==
    {Normalise[n] : n \in UNION {NamesAt(dir[t], guid) : t \in Here(dir, era, guid)}}

SpellingsIn(lib, guid, routine) ==
    {n \in NamesAt(lib, guid) : Normalise[n] = routine}

LastOf(S, order) == CHOOSE n \in S : \A m \in S : order[m] <= order[n]

RoutineVotes(dir, era, guid, routine, order) ==
    [t \in {x \in Here(dir, era, guid) : SpellingsIn(dir[x], guid, routine) # {}} |->
        LastOf(SpellingsIn(dir[t], guid, routine), order)]

SingleVotes(dir, era, guid) ==
    [t \in Here(dir, era, guid) |-> CHOOSE n \in NamesAt(dir[t], guid) : TRUE]

Dest(dir, era, guid) ==
    IF Cardinality(Here(dir, era, guid)) > 1
    THEN <<"core", era>>
    ELSE <<"only", CHOOSE t \in Here(dir, era, guid) : TRUE>>

\* The destination follows the releases that spell this name.
AssignBySources(dir, era, guid, votes) ==
    [era     |-> era,
     guid    |-> guid,
     dest    |-> IF Cardinality(DOMAIN votes) > 1
                 THEN <<"core", era>>
                 ELSE <<"only", CHOOSE t \in DOMAIN votes : TRUE>>,
     name    |-> Vote(votes),
     sources |-> {t \in DOMAIN votes : votes[t] = Vote(votes)}]

Assign(dir, era, guid, votes) ==
    [era     |-> era,
     guid    |-> guid,
     dest    |-> Dest(dir, era, guid),
     name    |-> Vote(votes),
     sources |-> {t \in DOMAIN votes : votes[t] = Vote(votes)}]

Decide(dir, era, guid, order) ==
    IF Folded(dir, era, guid)
    THEN IF era \in KeepFolds
         THEN {Assign(dir, era, guid, RoutineVotes(dir, era, guid, r, order)) :
                  r \in Routines(dir, era, guid)}
         ELSE {}
    ELSE IF Here(dir, era, guid) # {} /\ Agreed(SingleVotes(dir, era, guid))
         THEN {Assign(dir, era, guid, SingleVotes(dir, era, guid))}
         ELSE {}

Plan(dir, order) == UNION {Decide(dir, eg[1], eg[2], order) : eg \in Eras \X Guids}

PlanDests(plan) == {a.dest : a \in plan}

(***************************************************************************)
(* build's second pass: of the entries a destination wants, the typed copy *)
(* and then the newest wins.                                               *)
(***************************************************************************)
Wanted(plan, dest) == {a \in plan : a.dest = dest}

Copies(dir, a) ==
    UNION {{[lib |-> t, entry |-> e] :
               e \in {x \in dir[t] : x.guid = a.guid /\ x.name = a.name}} : t \in a.sources}

Better(c, d) ==
    \/ c.entry.typed /\ ~d.entry.typed
    \/ c.entry.typed = d.entry.typed /\ Age[c.lib] > Age[d.lib]

Pick(dir, a) ==
    (CHOOSE c \in Copies(dir, a) : \A d \in Copies(dir, a) \ {c} : Better(c, d)).entry

\* One entry per GUID is kept, not one per GUID and name.
ChosenByGuid(dir, plan) ==
    [d \in Dests |->
        {CHOOSE e \in {Pick(dir, a) : a \in Wanted(plan, d)} : e.guid = g :
            g \in {a.guid : a \in Wanted(plan, d)}}]

Chosen(dir, plan) == [d \in Dests |-> {Pick(dir, a) : a \in Wanted(plan, d)}]

(***************************************************************************)
(* verify: the names on each GUID of each planned library, and the GUIDs   *)
(* two libraries of one era both carry.                                    *)
(***************************************************************************)
Spelled(entries) == {<<e.guid, e.name>> : e \in entries}

HeldToPlan(out, plan) ==
    \A d \in PlanDests(plan) : Spelled(out[d]) = Spelled(Wanted(plan, d))

\* Only the libraries that share releases are compared.
ClaimedTwiceByDeltas(out, era) ==
    {g \in Guids : \E d, e \in LoadedIn(era) :
        d # e /\ d[1] = e[1] /\ NamesAt(out[d], g) # {} /\ NamesAt(out[e], g) # {}}

ClaimedTwice(out, era) ==
    {g \in Guids : \E d, e \in LoadedIn(era) :
        d # e /\ NamesAt(out[d], g) # {} /\ NamesAt(out[e], g) # {}}

Verifies(out, plan) ==
    HeldToPlan(out, plan) /\ \A era \in Eras : ClaimedTwice(out, era) = {}
=============================================================================
