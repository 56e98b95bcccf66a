----------------------------- MODULE Consensus -----------------------------
(***************************************************************************)
(* The two libraries that are read out of real binaries: which readings    *)
(* tools/rttikb.py keeps, which binaries cover them, what tools/rttigen.py *)
(* then tags, and which exports tools/bplgen.py selects.                   *)
(*                                                                         *)
(* A harvested record is [file, entries], an entry [addr, guid, blocks,    *)
(* claims], a claim [name, source] with the name already qualified by its  *)
(* unit.  A reading is [name, guid, file, addr].                           *)
(***************************************************************************)
EXTENDS Integers, FiniteSets

CONSTANTS
    RtlNames,       \* is_rtl of the name's unit
    Project,        \* project: the corpus directory of a file
    PathOrder,      \* the rank of a file in sorted path order
    MinProjects,    \* --votes
    MinBlocks       \* --blocks

(***************************************************************************)
(* binary_names and Consensus.add: a name inferred from a neighbour is no  *)
(* vote, two names at one address are evidence against both, and a body of *)
(* too few blocks is not worth a signature.                                *)
(***************************************************************************)
RttiNames(entry) ==
    {c.name : c \in {x \in entry.claims : x.source = "rtti" /\ x.name \in RtlNames}}

ReadingsOf(record) ==
    {[name |-> CHOOSE n \in RttiNames(e) : TRUE,
      guid |-> e.guid, file |-> record.file, addr |-> e.addr] :
        e \in {x \in record.entries :
                  Cardinality(RttiNames(x)) = 1 /\ x.blocks >= MinBlocks}}

Readings(records) == UNION {ReadingsOf(r) : r \in records}

Key(reading) == <<reading.name, reading.guid>>

Ambiguous(readings) ==
    {r.guid : r \in {x \in readings :
        \E y \in readings : y.guid = x.guid /\ y.name # x.name}}

Votes(readings, key) ==
    {Project[r.file] : r \in {x \in readings : Key(x) = key}}

\* What the published libraries claim is kept as well.
KeepPublished(readings, shipped) ==
    {r \in readings :
        /\ r.guid \notin Ambiguous(readings)
        /\ Cardinality(Votes(readings, Key(r))) >= MinProjects}

\* Consensus.keep
Keep(readings, shipped) ==
    {r \in readings :
        /\ r.guid \notin Ambiguous(readings) \cup shipped
        /\ Cardinality(Votes(readings, Key(r))) >= MinProjects}

(***************************************************************************)
(* cover: the binary that offers most of what is left, in path order; one  *)
(* address of it per reading.                                              *)
(***************************************************************************)
Offers(keep, keys, file) == {r \in keep : r.file = file /\ Key(r) \in keys}

FirstOffers(keep, keys, file) ==
    {CHOOSE r \in Offers(keep, keys, file) : Key(r) = k :
        k \in {Key(r) : r \in Offers(keep, keys, file)}}

MostProductive(keep, keys) ==
    LET files == {r.file : r \in {x \in keep : Key(x) \in keys}}
        gain(f) == Cardinality(FirstOffers(keep, keys, f))
    IN  CHOOSE f \in files : \A g \in files \ {f} :
            \/ gain(f) > gain(g)
            \/ gain(f) = gain(g) /\ PathOrder[f] < PathOrder[g]

Round(keep, keys) ==
    IF keys = {} THEN {} ELSE FirstOffers(keep, keys, MostProductive(keep, keys))

\* The readings held by the first `limit` binaries.
Cover(keep, limit) ==
    LET remaining[n \in 0..limit] ==
            IF n = 0 THEN {Key(r) : r \in keep}
            ELSE remaining[n - 1] \ {Key(r) : r \in Round(keep, remaining[n - 1])}
    IN  UNION {Round(keep, remaining[n - 1]) : n \in 1..limit}

\* contribute: what is tagged, less the bodies whose GUID drifted between the
\* harvest and this analysis.  The names carry no prototype.
Tagged(cover, drifted) ==
    {[guid |-> r.guid, name |-> r.name, typed |-> FALSE] :
        r \in cover \ drifted}

(***************************************************************************)
(* bplgen.select and apply: rows are [name, guid, thunk, oversize, typed], *)
(* over every package at once.                                             *)
(***************************************************************************)
Usable(rows) == {r \in rows : ~r.thunk /\ ~r.oversize}

Selected(rows, shipped) ==
    {[guid |-> r.guid, name |-> r.name, typed |-> r.typed] :
        r \in {x \in Usable(rows) :
                  /\ x.guid \notin shipped
                  /\ \A y \in Usable(rows) : y.guid = x.guid => y.name = x.name}}
=============================================================================
