------------------------ MODULE SignatureLibraries ------------------------
(***************************************************************************)
(* The per-release signature libraries and the tools that write them, and  *)
(* the coalesced set tools/coalesce.py makes of them.                      *)
(*                                                                         *)
(* A release's library is rebuilt from its knowledge base (BuildRelease),  *)
(* from the readings several binaries agree on (BuildRtti) or from its     *)
(* runtime packages (BuildBpl); the last two leave out every GUID another  *)
(* published library claims.  Coalescing is three runs of one script: the  *)
(* first plans and stages into raw/, the second compresses, the third      *)
(* verifies; each can be killed between two writes and started again.      *)
(***************************************************************************)
EXTENDS Coalesce, Consensus

CONSTANTS
    RttiTag, BplTag,    \* the tags of the two contributed libraries
    StartingDirs,       \* the per-release libraries found at the start
    ReleaseVersions,    \* what a knowledge base may give for a tag
    Records,            \* the harvested records build_rtti builds from
    Packages,           \* the rows bplgen.candidates returns
    ViewLimit,          \* --views
    HashOrders,         \* ranks of Names: the iteration order of a set of them
    DestRank,           \* sorted order of the destinations' file names
    MaxRuns             \* bound: release rebuilds and coalescing plans together

Library == SUBSET [guid : Guids, name : Names, typed : BOOLEAN]

ASSUME StartingDirsAreLibraries == StartingDirs \subseteq [Libs -> Library]
ASSUME VersionsAreLibraries == ReleaseVersions \in [Libs -> SUBSET Library]
ASSUME NamesAreRanked == IsFiniteSet(Names) /\ HashOrders \subseteq [Names -> Nat]
ASSUME RecordsReadNames ==
    RtlNames \subseteq Names /\ \A r \in Records : \A e \in r.entries : e.guid \in Guids
ASSUME PackagesHoldNames ==
    \A p \in Packages : p.guid \in Guids /\ p.name \in Names /\ p.typed \in BOOLEAN

VARIABLES
    sigdir,     \* the per-release libraries, tag -> entries
    late,       \* the contributed libraries older than another library's rebuild
    plan,       \* plan.tsv
    raw,        \* <outdir>/raw, destination -> entries
    out,        \* <outdir>, destination -> entries
    manifest,   \* destination -> the staged library and the plan its manifest names
    pc,         \* which run of coalesce.py is at work
    chosen,     \* build: the selection, in memory
    todo,       \* the destinations still to write
    progress,   \* how far the last plan got: "planned", "staged", "shipped"
    verdict,    \* of --verify, over what is there now
    runs

coalescing == <<plan, raw, out, manifest, pc, chosen, todo, progress, verdict>>
vars == <<sigdir, late, runs, coalescing>>

Contributed == {RttiTag, BplTag}
Nowhere == [d \in Dests |-> {}]
NoManifest == [staged |-> {}, plan |-> {}]

Init ==
    /\ sigdir \in StartingDirs
    /\ late = Contributed
    /\ plan = {}
    /\ raw = Nowhere
    /\ out = Nowhere
    /\ manifest = [d \in Dests |-> NoManifest]
    /\ pc = "idle"
    /\ chosen = Nowhere
    /\ todo = {}
    /\ progress = "planned"
    /\ verdict = "none"
    /\ runs = 0

(***************************************************************************)
(* The tools that write one per-release library.                           *)
(***************************************************************************)
BuildRelease(tag) ==
    /\ pc = "idle" /\ runs < MaxRuns
    /\ \E lib \in ReleaseVersions[tag] :
          /\ lib # sigdir[tag]
          /\ sigdir' = [sigdir EXCEPT ![tag] = lib]
    /\ late' = Contributed
    /\ runs' = runs + 1
    /\ UNCHANGED coalescing

Shipped(tag) == {e.guid : e \in UNION {sigdir[t] : t \in Libs \ {tag}}}

Contribute(tag, lib) ==
    /\ pc = "idle" /\ tag \in late
    /\ sigdir' = [sigdir EXCEPT ![tag] = lib]
    /\ late' = late \ {tag}
    /\ UNCHANGED <<runs, coalescing>>

\* build_rtti.main raises SystemExit when no reading survives.
BuildRtti ==
    LET keep == Keep(Readings(Records), Shipped(RttiTag))
    IN  /\ keep # {}
        /\ \E drifted \in SUBSET keep :
              Contribute(RttiTag, Tagged(Cover(keep, ViewLimit), drifted))

BuildBpl == Contribute(BplTag, Selected(Packages, Shipped(BplTag)))

(***************************************************************************)
(* coalesce.py <outdir>: plan.tsv, then each staged library is removed and *)
(* committed anew.  Nothing else under raw/ is touched.                    *)
(***************************************************************************)
IsNext(d) == d \in todo /\ \A e \in todo : DestRank[d] <= DestRank[e]

BuildPlan ==
    /\ pc = "idle" /\ runs < MaxRuns
    /\ runs' = runs + 1
    /\ \E order \in HashOrders : plan' = Plan(sigdir, order)
    /\ chosen' = Chosen(sigdir, plan')
    /\ todo' = {d \in Dests : chosen'[d] # {}}
    /\ pc' = "staging"
    /\ progress' = "planned"
    /\ verdict' = "none"
    /\ UNCHANGED <<sigdir, late, raw, out, manifest>>

RemoveStaged(d) ==
    /\ pc = "staging" /\ IsNext(d) /\ raw[d] # {}
    /\ raw' = [raw EXCEPT ![d] = {}]
    /\ UNCHANGED <<sigdir, late, runs, plan, out, manifest, pc, chosen, todo, progress, verdict>>

Stage(d) ==
    /\ pc = "staging" /\ IsNext(d) /\ raw[d] = {}
    /\ raw' = [raw EXCEPT ![d] = chosen[d]]
    /\ todo' = todo \ {d}
    /\ UNCHANGED <<sigdir, late, runs, plan, out, manifest, pc, chosen, progress, verdict>>

EndBuild ==
    /\ pc = "staging" /\ todo = {}
    /\ pc' = "idle"
    /\ chosen' = Nowhere
    /\ progress' = "staged"
    /\ UNCHANGED <<sigdir, late, runs, plan, raw, out, manifest, todo, verdict>>

(***************************************************************************)
(* coalesce.py --compress: every library under raw/, whoever staged it.    *)
(***************************************************************************)
StartCompress ==
    /\ pc = "idle" /\ plan # {}
    /\ todo' = {d \in Dests : raw[d] # {}}
    /\ pc' = "compressing"
    /\ verdict' = "none"
    /\ UNCHANGED <<sigdir, late, runs, plan, raw, out, manifest, chosen, progress>>

CompressOne(d) ==
    /\ pc = "compressing" /\ IsNext(d) /\ out[d] # raw[d]
    /\ out' = [out EXCEPT ![d] = raw[d]]
    /\ UNCHANGED <<sigdir, late, runs, plan, raw, manifest, pc, chosen, todo, progress, verdict>>

WriteManifest(d) ==
    /\ pc = "compressing" /\ IsNext(d) /\ out[d] = raw[d]
    /\ manifest' = [manifest EXCEPT ![d] = [staged |-> raw[d], plan |-> plan]]
    /\ todo' = todo \ {d}
    /\ UNCHANGED <<sigdir, late, runs, plan, raw, out, pc, chosen, progress, verdict>>

EndCompress ==
    /\ pc = "compressing" /\ todo = {}
    /\ progress' = IF progress = "staged" THEN "shipped" ELSE progress
    /\ pc' = "idle"
    /\ UNCHANGED <<sigdir, late, runs, plan, raw, out, manifest, chosen, todo, verdict>>

\* coalesce.py --verify
Verify ==
    /\ pc = "idle" /\ plan # {} /\ verdict = "none"
    /\ verdict' = IF Verifies(out, plan) THEN "ok" ELSE "problems"
    /\ UNCHANGED <<sigdir, late, runs, plan, raw, out, manifest, pc, chosen, todo, progress>>

\* The script is killed, or a container call fails and it raises.
Crash ==
    /\ pc # "idle"
    /\ pc' = "idle"
    /\ chosen' = Nowhere
    /\ todo' = {}
    /\ UNCHANGED <<sigdir, late, runs, plan, raw, out, manifest, progress, verdict>>

Next ==
    \/ \E t \in Libs \ Contributed : BuildRelease(t)
    \/ BuildRtti
    \/ BuildBpl
    \/ BuildPlan
    \/ \E d \in Dests :
          RemoveStaged(d) \/ Stage(d) \/ CompressOne(d) \/ WriteManifest(d)
    \/ EndBuild
    \/ StartCompress
    \/ EndCompress
    \/ Verify
    \/ Crash

Spec == Init /\ [][Next]_vars

-----------------------------------------------------------------------------
(***************************************************************************)
(* One GUID, one library: whatever the releases claim, and in whatever     *)
(* order Python yields their names, an era's plan never puts one GUID into *)
(* two libraries that load together (coalesce.py:290).                     *)
(***************************************************************************)
EraClaimsOnce ==
    \A a, b \in plan : a.era = b.era /\ a.guid = b.guid => a.dest = b.dest

(***************************************************************************)
(* The second pass finds what the first planned, and staging, compression  *)
(* and any number of kills in between lose none of it: once a plan was     *)
(* staged and compressed to the end, every planned library is there with   *)
(* its names and a manifest naming what it was made of, and verification   *)
(* only ever complains of a library an earlier plan left behind            *)
(* (coalesce.py:466-501, 504-525, 541-579).                                *)
(***************************************************************************)
ShippedAsPlanned ==
    progress = "shipped" =>
        /\ HeldToPlan(out, plan)
        /\ \A d \in PlanDests(plan) : manifest[d] = [staged |-> out[d], plan |-> plan]
        /\ verdict = "problems" => \E d \in Dests \ PlanDests(plan) : out[d] # {}

(***************************************************************************)
(* What verification is for: once it says OK, whichever of an era's        *)
(* libraries the matcher asks first, a planned GUID has the names the plan *)
(* gave it or none (coalesce.py:582-644).                                  *)
(***************************************************************************)
VerifiedAnswersAgree ==
    verdict = "ok" => \A a \in plan, d \in Dests :
        d \in LoadedIn(a.era) =>
            NamesAt(out[d], a.guid) \in
                {{}, {b.name : b \in {x \in plan : x.era = a.era /\ x.guid = a.guid}}}

(***************************************************************************)
(* The contributed libraries are strictly additive while no other library  *)
(* was rebuilt after them: without them the plan is the same but for their *)
(* own deltas, so they cost no release a name (rttikb.py:158-182,          *)
(* bplgen.py:158-175).                                                     *)
(***************************************************************************)
ContributedAreAdditive ==
    \A order \in HashOrders :
        LET fresh == Contributed \ late
            without == [t \in Libs |-> IF t \in fresh THEN {} ELSE sigdir[t]]
        IN  Plan(without, order)
                = {a \in Plan(sigdir, order) : a.dest \notin {"only"} \X fresh}
=============================================================================
