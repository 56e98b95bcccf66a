------------------------------- MODULE Workflow -------------------------------
(***************************************************************************)
(* integration/workflow.py: the four activities spliced into the analysis  *)
(* pipeline, run by the analysis thread while an analyst edits the same    *)
(* functions and may abort the analysis.                                   *)
(*                                                                         *)
(* A function is known by its entry and covers some ranges of addresses.   *)
(* What the thread reads of the view in a row is one step, and a write is  *)
(* a step of its own: the analyst may come in between what a sink or a     *)
(* callback pass has looked at and what it then writes.                    *)
(***************************************************************************)
EXTENDS Naturals, Sequences, FiniteSets, Spans

CONSTANTS
    Entries,    \* the executable addresses a function can start at
    Known,      \* the sets of entries entry-point analysis may have found
    Ranges,     \* [Entries -> the address_ranges of its function]
    Metadata,   \* md.spans(), sorted
    Recovered,  \* the entries the applier names, each with a Self to type
    Refs,       \* calls that pass a constant: [caller, callee, target]
    FunctionLimit, RefsPerFunction, ReferenceLimit, TargetLimit,
                \* CALLBACK_*_LIMIT and CALLBACK_REFS_PER_FUNCTION
    MaxEdits,   \* a bound on what the analyst does
    NoFunc      \* no function starts here

ASSUME WorkflowAssumption ==
    /\ Entries \subseteq Nat /\ IsFiniteSet(Entries) /\ IsFiniteSet(Refs)
    /\ \A e \in Entries : /\ Ranges[e] \subseteq AddressRange
                           /\ \E r \in Ranges[e] : r.start <= e /\ e < r.end
    /\ Metadata \in Seq(AddressRange) /\ Sorted(Metadata)
    /\ Recovered \subseteq Entries
    /\ Known \subseteq SUBSET Entries
    /\ \A r \in Refs : {r.caller, r.callee} \subseteq Entries /\ r.target \in Nat
    /\ {FunctionLimit, RefsPerFunction, ReferenceLimit, TargetLimit, MaxEdits}
         \subseteq Nat
    /\ TargetLimit > 0
    /\ NoFunc \notin [auto : BOOLEAN, discovered : BOOLEAN, annotated : BOOLEAN,
                      name : {"auto", "delphi", "analyst"},
                      by : {"core", "recovery", "early", "late", "analyst"}]

VARIABLES
    funcs,       \* [Entries -> the function there, or NoFunc]
    typed,       \* callees whose type has a function pointer parameter
    aborted,     \* bv.analysis_is_aborted
    pc,          \* where the analysis thread is
    enabled,     \* the activities whose settings and platform let them run
    items,       \* what the applier has still to name
    md,          \* _state(bv)["md"] is there
    pending,     \* _state(bv)["pending_self"], filled by the sink first
    selfTyped,   \* the entries whose Self cleanup typed
    stage,       \* within AutoSink.add_function: "check", "absent", "define";
                 \* within discover_callbacks: "scan", "add", "fresh", "rollback"
    respected,   \* who bore the analyst's name when the sink last looked
    callees,     \* bv.functions still to look at
    visited,     \* function_index
    refsLeft,    \* the current callee's references still to look at
    references,  \* how many were looked at
    candidates,  \* the targets found, then those still to create
    created,     \* the functions add_function gave this pass, in order
    spoiled,     \* how many it gave that were no longer callbacks to create
    outcome,     \* [early, late -> how the pass ended]
    victims,     \* undefine_functions' list, what is left of it
    asserted,    \* the user functions when the current activity started
    edits        \* what the analyst has done

discovery == <<stage, callees, visited, refsLeft, references, candidates,
               created, spoiled, outcome>>
vars == <<funcs, typed, aborted, pc, enabled, items, respected, md, pending,
          selfTyped, discovery, victims, asserted, edits>>

Function == [auto : BOOLEAN, discovered : BOOLEAN, annotated : BOOLEAN,
             name : {"auto", "delphi", "analyst"},
             by : {"core", "recovery", "early", "late", "analyst"}]

(* An analysis-owned function, as bv.add_function makes one.               *)
AutoFunction(by) ==
    [auto |-> TRUE, discovered |-> FALSE, annotated |-> FALSE,
     name |-> "auto", by |-> by]

(* One the core found, which deleteUnusedAutoFunctions may take back.      *)
CoreFunction == [AutoFunction("core") EXCEPT !.discovered = TRUE]

Existing == {e \in Entries : funcs[e] # NoFunc}

UserFunctions == {e \in Existing : ~funcs[e].auto}

(* The addresses of the function at e, and those of the metadata.          *)
Covers(e) == UNION {r.start .. r.end - 1 : r \in Ranges[e]}

Meta == UNION {Metadata[i].start .. Metadata[i].end - 1 : i \in 1 .. Len(Metadata)}

(* What `_overlaps` is to decide: a range of the function and one of the   *)
(* metadata each begin before the other ends.                              *)
OverlapsMetadata(r) ==
    \E i \in 1 .. Len(Metadata) :
        r.start < Metadata[i].end /\ r.end > Metadata[i].start

Overlapping == {e \in Existing : \E r \in Ranges[e] : OverlapsMetadata(r)}

(* _inside_user_function: a containing function carries annotations.       *)
InsideUserFunction(addr) ==
    \E e \in Existing : addr \in Covers(e) /\ funcs[e].annotated

(* Names and targets are dealt with in the order of their addresses.       *)
InTurn(e, S) == e \in S /\ \A d \in S : e <= d

(* Asked of a target when it is found and again when it is created.        *)
Usable(target) == target \in Entries \ Existing /\ ~InsideUserFunction(target)
-----------------------------------------------------------------------------
Init ==
    /\ \E known \in Known :
        funcs = [e \in Entries |-> IF e \in known THEN CoreFunction ELSE NoFunc]
    /\ typed = {}
    /\ aborted = FALSE
    /\ pc = "recover"
    /\ enabled \in SUBSET {"recover", "match", "early", "cleanup"}
    /\ items = Recovered /\ respected = {}
    /\ md = FALSE
    /\ pending = {}
    /\ selfTyped = {}
    /\ stage = "none"
    /\ callees = {} /\ visited = 0 /\ refsLeft = {} /\ references = 0
    /\ candidates = {} /\ created = <<>> /\ spoiled = 0
    /\ outcome = [early |-> "none", late |-> "none"]
    /\ victims = {}
    /\ asserted = {}
    /\ edits = 0

(* The thread goes on to `next`, where a new activity begins. (No step     *)
(* that does this makes or removes a user function.)                       *)
BeginActivity(next) ==
    /\ pc' = next
    /\ asserted' = UserFunctions

Skip(here, next) ==
    /\ pc = here
    /\ here \notin enabled
    /\ BeginActivity(next)
    /\ UNCHANGED <<funcs, typed, aborted, enabled, items, respected, md,
                   pending, selfTyped, discovery, victims, edits>>
-----------------------------------------------------------------------------
(* _recover.                                                               *)

(* The functions that bear a name of the analyst's.                        *)
AnalystNamed == {e \in Existing : funcs[e].name = "analyst"}

(* AutoSink.add_function for the next name: is there a function?           *)
LookUp ==
    /\ pc = "recover" /\ "recover" \in enabled /\ stage = "none"
    /\ \E e \in Recovered :
        /\ InTurn(e, items)
        /\ stage' = IF funcs[e] = NoFunc THEN "absent" ELSE "check"
    /\ respected' = AnalystNamed
    /\ UNCHANGED <<funcs, typed, aborted, pc, enabled, items, md,
                   pending, selfTyped, callees, visited, refsLeft, references,
                   candidates, created, spoiled, outcome, victims, asserted,
                   edits>>

(* Whatever the function is called.                                        *)
CheckNothing ==
    /\ pc = "recover" /\ stage = "check"
    /\ stage' = "define"
    /\ respected' = AnalystNamed
    /\ UNCHANGED <<funcs, typed, aborted, pc, enabled, items, md,
                   pending, selfTyped, callees, visited, refsLeft, references,
                   candidates, created, spoiled, outcome, victims, asserted,
                   edits>>

(* There is: a name the analyst gave is respected.                         *)
CheckName ==
    /\ pc = "recover" /\ stage = "check"
    /\ \E e \in Recovered :
        /\ InTurn(e, items)
        /\ IF e \in AnalystNamed THEN stage' = "none" /\ items' = items \ {e}
           ELSE stage' = "define" /\ UNCHANGED items
    /\ respected' = AnalystNamed
    /\ UNCHANGED <<funcs, typed, aborted, pc, enabled, md, pending, selfTyped,
                   callees, visited, refsLeft, references, candidates, created,
                   spoiled, outcome, victims, asserted, edits>>

(* What bv.add_function leaves: a function the analyst has made there in   *)
(* the meantime stays as it is.                                            *)
AddedDiscovered(e, by) ==
    IF funcs[e] = NoFunc THEN [CoreFunction EXCEPT !.by = by] ELSE funcs[e]

Added(e, by) == IF funcs[e] = NoFunc THEN AutoFunction(by) ELSE funcs[e]

(* There is none: it is created, unless the core declines.                 *)
AddFunction ==
    /\ pc = "recover" /\ stage = "absent"
    /\ \E e \in Recovered :
        /\ InTurn(e, items)
        /\ \/ /\ funcs' = [funcs EXCEPT ![e] = Added(e, "recovery")]
              /\ stage' = "define" /\ UNCHANGED items
           \/ stage' = "none" /\ items' = items \ {e} /\ UNCHANGED funcs
    /\ UNCHANGED <<typed, aborted, pc, enabled, respected, md, pending,
                   selfTyped, callees, visited, refsLeft, references,
                   candidates, created, spoiled, outcome, victims, asserted,
                   edits>>

(* define_auto_symbol: the symbol defined last is the one the view shows.  *)
Named(e) ==
    IF funcs[e] = NoFunc THEN NoFunc ELSE [funcs[e] EXCEPT !.name = "delphi"]

DefineName ==
    /\ pc = "recover" /\ stage = "define"
    /\ \E e \in Recovered :
        /\ InTurn(e, items)
        /\ funcs' = [funcs EXCEPT ![e] = Named(e)]
        /\ pending' = pending \cup {e}
        /\ items' = items \ {e}
    /\ stage' = "none"
    /\ UNCHANGED <<typed, aborted, pc, enabled, respected, md, selfTyped,
                   callees, visited, refsLeft, references, candidates, created,
                   spoiled, outcome, victims, asserted, edits>>

RecoverOne == LookUp \/ CheckName \/ AddFunction \/ DefineName

(* Published only once Applier.run() has returned.                         *)
Publish ==
    /\ pc = "recover" /\ "recover" \in enabled
    /\ items = {} /\ stage = "none"
    /\ md' = TRUE
    /\ BeginActivity("match")
    /\ UNCHANGED <<funcs, typed, aborted, enabled, items, respected, pending,
                   selfTyped, discovery, victims, edits>>

(* The state kept although the applier raised.                             *)
RecoverGivesUpPublished ==
    /\ pc = "recover" /\ "recover" \in enabled
    /\ md' = TRUE /\ stage' = "none"
    /\ BeginActivity("match")
    /\ UNCHANGED <<funcs, typed, aborted, enabled, items, respected, pending,
                   selfTyped, callees, visited, refsLeft, references,
                   candidates, created, spoiled, outcome, victims, edits>>

(* A Free Pascal program, a 64-bit one, or an exception part of the way:   *)
(* what was written stays, and nothing is published.                       *)
RecoverGivesUp ==
    /\ pc = "recover" /\ "recover" \in enabled
    /\ pending' = {} /\ stage' = "none"
    /\ BeginActivity("match")
    /\ UNCHANGED <<funcs, typed, aborted, enabled, items, respected, md,
                   selfTyped, callees, visited, refsLeft, references,
                   candidates, created, spoiled, outcome, victims, edits>>

(* _early_match: WARP types some of the functions there are, or raises.    *)
Match ==
    /\ pc = "match" /\ "match" \in enabled
    /\ IF ~md \/ aborted THEN UNCHANGED typed
       ELSE \E more \in SUBSET Existing : typed' = typed \cup more
    /\ BeginActivity("early")
    /\ UNCHANGED <<funcs, aborted, enabled, items, respected, md, pending,
                   selfTyped, discovery, victims, edits>>
-----------------------------------------------------------------------------
(* discover_callbacks, run by _early_callbacks and again by _cleanup.      *)

(* Where the thread goes when the pass called by `pass` has returned.      *)
Return(pass, how) ==
    /\ stage' = "none"
    /\ outcome' = [outcome EXCEPT ![pass] = how]
    /\ callees' = {} /\ visited' = 0 /\ refsLeft' = {} /\ references' = 0
    /\ candidates' = {} /\ created' = <<>>
    /\ IF pass = "early"
       THEN BeginActivity("sweep") /\ UNCHANGED <<md, pending>>
       ELSE /\ pc' = "done" /\ UNCHANGED asserted
            /\ IF how = "failed" THEN UNCHANGED <<md, pending>>
               ELSE md' = FALSE /\ pending' = {}     \* state.clear()

StartDiscovery ==
    /\ stage = "none"
    /\ \/ pc = "early" /\ "early" \in enabled /\ md
       \/ pc = "late"
    /\ stage' = "scan"
    /\ callees' = Existing
    /\ UNCHANGED <<funcs, typed, aborted, pc, enabled, items, respected, md,
                   pending, selfTyped, visited, refsLeft, references,
                   candidates, created, spoiled, outcome, victims, asserted,
                   edits>>

EarlyWithoutMetadata ==
    /\ pc = "early" /\ "early" \in enabled /\ ~md
    /\ BeginActivity("sweep")
    /\ UNCHANGED <<funcs, typed, aborted, enabled, items, respected, md,
                   pending, selfTyped, discovery, victims, edits>>

(* The references to `callee` whose caller is a function by now.           *)
RefsTo(callee) == {r \in Refs : r.callee = callee /\ r.caller \in Existing}

AtMost(n, S) == IF Cardinality(S) <= n THEN {S}
                ELSE {T \in SUBSET S : Cardinality(T) = n}

(* The cap on one callee's references taken alone.                         *)
SmallerIgnoringRest(a, b) == a

Smaller(a, b) == IF a < b THEN a ELSE b

(* No function, reference or target is to be looked at any more: the last  *)
(* look at the abort flag before anything is created.                      *)
ScanEnds(pass) ==
    /\ IF aborted THEN Return(pass, "aborted")
       ELSE /\ stage' = "add"
            /\ callees' = {} /\ refsLeft' = {}
            /\ UNCHANGED <<visited, references, candidates, created, outcome,
                           pc, asserted, md, pending>>

ScanCallee(pass) ==
    /\ pc = pass /\ stage = "scan" /\ refsLeft = {}
    /\ IF callees = {} \/ visited >= FunctionLimit THEN ScanEnds(pass)
       ELSE IF aborted THEN Return(pass, "aborted")
       ELSE \E callee \in callees :
              IF callee \notin typed
              THEN /\ callees' = callees \ {callee} /\ visited' = visited + 1
                   /\ UNCHANGED <<stage, refsLeft, references, candidates,
                                  created, outcome, pc, asserted, md, pending>>
              ELSE IF references >= ReferenceLimit THEN ScanEnds(pass)
              ELSE \E some \in AtMost(Smaller(RefsPerFunction,
                                              ReferenceLimit - references),
                                      RefsTo(callee)) :
                     /\ callees' = callees \ {callee} /\ visited' = visited + 1
                     /\ refsLeft' = some
                     /\ UNCHANGED <<stage, references, candidates, created,
                                    outcome, pc, asserted, md, pending>>
    /\ UNCHANGED <<funcs, typed, aborted, enabled, items, respected, selfTyped,
                   spoiled, victims, edits>>

TargetsFull(found) == Cardinality(found) >= TargetLimit

(* One call site. A target inside a metadata span is never a callback.     *)
ScanRef(pass) ==
    /\ pc = pass /\ stage = "scan"
    /\ \E r \in refsLeft :
        /\ IF aborted THEN Return(pass, "aborted")
           ELSE LET found == IF /\ Usable(r.target)
                                /\ ~InSpans(r.target, Merged(Metadata))
                             THEN candidates \cup {r.target} ELSE candidates
                IN /\ references' = references + 1
                   /\ candidates' = found
                   /\ IF \/ TargetsFull(found)
                         \/ refsLeft = {r} /\ references + 1 >= ReferenceLimit
                      THEN refsLeft' = {} /\ callees' = {}
                      ELSE refsLeft' = refsLeft \ {r} /\ UNCHANGED callees
                   /\ UNCHANGED <<stage, visited, created, outcome, pc,
                                  asserted, md, pending>>
    /\ UNCHANGED <<funcs, typed, aborted, enabled, items, respected, selfTyped,
                   spoiled, victims, edits>>

(* A target is created without looking again.                              *)
LookAgainNever(pass) ==
    /\ pc = pass /\ stage = "add" /\ ~aborted /\ candidates # {}
    /\ stage' = "fresh"
    /\ UNCHANGED <<funcs, typed, aborted, pc, enabled, items, respected, md,
                   pending, selfTyped, callees, visited, refsLeft, references,
                   candidates, created, spoiled, outcome, victims, asserted,
                   edits>>

(* A target that is no longer usable is looked at for ever.                *)
LookAgainStuck(pass) ==
    /\ pc = pass /\ stage = "add" /\ ~aborted
    /\ \E t \in candidates : InTurn(t, candidates) /\ Usable(t)
    /\ stage' = "fresh"
    /\ UNCHANGED <<funcs, typed, aborted, pc, enabled, items, respected, md,
                   pending, selfTyped, callees, visited, refsLeft, references,
                   candidates, created, spoiled, outcome, victims, asserted,
                   edits>>

(* The lowest target left is looked at again, ...                          *)
LookAgain(pass) ==
    /\ pc = pass /\ stage = "add" /\ ~aborted
    /\ \E t \in candidates :
        /\ InTurn(t, candidates)
        /\ IF Usable(t) THEN stage' = "fresh" /\ UNCHANGED candidates
           ELSE candidates' = candidates \ {t} /\ UNCHANGED stage
    /\ UNCHANGED <<funcs, typed, aborted, pc, enabled, items, respected, md,
                   pending, selfTyped, callees, visited, refsLeft, references,
                   created, spoiled, outcome, victims, asserted, edits>>

(* ... and created; the core may decline it, or give the function that is  *)
(* there by now.                                                           *)
AddTarget(pass) ==
    /\ pc = pass /\ stage = "fresh"
    /\ stage' = "add"
    /\ \E t \in candidates :
        /\ InTurn(t, candidates)
        /\ candidates' = candidates \ {t}
        /\ \/ /\ funcs' = [funcs EXCEPT ![t] = Added(t, pass)]
              /\ created' = Append(created, t)
              /\ spoiled' = IF Usable(t) THEN spoiled ELSE spoiled + 1
           \/ UNCHANGED <<funcs, created, spoiled>>
    /\ UNCHANGED <<typed, aborted, pc, enabled, items, respected, md, pending,
                   selfTyped, callees, visited, refsLeft, references, outcome,
                   victims, asserted, edits>>

(* The abort flag is read before every target and once after the last.     *)
AbortSeen(pass) ==
    /\ pc = pass /\ stage = "add" /\ aborted
    /\ stage' = "rollback"
    /\ UNCHANGED <<funcs, typed, aborted, pc, enabled, items, respected, md,
                   pending, selfTyped, callees, visited, refsLeft, references,
                   candidates, created, spoiled, outcome, victims, asserted,
                   edits>>

AllAdded(pass) ==
    /\ pc = pass /\ stage = "add" /\ ~aborted /\ candidates = {}
    /\ Return(pass, "created")
    /\ UNCHANGED <<funcs, typed, aborted, enabled, items, respected, selfTyped,
                   spoiled, victims, edits>>

(* Only the function created last is taken back.                           *)
RollBackLast(pass) ==
    /\ pc = pass /\ stage = "rollback"
    /\ funcs' = IF created = <<>> THEN funcs
                ELSE [funcs EXCEPT ![created[Len(created)]] = NoFunc]
    /\ Return(pass, "aborted")
    /\ UNCHANGED <<typed, aborted, enabled, items, respected, selfTyped,
                   spoiled, victims, edits>>

(* `for function in reversed(created)`, then return 0.                     *)
RollBack(pass) ==
    /\ pc = pass /\ stage = "rollback"
    /\ IF created = <<>> THEN Return(pass, "aborted") /\ UNCHANGED funcs
       ELSE /\ funcs' = [funcs EXCEPT ![created[Len(created)]] = NoFunc]
            /\ created' = SubSeq(created, 1, Len(created) - 1)
            /\ UNCHANGED <<stage, callees, visited, refsLeft, references,
                           candidates, outcome, pc, asserted, md, pending>>
    /\ UNCHANGED <<typed, aborted, enabled, items, respected, selfTyped,
                   spoiled, victims, edits>>

(* Any call into the view may raise. What was created so far stays.        *)
DiscoveryFails(pass) ==
    /\ pc = pass /\ stage # "none"
    /\ Return(pass, "failed")
    /\ UNCHANGED <<funcs, typed, aborted, enabled, items, respected, selfTyped,
                   spoiled, victims, edits>>

Discover(pass) ==
    \/ ScanCallee(pass) \/ ScanRef(pass) \/ LookAgain(pass) \/ AddTarget(pass)
    \/ AbortSeen(pass) \/ AllAdded(pass) \/ RollBack(pass)
-----------------------------------------------------------------------------
(* The core between the activities.                                        *)

(* core.module.extendedAnalysis: linear sweep starts a function where none *)
(* covers the code.                                                        *)
Sweep ==
    /\ pc = "sweep"
    /\ \E e \in Entries :
        /\ \A d \in Existing : e \notin Covers(d)
        /\ funcs' = [funcs EXCEPT ![e] = CoreFunction]
    /\ UNCHANGED <<typed, aborted, pc, enabled, items, respected, md, pending,
                   selfTyped, discovery, victims, asserted, edits>>

(* The matcher of the ordinary pipeline runs before the sweep is over.     *)
SweepEnds ==
    /\ pc = "sweep"
    /\ \E more \in SUBSET Existing : typed' = typed \cup more
    /\ BeginActivity("unused")
    /\ UNCHANGED <<funcs, aborted, enabled, items, respected, md, pending,
                   selfTyped, discovery, victims, edits>>

(* core.module.deleteUnusedAutoFunctions: auto_discovered functions only,  *)
(* those of them nothing refers to.                                        *)
DeleteUnused ==
    /\ pc = "unused"
    /\ \E unused \in SUBSET {e \in Existing : funcs[e].auto /\ funcs[e].discovered} :
        funcs' = [e \in Entries |-> IF e \in unused THEN NoFunc ELSE funcs[e]]
    /\ BeginActivity("cleanup")
    /\ UNCHANGED <<typed, aborted, enabled, items, respected, md, pending,
                   selfTyped, discovery, victims, edits>>
-----------------------------------------------------------------------------
(* _cleanup.                                                               *)

(* Whoever owns them.                                                      *)
VictimsAnyOwner == Overlapping

(* undefine_functions: the automatic functions over metadata, as the list  *)
(* is made.                                                                *)
Victims ==
    {e \in Existing \ UserFunctions :
        \E r \in Ranges[e] : Overlaps(Metadata, r.start, r.end)}

CleanupStarts ==
    /\ pc = "cleanup" /\ "cleanup" \in enabled
    /\ IF md THEN pc' = "removing" /\ victims' = Victims
       ELSE pc' = "done" /\ UNCHANGED victims
    /\ UNCHANGED <<funcs, typed, aborted, enabled, items, respected, md,
                   pending, selfTyped, discovery, asserted, edits>>

RemoveVictim ==
    /\ pc = "removing"
    /\ \E e \in victims :
        /\ funcs' = [funcs EXCEPT ![e] = NoFunc]
        /\ victims' = victims \ {e}
    /\ UNCHANGED <<typed, aborted, pc, enabled, items, respected, md, pending,
                   selfTyped, discovery, asserted, edits>>

(* Self is typed on the functions that are still there, one by one; one    *)
(* step here, as no function is taken away meanwhile.                      *)
TypeSelf ==
    /\ pc = "removing" /\ victims = {}
    /\ selfTyped' = pending \cap Existing
    /\ pc' = "late"
    /\ UNCHANGED <<funcs, typed, aborted, enabled, items, respected, md,
                   pending, discovery, victims, asserted, edits>>

CleanupFails ==
    /\ pc = "removing"
    /\ pc' = "done"
    /\ victims' = {}
    /\ UNCHANGED <<funcs, typed, aborted, enabled, items, respected, md,
                   pending, selfTyped, discovery, asserted, edits>>

Cleanup == CleanupStarts \/ RemoveVictim \/ TypeSelf
-----------------------------------------------------------------------------
(* The analyst, at any time while the pipeline runs.                       *)

Edit(e, f) ==
    /\ pc # "done"
    /\ edits < MaxEdits
    /\ edits' = edits + 1
    /\ funcs' = [funcs EXCEPT ![e] = f]
    /\ UNCHANGED <<typed, aborted, pc, enabled, items, respected, md, pending,
                   selfTyped, discovery, victims, asserted>>

(* create_user_function: an automatic function there becomes the user's.   *)
CreateUserFunction(e) ==
    Edit(e, IF funcs[e] = NoFunc
            THEN [AutoFunction("analyst") EXCEPT !.auto = FALSE]
            ELSE [funcs[e] EXCEPT !.auto = FALSE])

Rename(e) ==
    /\ funcs[e] # NoFunc
    /\ Edit(e, [funcs[e] EXCEPT !.name = "analyst", !.annotated = TRUE])

Abort ==
    /\ pc # "done"
    /\ ~aborted
    /\ aborted' = TRUE
    /\ UNCHANGED <<funcs, typed, pc, enabled, items, respected, md, pending,
                   selfTyped, discovery, victims, asserted, edits>>

Analyst ==
    \/ \E e \in Entries : CreateUserFunction(e) \/ Rename(e)
    \/ Abort

Analysis ==
    \/ Skip("recover", "match") \/ Skip("match", "early") \/ Skip("early", "sweep")
    \/ Skip("cleanup", "done")
    \/ RecoverOne \/ Publish \/ Match
    \/ StartDiscovery \/ EarlyWithoutMetadata
    \/ \E pass \in {"early", "late"} : Discover(pass)
    \/ Sweep \/ SweepEnds \/ DeleteUnused \/ Cleanup

Failure ==
    \/ RecoverGivesUp \/ CleanupFails
    \/ \E pass \in {"early", "late"} : DiscoveryFails(pass)

Next == Analysis \/ Failure \/ Analyst

(* The core runs its thread on; it waits for no analyst and counts on no   *)
(* exception.                                                              *)
Spec == Init /\ [][Next]_vars /\ WF_vars(Analysis)
-----------------------------------------------------------------------------
(* The types; of them, that a candidate for a callback is never inside the *)
(* metadata tables is the code's doing (discover_callbacks).               *)
TypeOK ==
    /\ funcs \in [Entries -> Function \cup {NoFunc}]
    /\ typed \subseteq Entries
    /\ aborted \in BOOLEAN
    /\ pc \in {"recover", "match", "early", "sweep", "unused", "cleanup", "removing",
              "late", "done"}
    /\ enabled \subseteq {"recover", "match", "early", "cleanup"}
    /\ items \subseteq Recovered /\ respected \subseteq Entries
    /\ md \in BOOLEAN
    /\ pending \subseteq Recovered
    /\ selfTyped \subseteq Recovered
    /\ stage \in {"none", "check", "absent", "define", "scan", "add", "fresh",
                 "rollback"}
    /\ callees \subseteq Entries /\ visited \in Nat
    /\ refsLeft \subseteq Refs /\ references \in Nat
    /\ candidates \subseteq Entries \ Meta
    /\ created \in Seq(Entries) /\ spoiled \in Nat
    /\ outcome \in [{"early", "late"} -> {"none", "created", "aborted", "failed"}]
    /\ victims \subseteq Entries
    /\ asserted \subseteq Entries
    /\ edits \in Nat

(* The analysis never removes a function that was already the analyst's    *)
(* when the activity started: neither the cleanup of functions over        *)
(* metadata nor the roll back of an aborted callback pass reaches one.     *)
UserFunctionsSurvive == [][asserted \cap UserFunctions \subseteq Existing']_vars

(* A name the analyst gave is gone only with its function, or if it was    *)
(* given between the sink's look at that very function and its write: one  *)
(* given before the look, or to any other function, outlives recovery.     *)
AnalystNamesKept ==
    [][\A e \in AnalystNamed \cap Existing' :
           (stage = "define" /\ InTurn(e, items) => e \in respected)
           => e \in AnalystNamed']_vars

(* A callback pass that sees the abort leaves no function of its own.      *)
AbortedPassLeavesNothing ==
    \A pass \in {"early", "late"} :
        outcome[pass] = "aborted" => ~\E e \in Existing : funcs[e].by = pass

(* Once the functions over metadata are removed no automatic function is   *)
(* left over a metadata table, except that a callback created afterwards   *)
(* may run into one from outside.                                          *)
MetadataCleared ==
    (pc = "late" \/ outcome.late \in {"created", "aborted"}) =>
        \A e \in Overlapping \ UserFunctions : funcs[e].by = "late" /\ e \notin Meta

(* What recovery and the early callback pass create is reached through     *)
(* tables only; the core's removal of unused functions must not take it.   *)
RecoveredSurviveCore ==
    [][pc = "unused" =>
           \A e \in Existing : funcs[e].by \in {"recovery", "early"}
                                => e \in Existing']_vars

(* However many targets a pass has found, and however long before, an edit *)
(* of the analyst's spoils the one being created at most: each is looked   *)
(* at again, so no more targets are acted on that have a function of their *)
(* own or lie in an annotated one by then than there were edits.           *)
EditSpoilsOneTarget == spoiled <= edits

(* A recovery that did not finish publishes nothing: no later activity     *)
(* creates, removes or types anything on the strength of half of it.       *)
HalfRecoveryUnused ==
    (items # {} /\ pc # "recover") =>
        /\ ~\E e \in Existing : funcs[e].by \in {"early", "late"}
        /\ victims = {} /\ selfTyped = {}

(* Each pass looks at and creates no more than its caps allow.             *)
CallbackWorkBounded ==
    /\ visited <= FunctionLimit
    /\ references <= ReferenceLimit
    /\ \A pass \in {"early", "late"} :
          Cardinality({e \in Existing : funcs[e].by = pass}) <= TargetLimit
    /\ Len(created) + Cardinality(candidates) <= TargetLimit

(* Whatever is disabled, aborted, declined or raised, the pipeline gets to *)
(* its end.                                                                *)
Finishes == <>(pc = "done")
-----------------------------------------------------------------------------
(* undefine_functions: a user function is an explicit assertion and is     *)
(* never ours to discard.                                                  *)
NoUserFunctionDiscarded == [][UserFunctions \subseteq Existing']_vars
=============================================================================
