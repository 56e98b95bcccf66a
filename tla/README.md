# Delphinja in TLA+

A TLA+ model of Delphinja, the Binary Ninja plugin that recovers Delphi class
metadata and names functions after it. It is written from the source, and every
definition that models code is tied to its lines in `PROJECT.json` ("map").

## 1. The system

| part | source | state | operations |
| --- | --- | --- | --- |
| Scanner and record parsers | `rtti/parser.py` | none of its own; reads through a `Reader` | find and parse VMTs, `TTypeInfo` records, strings |
| Metadata object | `rtti/apply.py` `DelphiMetadata` | records found, form streams, five derived views, block cache | `scan`, `spans`, `hierarchy`, lazily built views |
| Name claims | `rtti/apply.py` `NameClaims` | one entry per claimed address, a count of conflicts | `claim`, `resolved` |
| Applier | `rtti/apply.py` `Applier` | statistics, the types made so far | declare types and data, claim and give names |
| Sinks | `rtti/sinks.py` | functions to give a Self later | add types, data, functions |
| Workflow activities | `integration/workflow.py` | per-view scratch (`session_data`) | recover, early match, early callbacks, cleanup |
| Signature registry | `integration/signatures.py` | `_registered`, the core's containers, for the process | `register` |
| Form streams | `rtti/dfm.py` | none | find, parse, bind handlers |
| MAP files, debug info | `mapfile.py`, `integration/mapfile.py`, `integration/debuginfo.py` | records under limits | parse, contribute |
| Build pipeline | `tools/` | caches, artifacts, manifests, signature libraries | generate, stage, coalesce, verify |
| Commands | `__init__.py` | a background task, its cancel flag | scan, report, apply |

How they meet. The workflow's first activity scans the view, registers the
signature libraries the layout calls for, and runs the applier over an
`AutoSink`; what it leaves in the per-view scratch tells the later activities
whether there is anything to do. Between them run the core's own activities:
linear sweep and the removal of unreferenced functions. The analyst
works in the same view throughout and may abort. Several binaries may be open
in one process; they share the registry and the containers. The commands do the
same scan in a background task the user can cancel.

What is hard: the order tables are met in (claims), state that is checked and
used later while somebody else works (callbacks, removal, registration),
stopping half way (aborts, exceptions, cancellation), walks whose end is not
written down (interface vtables), caches of derived data, and limits on nested
loops. `PROJECT.json` lists each hazard at its line with the properties aimed
at it. What makes each part correct:

* claims: the name of a shared address is what its shallowest claims agree on,
  in whatever order they come; descendants do not take inherited methods;
* workflow: the analyst's functions and names survive, an aborted pass leaves
  nothing, a failed recovery is not acted on, caps hold, the pipeline ends;
* registry: what is marked is loaded, only what a binary calls for is loaded,
  nothing is forgotten, nothing in use is replaced;
* scan: only whole results are visible and no derived view outlives them;
* scanners: what a look at every address would find is found, wherever steps
  and blocks end; what is taken for a table can be read; a form is read back as
  it was written;
* MAP: no contribution after cancellation, none that is ambiguous or goes over
  a name the analyst had given when it was looked for;
* libraries: no GUID in two libraries of an era, nothing shipped that was not
  planned, contributions cost no release a name;
* builds: a library that passes for current is what its inputs build.

## 2. Modules

* **NameResolution** is the abstract specification of naming shared addresses:
  it remembers every claim, and address by address in ascending order either
  gives the name the shallowest claims agree on or drops the address.
* **NameClaims** is the table of the code. `claims[a]` is `self.claims[a]`; the
  tuple's last three fields are those of the claim the entry was built from,
  and the entry holds that claim. `Claim` is `claim()`, `StartResolving` the
  `sorted` that runs when the generator is first advanced, `Resolve` one turn
  of its loop. `heard` is a history variable.
  `ImplementsNameResolution` is the refinement.
* **Naming** extends NameClaims with `_name_functions`: a program is a record
  standing for parsed metadata and the words of the image; each loop of the
  function is an operator that gives the set of claims it makes
  (`ClassicClaims`, `ExtendedClaims`, `DynamicClaims`, `StdClaims`,
  `SlotClaims`, `InterfaceClaims`, `PropertyClaims`, `FormClaims`). A step
  visits a class, makes one claim, or gives one name. Classes come in any
  order, the tables of a class in the code's order, the entries of a table in
  any order. `MethodTable`, `FormClasses` and `FormClaims` are `dfm.bind`.
  A name is a class and a member, `<<class, member>>`.
* **Workflow** is the pipeline: `pc` is where the analysis thread is, `stage`
  where it is in `AutoSink.add_function` or `discover_callbacks`. What the thread
  reads of the view in a row is one step and each write is one of its own, so
  the analyst can act between a look and the write it leads to: the sink looks
  (`LookUp`, `CheckName`) and then adds (`AddFunction`) and names (`DefineName`); a
  callback target is looked at (`LookAgain`) and then created (`AddTarget`).
  `respected` and `spoiled` are history variables. `Match`, `Sweep`,
  `DeleteUnused` and the analyst are external and modelled by what the code
  says of them.
* **Spans** is the two indexes of address ranges Workflow decides by: starts
  with a running maximum of ends (`_range_index`, `_overlaps`), for what
  `undefine_functions` removes, and merged spans (`_merged_spans`, `_in_spans`),
  for the callback targets `discover_callbacks` refuses. What they are to decide
  is in Workflow (`OverlapsMetadata`, `Meta`), and does not use them.
* **SignatureRegistry** is one thread per binary over one `_registered` and one
  map of containers. `AddContainer` and `AddSource` are separate, so that
  threads can replace each other's containers; either may raise.
* **ScanTransaction** is `DelphiMetadata.scan` inside `_Task`: one step per
  pass and range, the commit as one step, a cancel at any moment. The task looks
  at its button once more when the scan has returned (`CheckProgress`) and not
  again before or while the results are applied (`StartApplying`). `complete`
  is a history variable: what whole scans should have left.
* **ImageReader** is the bytes of an image as `Reader` gives them: mapped,
  readable, or neither. **VmtTables** is `parse_vmt` and the tables of a class;
  each operator says where a table ends, or that it is none. **FormStreams** is
  `dfm.py`'s parser: `ValueEnd` is `read_value`, `ReadObject` is
  `_read_object`. Values in values and objects in objects are recursive
  functions; `ValueEndBy` and `ChildrenBy` are their bodies.
* **ImageScanner** composes the three into one scan: `pass` is the scanner
  under way and `at` where its next block begins, so that every seam between
  blocks is a state, and a cancellation may come at each.
* **WrittenForms** is what Delphi's writer does, and the property that reading
  gives back what was written. A form, a control or a value is a record of what
  it holds that carries its own bytes (`o.bytes = Written(o)`), and what it holds
  are such records; `WriterAssumption` says so of `Values`, `Controls` and
  `Forms`, and a height of each control that they nest to some end.
* **Coalesce** is `plan`, `choose_entries` and `verify` of `coalesce.py`,
  **Consensus** the selection of readings in `rttikb.py` and of exports in
  `bplgen.py`. **SignatureLibraries** composes them over the directories they
  share: releases are rebuilt, contributed libraries built, and the three runs
  of `coalesce.py` plan and stage, compress, and verify, with kills in between.
* **BuildContract** is the abstract specification of the reproducible builds: a
  tag serves nothing or what its inputs build. **BuildCache** is `build_all.py`
  and `build_fpc.py` over `repro.py`: `disk[t]` is the archive, tree,
  database, library and their documents, `loaded` the code a process imported.
  A step is one write. `KeepsContract` is the refinement (`served` is what
  passes for current).
* **MapDebugInfo** is `parse_map` line by line and `parse_info`/`contribute` of
  `integration/mapfile.py`: `stage` tells parsing, asking the user and
  contributing apart. An address is judged in one step (`Judge`) and its function
  added in another (`AddFunction`). `early` is a history variable: the names the
  analyst gave before their address was judged.
* **Lists** holds the operators on lists that several modules share.

Section 5 says what the proof modules show. **ListsProofs** has the lemmas about
lists and natural numbers; **NamingProofs** is about NameClaims and Naming,
**ParserProofs** about ImageScanner and MapDebugInfo, and **WorkflowProofs**,
**ScanTransactionProofs**, **SignatureRegistryProofs**,
**SignatureLibrariesProofs** and **BuildCacheProofs** about the module of that
name.

`MC*` modules hold the small instances. A definition whose comment calls it a
mistake (such as `EntryAfterLastWins`) is a mutant: not part of the model, used
to see that a property can fail.

## 3. Runs

| run | module | result |
| --- | --- | --- |
| `naming` | MCNaming | passes, 3,006 states |
| `workflow` | MCWorkflow | passes, 644,683 states |
| `signatures` | MCSignatureRegistry | passes, 20,955 states |
| `scan` | MCScanTransaction | passes, 17,123 states |
| `image` | MCImageScanner | passes, 322,939 states |
| `libraries` | MCSignatureLibraries | passes, 234,889 states |
| `build` | MCBuildCache | passes, 332,312 states |
| `debuginfo` | MCMapDebugInfo | passes, 268,536 states |
| `naming_stub` | MCNaming | violated: `AbstractStubUnnamed` |
| `naming_thunks` | MCNaming | violated: `FirstThunksNamed` |
| `workflow_promotion` | MCWorkflow | violated: `NoUserFunctionDiscarded` |
| `build_fpc` | MCBuildCache | violated: `CurrentIsBuilt` |

**naming.** Three classes: a base, its child, and a third class that is a root,
a descendant of either, of an unknown class or of itself, whose slots
are its own, inherited or another tree's; a second family of programs adds a
dynamic handler named by an ancestor, thunks, an accessor that is also a
thunk or a method; a third adds forms whose handlers are their class's own,
inherited, overridden, or those of another class of the same name.
That is the least in which a tie can be made, unmade by a shallower claim, and
made again, and in which the order of three visits matters.
`NamesIndependentOfOrder` compares the outcome with a definition that looks at
all claims at once.

**workflow.** Four functions, of one range of addresses or two, and three ranges
of metadata: a long one that reaches past a short one beginning later, so that
the last to begin is not the furthest reaching, and an empty one at a function's
entry. One function lies in the long range, one has only its tail there, one
contains another's entry. Entry analysis has
found one of two sets of functions. The analyst makes one edit (promotes,
creates, or renames a function) and aborts at most once (`MaxEdits = 1`: a
second edit can only do to another function what the first did). The caps are 3
callees, 2 references per callee, 3 references and 2 targets, so that each cuts
the loops short in some behaviour. Any activity may be disabled. "Created by"
marks on functions are history. A core that declines to add a function, a match
that types any of the functions, and any subset of unreferenced functions
removed cover what the core may do. Where an edit falls between a look and its
write the code has no second look, and the properties say how far the damage
goes: `AnalystNamesKept` that only the name given between the sink's look at that
very function and its write can be lost, `EditSpoilsOneTarget` that an edit
reaches the callback target looked at last and none of those that were found
with it. A function the analyst makes in that moment is then on the pass's list
and goes with it when the pass is aborted: `UserFunctionsSurvive` speaks of what
was the analyst's when the activity began.

**signatures.** Two eras, one of them under two slot counts, a Free Pascal tag,
two libraries not shipped; two binaries of one era, one of an unknown
layout and one Free Pascal. Two threads on one library are enough for a
container to be replaced between creation and source.

**scan.** Two ranges, eight records, two scans. A class record of one range
reaches over a constant of the other, so it matters that constants come last.

**image.** Sizes are scaled: a byte has 128 values, a u8 and a u16 are one
byte, a u32 and a pointer two. An image has 48 bytes of code and 8 of data and
is one of: four programs laid out as the compiler would (method tables classic
and extended, two interfaces side by side, fields and managed fields, and two
classes of the dialect that has no self-pointers); each of them with any one
byte of code replaced by any of 11 telling values (zero, small counts, code
addresses, a letter, the largest); each cut short at any byte; two records or
constants of any kind at any distance from each other and from a seam, pointed
at or not; runs of text that can be read narrow and wide and share a character;
constants pointed at across the end of the code section; and forms with a value
of every encoding, at each distance from a seam, followed by another,
overwritten and cut short. Steps, blocks and windows end inside and between
records. What cannot be read of a section is its tail.
`RecordsComplete`, `ConstantsComplete` and `StreamsSettled` compare with
definitions that look at every address at once; `StreamsSettled` also has the
streams share no byte and end in the image; `StreamsComplete` compares with the
form that was written.

**libraries.** Two eras of three releases, two GUIDs, four names of which two
are spellings of one and one is a placeholder; nine starting directories cover
one claimant, a tie, a fold, and a library with two spellings at one GUID. At
most three rebuilds and plans together: one plan, a change, and another plan
over what the first left is the least in which something stale can ship. Plans
are taken in any iteration order of a set of names.

**build** and **build_fpc.** Two tags, so that one can fail before the other;
two source files in two versions, so that an edit can be taken back; three
upsets (edits, failures, kills, damaged files) together. Longer chains of
upsets are covered by the proofs. `build_fpc` tracks one of two source files,
as `fpcgen.TOOL_FILES` tracks some.

**debuginfo.** Files put together from tables that are present, missing,
repeated or hold another table's rows, with up to two publics of six; a limit
of four records, so that it is met in each table; a view that was rebased, with
one of two sections present and one address the analyst may name at any time.

**Violations** are disagreements between the code and what its comments say:

* an abstract method's stub is named through a published property's slot,
  although `_abstract_stubs` says it is nobody's method;
* naming walks an interface vtable into the next one, which the parser
  explains and avoids, so adjacent interfaces lose thunk names to ties;
* `undefine_functions` takes its list, then removes: a function the analyst
  promotes in between goes, although it is "never ours to discard";
* `fpcgen.TOOL_FILES` leaves out `naming.py` and `delphitypes.py`, so an edit
  of either leaves a library current that the code would no longer build,
  although the identity is to cover every "code/case input".

Three more were met and have no run. `AutoSink.add_function` looks at a function's
symbol and then defines its own, or adds a function and does not look at all, so
a name the analyst gives in between is replaced if the view shows the symbol
defined last, although "the user's own changes then win on conflict"
(`rtti/sinks.py:115`); `AnalystNamesKept` excepts that one name. A class method in both method tables gets an
instance for Self, because the classic table claims first and the same name is
not claimed again. Two eras' libraries are loaded together once two binaries of
different eras have been opened, although "only this fallback ever loads two
eras at once".

CHECK_DEADLOCK is off where the system stops: naming is done, the pipeline
ends, every binary is registered, the task is over, the runs are used up.

## 4. Fairness

`Workflow` assumes weak fairness of the analysis thread (`Analysis`) and none
of the analyst or of `Failure`: the core schedules its thread on, waits for
nobody, and counts on no exception to get it out of a loop. The
thread's loops are bounded by what there is to look at, so `Finishes` needs
no more. `SignatureRegistry` assumes weak fairness of each binary's thread.
`BuildCache` assumes weak fairness of the process's own next step and strong
fairness of `Run(Tags)`: the scripts are "designed to be started and left alone"
and re-run after an interruption, and a run is only possible while none is under
way. Upsets are bounded, and none of them is assumed. Naming and scanning have no
liveness property: naming is one sequential loop, and a scan waits on nothing;
coalescing is started by hand.

## 5. Proofs

Every safety invariant and action property of the passing runs is a theorem;
type invariants are proved and in no run. The theorems
hold for every value of the constants the named assumptions allow; the
assumptions say what sort of thing a constant is, unless this section says
otherwise.

**NamingProofs**, first about the claim table for any addresses and claims
(`NamingAssumption`: addresses are non-zero naturals, depths are naturals, the
mark for no entry is not an entry):

* `TypeCorrect`: `TableSpec => []TableTypeOK`;
* `SummaryCorrect`: `TableSpec => []TableSummarisesClaims`;
* `TableRefinesMemory`: `TableSpec => ImplementsNameResolution`.

The inductive invariant is `TableInv`, type correctness with
`TableSummarisesClaims`. The latter is what makes the refinement work: at the
moment an address is resolved the abstract specification asks whether all
shallowest claims agree, and only the invariant ties that to the one `tied`
bit the code keeps. `ClaimSummary` is the heart: claim by claim, the four cases
of `EntryAfter` keep the summary.

Then about naming, for any programs (`ProgramsAssumption`: address 0 is no code;
no hierarchy is deeper than the handicap of thunks; parents may run in circles,
as a damaged image's do, if the classes of a circle differ in name):

* `NamingUsesTable`, `NamingSummarises`, `NamingImplements`: naming's steps are
  the table's, so what holds of the table holds of naming;
* `OrderDecidesNothing`: `Spec => []NamesIndependentOfOrder`;
* `ThunksYieldToMethods`: `Spec => []ThunksYield`;
* `AncestorsKeepMethods`: `Spec => []InheritedStaysWithAncestor`;
* `SlotNamesInherited`: `Spec => []SlotNamesFlowDown`.

`NamingInv` adds to `TableInv` the one fact order cannot disturb, `Accounted`:
the claims heard and those still to be made are together the claims of the
program. At the end the table therefore summarises a set that no order enters
into. `YieldedSoFar` and `NamedSoFar` tie what was given to settled entries. The
last three theorems need what every claim has for a reason (`Founded`: whose
tables publish it, and at what depth), which in turn needs what the walk up the
parents visits (`Walks`, `ClosedUp`).

**ScanTransactionProofs**, for any records, ranges, requests and number of scans
(`ScanAssumption`):

* `VisibleIsWhole`: `Spec => []CommittedIsWhole`;
* `ViewsAreFresh`: `Spec => []CachesFresh`;
* `ConstantsYield`: `Spec => WeakEvidenceYields`;
* `StreamsRemembered`: `Spec => []StreamsNoneMeansNotSought`.

`CommittedIsWhole` is not inductive: it says nothing of the private copies a
commit is about to make visible. `ScanInv` adds `Staging`, what those hold at
each pass (the ranges done with, and the one under way but for its strings),
and `Ranges`, which range that is. `StreamsInv` adds the streams of the scan
under way.

**WorkflowProofs**, for any program, any caps, any number of edits and any core
that does what section 6 says of it (`WorkflowAssumption`: one of a
function's ranges holds its entry, there are finitely many entries, and the
metadata is a sorted list of ranges):

* `WellTyped`: `Spec => []TypeOK`;
* `AnalystFunctionsSurvive`: `Spec => UserFunctionsSurvive`;
* `AnalystNamesSurvive`: `Spec => AnalystNamesKept`;
* `OneTargetPerEdit`: `Spec => []EditSpoilsOneTarget`;
* `CoreSparesRecovery`: `Spec => RecoveredSurviveCore`;
* `AbortLeavesNothing`: `Spec => []AbortedPassLeavesNothing`;
* `WorkBounded`: `Spec => []CallbackWorkBounded`;
* `HalfUnused`: `Spec => []HalfRecoveryUnused`;
* `TablesCleared`: `Spec => []MetadataCleared`;
* `OverlapsIsExact`: for any sorted ranges and any query, empty ones included,
  `_overlaps` answers as `lo < end and hi > start` scanned over all ranges does,
  as its docstring says;
* `InSpansIsExact`: `_in_spans` on the merged ranges says of each address
  whether one of the ranges holds it.

The last two are what `TablesCleared` and `WellTyped` (no candidate is inside the
metadata) rest on: removal and refusal are decided by the indexes and the
properties are about the ranges.
`ReachIsFurthest` (in a prefix, the reach exceeds an address exactly when a range
does) and `MergedFacts` (by `MergedSoFar`: what is merged of a prefix is apart, in
order and holds the same addresses) are their inductions.

The invariant of the first five is `AnalysisInv`: the types, `Theirs` (what the
analyst owned when the activity began is there and still theirs, and is neither
in the removal list nor in the roll-back list) and `Order` (each list is in use
only within its own activity, which is why a list made against one activity's
user functions is never read against another's). For the races between looks and
writes it is `Respect` (the sink writes a name only where its last look saw none of
the analyst's) and `Spoilt` (the target about to be created is usable, or an edit
has not been counted yet). `HowFunctionsChange` shows that
every step either leaves the functions alone, takes back one the analyst did not
own, puts one at one entry, or takes back those the core discovered; the action
properties follow from that. `CallbacksInv` adds that each pass runs `Once`, that
what it has made it has listed and an aborted one has nothing (`Ours`), and what
it has looked at and will is within the caps (`Capped`: the references counted
with those still to be counted, because the check comes before the loop).
`Published` says that nothing acts on recovered items before they are whole, and
`Cleared` what of the functions over metadata is still to be removed.

**SignatureRegistryProofs**, for any number of binaries analysed at once and any
libraries (`SignatureAssumption`):

* `RegisteredHolds`: `Spec => []RegisteredIsLoaded`;
* `CalledForHolds`: `Spec => []OnlyCalledFor`;
* `NothingForgotten`: `Spec => []NoTagForgotten`;
* `LoadedNeverReplaced`: `Spec => LoadedStays`.

`RegisteredIsLoaded` is not inductive: two threads may both find a library
unmarked and replace each other's container. `Owed` explains why that ends well:
a container without its source is owed one by the thread that added it, which
marks only afterwards, or that thread raised. `Remembered` says that what a
thread has not dealt with is in its list.

**SignatureLibrariesProofs**, for any releases, claims, hash orders and number of
runs and kills (`ErasPartitionLibs`, `AgeOrdersLibs`: a library is of one era, no
two are of one age; the rest are types):

* `ErasClaimOnce`: `Spec => []EraClaimsOnce`;
* `PlansAreShipped`: `Spec => []ShippedAsPlanned`;
* `VerifiedOutputsAgree`: `Spec => []VerifiedAnswersAgree`;
* `ContributionsAdd`: `Spec => []ContributedAreAdditive`.

`PipelineInv` says what each of the three runs has done with and what the one
before left for it (`Staged`, `Compressed`, `Verdicts`), so that a kill, which
only forgets the run's memory, keeps it. `AdditiveInv` has `Apart`: a contributed
library not older than a rebuild shares no GUID with any other.

**BuildCacheProofs**, for any tags, source files, archives fetched first or last,
and any number of upsets, assuming the identity covers every source file
(`Tracked = ToolFiles`) and none is edited while a build runs
(`~EditsDuringRun`):

* `CurrentLibrariesAreBuilt`: `Spec => []CurrentIsBuilt`;
* `ReportsAreTrue`: `Spec => []ReportIsTrue`;
* `BuildsKeepContract`: `Spec => KeepsContract`.

`CurrentIsBuilt` alone is not inductive: it says nothing of a library whose
manifest names the code of yesterday, which passes for current again when an
edit is taken back. `BuildInv` says of every document on disk, whatever is
current, that it ties an identity to what that identity builds (`Documents`),
and of the process what it holds at each step (`Memory`). `build_fpc` shows
that the first assumption is needed. The second is one about use: the code does
not look at its source files again once they are imported.

**ParserProofs**, about ImageScanner for any images, dialects, sizes of steps,
blocks and windows, and limits (`ReaderAssumption`, `TablesAssumption`,
`FormsAssumption`, `ScannerAssumption`: an image is finite, and what can be read
of a section is a first part of it):

* `ScanFindsEverything`: `Spec => []RecordsComplete`;
* `ScanSettlesConstants`: `Spec => []ConstantsComplete`;
* `ScanTakesWhatIsThere`: `Spec => []RegionsSound`;
* `ScanSettlesStreams`: `Spec => []StreamsSettled`;
* `ScanReadsForms`: `Spec => []StreamsComplete`, for any values, controls and
  forms the writer could have written within the reader's limits
  (`WriterAssumption`).

`SoFar` says of every pass what it has found up to the seam: exactly what a look
at every address below would. That a block adds what lies between two seams is
one lemma for each scanner; the work is in the records that straddle one.
`ConstantsSoFar` does the same for runs of text, and `AcceptedIs` shows that
accepting them in order leaves those that begin inside no other.
`StreamsSoFar` speaks of the streams found up to a watermark (`FoundUpto`).
`RegionsSound` needs no invariant beyond `SoFar`: it is about what `parse_vmt`
takes (`TakenWhole` of each table's records, joined by `WholeJoins`).
`StreamsSettled` says that the streams lie in the image, which is a fact about
`dfm.py`'s whole recursion: `ValueEndIs` and `ChildrenAre` show that `read_value`
and `_read_object`, whatever the bytes, come to an end further on
with all between there to be read.
`StreamsComplete` says moreover what they come to when the bytes were written as
a form. `ValueRead` shows, by the length of what is written, that every value is
read to its own end, wherever it stands, and `ObjectRead`, by the height of a
control, that every control is read with all its events, leaving the budget less
its objects; each construct has a lemma from what was written to what is read
(`ListedRead` for all lists that a byte of 0 ends). `StreamsSettled` then turns
"can be parsed" into "was found".

About MapDebugInfo, for any files, view and limit (`FilesAssumption`):

* `ContributionsAreMapped`: `MapSpec => []ContributedAsMapped`;
* `AnalystNamesNotTaken`: `MapSpec => []AnalystNamesFirst`;
* `RejectionsLeaveNothing`: `MapSpec => RejectedLeavesNothing`.

`DebugInfoInv` says what the lines read so far have put into each table
(`ReadSoFar`), that what is contributed comes of a whole file (`WholeFile`) and
goes over no name given before its turn (`Rightly`, `Chosen`), and that each
address is dealt with once it is no longer pending (`Settled`).

**Recursion.** No induction rule can be cited, since those of the library take an
operator. A loop is a recursive function over an interval, and the proofs take
the least counterexample of a set of numbers and refute it (`LeastNatural`,
`IntervalInduction`); that such a function exists, so that it may be unfolded, is
`StepsExist`. `read_value` and `_read_object` recurse on addresses further on
without a bound of their own: `FromTheEnd` builds their functions from the end
of the image backwards, where the least step is one address, and
`ValueExists` and `ChildrenExist` let them be unfolded.

**What proof attempts found.** `ConstantsComplete` used to say that no two runs
can be read at one place. They can: a run read wide may end in the character a
narrow one begins with, although the comment at `rtti/parser.py:2112-2117` expects
a run to be readable one way only. That is so of candidates; the ones accepted
share no byte, because each must begin at or past the end of the one before
(`reach`). The property now says which those are: the runs that begin inside no
other accepted one. `RegionsSound` had taken the second shape of an
InitTable for readable throughout; a byte of it need not be.
`StreamsComplete` had promised the form of a signature that begins in the segment
and ends past it, which no block sees, and had excused only forms whose signature
comes after the start of another stream; it may also stand where that stream's
first object begins. The excuse is now the watermark's,
`s.addr <= a /\ a < s.end`. The property was first stated over a recursive
writer, of which nothing could be proved; over records that carry their bytes the
induction is one on numbers. An empty range of metadata holds
no address, yet a function on both sides of it overlaps it:
`OverlapsMetadata` is not intersection of sets of addresses, which is what
the model took it for before the indexes were modelled.

**Only model-checked.** Liveness under fairness (`Finishes`, `EveryBinaryDone`,
`BuiltInTheEnd`) and the runs that end in a violation. The invariants the proofs rest on are strengthenings of
properties TLC checks, and need no run of their own.

## 6. Abstractions

* Names are tuples of their parts; `sanitize` and message names are left out,
  so two classes whose names sanitise alike do not collide here.
* A function covers fixed ranges of addresses. The metadata does not change
  between the activities, and labels of spans are left out.
* The applier in Workflow only names functions; types, data variables and
  comments are left out, as is what the `Self` type is made of.
* In Workflow, SignatureRegistry and ScanTransaction, layout detection, Free
  Pascal detection and the scanners are inputs; ImageScanner models layout
  detection and the scanners on their own.
* Evidence for a callback is an input relation of constant-passing calls, and a
  callee is "typed" when its type has a function pointer parameter. References
  whose caller is no function yet are left out: they cost the code one
  reference of its cap and do nothing else.
* A scan's commit is one step: ten assignments of one thread, on an object
  no other thread has yet.
* Every read of ImageScanner sees the bytes the view held at the start; the
  block cache of `_read` is left out. One section is scanned, and forms are
  sought in one segment over both sections.
* `RecordsComplete` asks of a class without a self-pointer that its size lies in
  the section in full, as the search for sizes does.
* Of the eight slots of a class that may point at a table VmtTables has the six
  whose tables it reads; an automation table and a type record, the other two,
  would bound a virtual table as those do.
* `RegionsSound` speaks of the tables of classes: a TTypeInfo record may claim
  bytes past the end of what can be read. It leaves out three things the
  code lets happen: the second shape of an InitTable is stepped over without a
  look at its first bytes, so one of them need not be readable; `_parse_vtable`
  may overrun part of a table that is not a whole number of words away; and a
  class's own walk is not bounded by its interface vtables.
* `SlotNamesFlowDown` leaves out TObject's own methods, whose names come from
  the layout and from no class's tables.
* A value of a form stream nests without limit in the model; Python's
  recursion limit is left out. Streams reach Naming as class name and handlers.
* A class publishes a name once: of overloaded methods the last entry would
  decide, and Naming takes any.
* In SignatureLibraries an entry is a GUID, a name and whether it is typed; what
  a plan does with one library that spells one routine twice at a GUID depends
  on Python's iteration order of a set, so the order is an input. Verification
  says OK although a library an earlier plan left ships a GUID the plan
  dropped: `ShippedAsPlanned` and `VerifiedAnswersAgree` are about planned
  GUIDs. A contributed library is current only until another is rebuilt
  (`late`). `build_rtti.py` run with its default output beside a coalesced
  directory would exclude its own earlier readings; the model builds into the
  per-release directory.
* In BuildCache a hash stands for the content it was taken of, a file is whole,
  damaged or absent, and one process works in a directory at a time. Damage
  comes between runs.
* What a thread reads in a row is read at one moment. Nothing is lost by it: an
  edit between two reads comes after the one it would have changed, as does one
  between the reads and the write they lead to, and that one is modelled.
* In MapDebugInfo a line is a record that says which pattern it matches. The
  host may refuse any function, and sections of one name are one.

Not modelled, and why:

* the demangler, message names and report texts: formatting with no state;
* `TypeFactory` and what the applier declares: one pass of independent writes;
* `kb.py`, `coff.py`, `bplkb.py`, `classes.py`, `fpcname.py`, `fpctypes.py`,
  `fpcstage.py`: readers of file formats, sequential and offline;
* `debuginfo.py`: a loop over finished records, with nothing concurrent in it;
* the evaluation scripts: measurement.

## 7. Plan

Done: naming with its refinement, workflow with its range indexes, registry, scan
transaction, image scanner, form streams, coalescing and consensus, builds with
their refinement, MAP contribution.

Next, in this order:

1. **BlockCache**: `_read` against reading the view directly; its bound, a
   failed read kept as an empty block.
2. **ClassLayout**: class members by offset with overlaps.
3. Harvesting: `rttikb`'s cache of records over a corpus that changes.

Of the proofs that were planned all are done; the modules above get their
theorems as they are written.
