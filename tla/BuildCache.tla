----------------------------- MODULE BuildCache -----------------------------
(***************************************************************************)
(* The builds of per-release libraries: tools/build_all.py over the IDR    *)
(* knowledge bases and tools/build_fpc.py over the Free Pascal releases,   *)
(* with the stages they call (generate.py, fpcgen.py) and the checks of    *)
(* repro.py that let a later run reuse what an earlier one left on disk.   *)
(* The two differ in when they want the archive and in the source files    *)
(* their identities cover.                                                 *)
(*                                                                         *)
(* A file is Absent, Broken (damaged, or half written) or holds something  *)
(* whole; a hash stands for the content it was taken of.  One process at a *)
(* time works in a directory.                                              *)
(***************************************************************************)
EXTENDS Integers, FiniteSets

CONSTANTS
    Tags,
    TagOrder,       \* KB_TAGS or TARGETS: the rank of a tag
    ToolFiles,      \* the source files a build runs
    Tracked,        \* TOOL_FILES: those its identity covers
    Versions,
    ArchiveFirst,   \* build_all wants the archive before it looks at the tree
    EditsDuringRun, \* whether source files change under a running build
    Pinned,         \* what the pinned checksum is of
    Absent, Broken,
    MaxUpsets       \* bound: edits, damages, failures and kills

ASSUME TrackedAreTools == Tracked \subseteq ToolFiles
ASSUME TagsAreListed ==
    \A S \in (SUBSET Tags) \ {{}} : \E t \in S : \A u \in S : TagOrder[t] <= TagOrder[u]
ASSUME UpsetsAreBounded == MaxUpsets \in Nat

VARIABLES
    code,       \* the source files on disk
    loaded,     \* the source files the process imported
    disk,       \* per tag: archive, extracted tree, database, library
    pc,
    todo,       \* the tags left, the one at work first
    build,      \* generate: its identity
    view,       \* generate: the analysed view
    results,
    upsets

memory == <<loaded, todo, build, view, results>>
vars == <<code, disk, pc, upsets, memory>>

Codes == [ToolFiles -> Versions]
Made(input, by) == [input |-> input, by |-> by]

ASSUME BuildsAreWhole == \A c \in Codes : Made(Pinned, c) \notin {Absent, Broken}

Document(id, content) == [build |-> id, hash |-> content]
NoDocument == Document(Absent, Absent)

NoFiles == [archive |-> Absent, tree |-> Absent, extracted |-> FALSE, db |-> Absent,
            stamp |-> NoDocument, art |-> Absent, manifest |-> NoDocument]

Init ==
    /\ code \in Codes
    /\ loaded = code
    /\ disk = [t \in Tags |-> NoFiles]
    /\ pc = "idle"
    /\ todo = {}
    /\ build = Absent
    /\ view = Absent
    /\ results = [t \in Tags |-> "none"]
    /\ upsets = 0

Tag == CHOOSE t \in todo : \A u \in todo : TagOrder[t] <= TagOrder[u]

(***************************************************************************)
(* repro.py: identities, and the documents that tie a file to one.         *)
(***************************************************************************)
Identity(input, by) == [input |-> input, tools |-> [f \in Tracked |-> by[f]]]

\* The file is taken to be what the document beside it was written for.
VouchedUnread(document, id, content) ==
    document.build = id /\ content \notin {Absent, Broken}

\* artifact_is_current, and read_cache with verify_file of what it names
Vouched(document, id, content) ==
    document = Document(id, content) /\ content \notin {Absent, Broken}

\* The stamp alone tells whether the tree is there.
ExtractedUnread(t) == disk[t].extracted

Extracted(t) == disk[t].extracted /\ disk[t].tree = Pinned

Current(t) ==
    Vouched(disk[t].manifest, Identity(Pinned, code), disk[t].art)

(***************************************************************************)
(* main, and fetch: one tag after the other, whatever became of the last.  *)
(***************************************************************************)
Run(S) ==
    /\ pc = "idle" /\ S # {}
    /\ pc' = "fetch"
    /\ todo' = S
    /\ loaded' = code
    /\ results' = [t \in Tags |-> "none"]
    /\ UNCHANGED <<code, disk, build, view, upsets>>

Finish(result) ==
    /\ results' = [results EXCEPT ![Tag] = result]
    /\ todo' = todo \ {Tag}
    /\ pc' = IF todo = {Tag} THEN "idle" ELSE "fetch"
    /\ build' = Absent
    /\ view' = Absent
    /\ UNCHANGED loaded

Download ==
    /\ pc = "fetch" /\ disk[Tag].archive # Pinned
    /\ ArchiveFirst \/ ~Extracted(Tag)
    /\ disk' = [disk EXCEPT ![Tag].archive = Pinned]
    /\ UNCHANGED <<code, pc, upsets, memory>>

ReuseTree ==
    /\ pc = "fetch" /\ Extracted(Tag)
    /\ ArchiveFirst => disk[Tag].archive = Pinned
    /\ pc' = "identify"
    /\ UNCHANGED <<code, disk, upsets, memory>>

Extract ==
    /\ pc = "fetch" /\ ~Extracted(Tag) /\ disk[Tag].archive = Pinned
    /\ pc' = "replace"
    /\ UNCHANGED <<code, disk, upsets, memory>>

\* shutil.rmtree, in the order the directory lists its files
RemoveTree ==
    /\ pc = "replace"
    /\ \/ /\ disk[Tag].tree # Absent
          /\ disk' = [disk EXCEPT ![Tag].tree = Absent]
       \/ /\ disk[Tag].extracted
          /\ disk' = [disk EXCEPT ![Tag].extracted = FALSE]
    /\ UNCHANGED <<code, pc, upsets, memory>>

ReplaceTree ==
    /\ pc = "replace" /\ disk[Tag].tree = Absent /\ ~disk[Tag].extracted
    /\ disk' = [disk EXCEPT ![Tag].tree = Pinned, ![Tag].extracted = TRUE]
    /\ pc' = "identify"
    /\ UNCHANGED <<code, upsets, memory>>

\* The library itself is not looked at.
SkipByManifest ==
    /\ pc = "identify"
    /\ disk[Tag].manifest.build = Identity(disk[Tag].tree, code)
    /\ Finish("skipped")
    /\ UNCHANGED <<code, disk, upsets>>

Skip ==
    /\ pc = "identify"
    /\ Vouched(disk[Tag].manifest, Identity(disk[Tag].tree, code), disk[Tag].art)
    /\ Finish("skipped")
    /\ UNCHANGED <<code, disk, upsets>>

(***************************************************************************)
(* generate: the analysed database is reused or built anew, saved under a  *)
(* stamp, and the library written with its manifest.                       *)
(***************************************************************************)
Generate ==
    LET id == Identity(disk[Tag].tree, code)
        reusable == Vouched(disk[Tag].stamp, id, disk[Tag].db)
    IN  /\ pc = "identify"
        /\ ~Vouched(disk[Tag].manifest, id, disk[Tag].art)
        /\ build' = id
        /\ view' = IF reusable THEN disk[Tag].db ELSE Made(disk[Tag].tree, loaded)
        /\ pc' = IF reusable THEN "write" ELSE "save"
        /\ UNCHANGED <<code, loaded, disk, todo, results, upsets>>

\* create_database writes the file in place.
BeginDatabase ==
    /\ pc = "save"
    /\ disk' = [disk EXCEPT ![Tag].db = Broken]
    /\ pc' = "saving"
    /\ UNCHANGED <<code, upsets, memory>>

EndDatabase ==
    /\ pc = "saving"
    /\ disk' = [disk EXCEPT ![Tag].db = view]
    /\ pc' = "stamp"
    /\ UNCHANGED <<code, upsets, memory>>

StampDatabase ==
    /\ pc = "stamp"
    /\ disk' = [disk EXCEPT ![Tag].stamp = Document(build, disk[Tag].db)]
    /\ pc' = "write"
    /\ UNCHANGED <<code, upsets, memory>>

WriteArtifact ==
    /\ pc = "write"
    /\ disk' = [disk EXCEPT ![Tag].art = view]
    /\ pc' = "manifest"
    /\ UNCHANGED <<code, upsets, memory>>

WriteManifest ==
    /\ pc = "manifest"
    /\ disk' = [disk EXCEPT ![Tag].manifest = Document(build, disk[Tag].art)]
    /\ Finish("built")
    /\ UNCHANGED <<code, upsets>>

(***************************************************************************)
(* What happens to a build: an exception, which main logs before it goes   *)
(* on; a kill; damage to a file; an edit of the source.                    *)
(***************************************************************************)
Upset == upsets < MaxUpsets /\ upsets' = upsets + 1

Fail ==
    /\ Upset /\ pc # "idle"
    /\ Finish("failed")
    /\ UNCHANGED <<code, disk>>

Kill ==
    /\ Upset /\ pc # "idle"
    /\ pc' = "idle"
    /\ todo' = {}
    /\ build' = Absent
    /\ view' = Absent
    /\ results' = [t \in Tags |-> "none"]
    /\ UNCHANGED <<code, loaded, disk>>

Damage(t) ==
    /\ Upset /\ pc = "idle"
    /\ \/ disk' = [disk EXCEPT ![t].archive = Broken]
       \/ disk' = [disk EXCEPT ![t].tree = Broken]
       \/ disk' = [disk EXCEPT ![t].extracted = FALSE]
       \/ disk' = [disk EXCEPT ![t].db = Broken]
       \/ disk' = [disk EXCEPT ![t].stamp = NoDocument]
       \/ disk' = [disk EXCEPT ![t].art = Broken]
       \/ disk' = [disk EXCEPT ![t].manifest = NoDocument]
    /\ results' = [results EXCEPT ![t] = "none"]
    /\ UNCHANGED <<code, loaded, pc, todo, build, view>>

Edit ==
    /\ Upset
    /\ pc = "idle" \/ EditsDuringRun
    /\ \E f \in ToolFiles, v \in Versions :
          v # code[f] /\ code' = [code EXCEPT ![f] = v]
    /\ results' = [t \in Tags |-> "none"]
    /\ UNCHANGED <<disk, pc, loaded, todo, build, view>>

Step ==
    \/ Download \/ ReuseTree \/ Extract \/ RemoveTree \/ ReplaceTree
    \/ Skip \/ Generate \/ BeginDatabase \/ EndDatabase \/ StampDatabase
    \/ WriteArtifact \/ WriteManifest

Next ==
    \/ Step
    \/ \E S \in SUBSET Tags : Run(S)
    \/ Fail \/ Kill \/ Edit
    \/ \E t \in Tags : Damage(t)

\* The script runs on by itself, and is run for every tag again and again.
Spec ==
    /\ Init /\ [][Next]_vars
    /\ WF_vars(Step) /\ SF_vars(Run(Tags))

-----------------------------------------------------------------------------
(***************************************************************************)
(* A library that passes for current was built by this code from the       *)
(* pinned input, whatever was killed, damaged, edited or edited back since *)
(* it was written (repro.py:200-214, generate.py:182-239).                 *)
(***************************************************************************)
CurrentIsBuilt == \A t \in Tags : Current(t) => disk[t].art = Made(Pinned, code)

(***************************************************************************)
(* The table main prints is true: a tag it calls built or skipped has a    *)
(* current library, whatever failed or was killed before, for this tag or  *)
(* for another (build_all.py:124-155, build_fpc.py:169-207).               *)
(***************************************************************************)
ReportIsTrue ==
    \A t \in Tags : results[t] \in {"built", "skipped"} => Current(t)

(***************************************************************************)
(* The builds keep the contract: no step of theirs takes a current library *)
(* away or replaces it by another (build_all.py:135-145, repro.py:73-88).  *)
(***************************************************************************)
Contract ==
    INSTANCE BuildContract WITH
        served <- [t \in Tags |-> IF Current(t) THEN disk[t].art ELSE Absent]

KeepsContract == Contract!Spec

(***************************************************************************)
(* Whatever was half done when a build failed or was killed, running the   *)
(* script again gets past it: in the end every library is current.         *)
(***************************************************************************)
BuiltInTheEnd == <>[](\A t \in Tags : Current(t))
=============================================================================
