-------------------------- MODULE BuildCacheProofs --------------------------
(***************************************************************************)
(* Proofs about BuildCache for any tags, source files, order of fetching   *)
(* and number of upsets: when the identities cover every source file and   *)
(* none changes under a running build, a current library is what this code *)
(* builds, reports are true, and the builds keep their contract.           *)
(***************************************************************************)
EXTENDS BuildCache, TLAPS

AtWork == pc # "idle"
Generating == pc \in {"save", "saving", "stamp", "write", "manifest"}

Builds == {Made(Pinned, c) : c \in Codes}
Contents == Builds \cup {Pinned, Absent, Broken}

(* A document names an identity and what the code of that identity made.   *)
Documents ==
    {NoDocument} \cup {Document(Identity(Pinned, c), Made(Pinned, c)) : c \in Codes}

Disk == [archive : Contents, tree : Contents, extracted : BOOLEAN, db : Contents,
         stamp : Documents, art : Contents, manifest : Documents]

(* The process works on a tag of its own with the code that is on disk.    *)
Process ==
    /\ code \in Codes
    /\ upsets \in Nat
    /\ disk \in [Tags -> Disk]
    /\ results \in [Tags -> {"none", "built", "skipped", "failed"}]
    /\ todo \subseteq Tags
    /\ AtWork => loaded = code /\ todo # {}
    /\ ~AtWork => todo = {}

(* What it holds in memory is what that code makes of the pinned input.    *)
Memory ==
    /\ pc = "identify" => disk[Tag].tree = Pinned
    /\ Generating => build = Identity(Pinned, code) /\ view = Made(Pinned, code)
    /\ pc = "stamp" => disk[Tag].db = Made(Pinned, code)
    /\ pc = "manifest" => disk[Tag].art = Made(Pinned, code)

BuildInv == Process /\ Memory

(* The tag at work is one of those left to do.                             *)
LEMMA TagAtWork ==
    ASSUME NEW S \in SUBSET Tags, S # {}
    PROVE  (CHOOSE t \in S : \A u \in S : TagOrder[t] <= TagOrder[u]) \in S
BY TagsAreListed

(* An identity covers every source file, so it tells the code apart.       *)
LEMMA IdentityTellsCode ==
    ASSUME Tracked = ToolFiles, NEW c \in Codes, NEW d \in Codes,
           Identity(Pinned, c) = Identity(Pinned, d)
    PROVE  c = d
<1>1. \A f \in ToolFiles : c[f] = d[f]
  BY DEF Identity
<1> QED BY <1>1 DEF Codes

(* What a document vouches for is what the present code makes.             *)
LEMMA VouchedIsBuilt ==
    ASSUME Tracked = ToolFiles, code \in Codes,
           NEW document \in Documents, NEW content,
           Vouched(document, Identity(Pinned, code), content)
    PROVE  content = Made(Pinned, code)
<1>1. content # Absent /\ document = Document(Identity(Pinned, code), content)
  BY DEF Vouched
<1>2. document # NoDocument
  BY <1>1 DEF Document, NoDocument
<1>3. PICK c \in Codes : document = Document(Identity(Pinned, c), Made(Pinned, c))
  BY <1>2 DEF Documents
<1>4. Identity(Pinned, code) = Identity(Pinned, c) /\ content = Made(Pinned, c)
  BY <1>1, <1>3 DEF Document
<1>5. c = code
  BY <1>4, IdentityTellsCode
<1> QED BY <1>4, <1>5

(* And the other way round: what was made and documented is vouched for.   *)
LEMMA MadeIsVouched ==
    ASSUME code \in Codes
    PROVE  Vouched(Document(Identity(Pinned, code), Made(Pinned, code)),
                   Identity(Pinned, code), Made(Pinned, code))
BY BuildsAreWhole DEF Vouched

(* The invariant tells what passes for current.                            *)
LEMMA InvTellsCurrent ==
    ASSUME Tracked = ToolFiles, BuildInv
    PROVE  CurrentIsBuilt
<1>1. SUFFICES ASSUME NEW t \in Tags, Current(t)
               PROVE  disk[t].art = Made(Pinned, code)
  BY DEF CurrentIsBuilt
<1>2. disk[t].manifest \in Documents
  BY DEF BuildInv, Process, Disk
<1> QED BY <1>1, <1>2, VouchedIsBuilt DEF Current, BuildInv, Process

(***************************************************************************)
(* Every step keeps the invariant.                                         *)
(***************************************************************************)

(* Between two tags nothing is held in memory.                             *)
LEMMA FinishKeepsInv ==
    ASSUME BuildInv, AtWork, NEW r \in {"built", "skipped", "failed"}, Finish(r),
           code' = code, disk' \in [Tags -> Disk], upsets' \in Nat
    PROVE  BuildInv'
<1>1. Tag \in Tags
  BY TagAtWork DEF BuildInv, Process, Tag
<1>2. results' \in [Tags -> {"none", "built", "skipped", "failed"}]
  BY <1>1 DEF Finish, BuildInv, Process
<1>3. Process'
  BY <1>1, <1>2 DEF Finish, BuildInv, Process, AtWork
<1>4. Memory'
  BY DEF Finish, Memory, Generating
<1> QED BY <1>3, <1>4 DEF BuildInv

(* A step that fetches, or looks, moves on with the tag it is at.          *)
LEMMA FetchKeepsInv ==
    ASSUME BuildInv, Download \/ ReuseTree \/ Extract \/ RemoveTree \/ ReplaceTree
    PROVE  BuildInv'
<1>1. Tag \in Tags /\ Tag' = Tag
  BY TagAtWork DEF BuildInv, Process, AtWork, Tag, Download, ReuseTree, Extract,
     RemoveTree, ReplaceTree, memory
<1>2. disk[Tag] \in Disk
  BY <1>1 DEF BuildInv, Process
<1>3. disk' \in [Tags -> Disk]
  <2>1. disk \in [Tags -> Disk]
    BY DEF BuildInv, Process
  <2>2. CASE Download
    BY <2>1, <2>2, <1>1, <1>2 DEF Disk, Contents, Download
  <2>3. CASE ReuseTree \/ Extract
    BY <2>1, <2>3 DEF ReuseTree, Extract
  <2>4. CASE RemoveTree
    <3>1. CASE disk' = [disk EXCEPT ![Tag].tree = Absent]
      BY <2>1, <3>1, <1>1, <1>2 DEF Disk, Contents
    <3>2. CASE disk' = [disk EXCEPT ![Tag].extracted = FALSE]
      BY <2>1, <3>2, <1>1, <1>2 DEF Disk
    <3> QED BY <2>4, <3>1, <3>2 DEF RemoveTree
  <2>5. CASE ReplaceTree
    BY <2>1, <2>5, <1>1, <1>2 DEF Disk, Contents, ReplaceTree
  <2> QED BY <2>2, <2>3, <2>4, <2>5
<1>4. Process'
  BY <1>3 DEF BuildInv, Process, AtWork, Download, ReuseTree, Extract, RemoveTree,
     ReplaceTree, memory
<1>5. Memory'
  <2>1. CASE Download \/ Extract \/ RemoveTree
    <3>1. pc' \in {"fetch", "replace"}
      BY <2>1 DEF Download, Extract, RemoveTree
    <3> QED BY <3>1 DEF Memory, Generating
  <2>2. CASE ReuseTree
    BY <2>2, <1>1 DEF Memory, Generating, ReuseTree, Extracted
  <2>3. CASE ReplaceTree
    BY <2>3, <1>1, <1>2 DEF Memory, Generating, ReplaceTree, BuildInv, Process, Disk
  <2> QED BY <2>1, <2>2, <2>3
<1> QED BY <1>4, <1>5 DEF BuildInv

(* What generate is given, it holds as its identity and its view.          *)
LEMMA GenerateKeepsInv ==
    ASSUME Tracked = ToolFiles, BuildInv, Generate
    PROVE  BuildInv'
<1>1. Tag \in Tags /\ Tag' = Tag /\ disk[Tag] \in Disk /\ disk[Tag].tree = Pinned
  BY TagAtWork DEF BuildInv, Process, AtWork, Memory, Tag, Generate
<1>2. Process'
  BY DEF BuildInv, Process, AtWork, Generate
<1>3. build' = Identity(Pinned, code') /\ code' = code
  BY <1>1 DEF Generate
<1>4. view' = Made(Pinned, code)
  <2>1. CASE Vouched(disk[Tag].stamp, Identity(disk[Tag].tree, code), disk[Tag].db)
    <3>1. view' = disk[Tag].db
      BY <2>1 DEF Generate
    <3> QED BY <3>1, <2>1, <1>1, VouchedIsBuilt DEF Disk, BuildInv, Process
  <2>2. CASE ~Vouched(disk[Tag].stamp, Identity(disk[Tag].tree, code), disk[Tag].db)
    <3>1. view' = Made(disk[Tag].tree, loaded)
      BY <2>2 DEF Generate
    <3>2. loaded = code
      BY DEF Generate, BuildInv, Process, AtWork
    <3> QED BY <3>1, <3>2, <1>1
  <2> QED BY <2>1, <2>2
<1>5. pc' \in {"write", "save"}
  BY DEF Generate
<1>6. Memory'
  BY <1>3, <1>4, <1>5 DEF Memory, Generating
<1> QED BY <1>2, <1>6 DEF BuildInv

(* The database and its stamp, the library: each holds what is in memory.  *)
LEMMA WriteKeepsInv ==
    ASSUME BuildInv, BeginDatabase \/ EndDatabase \/ StampDatabase \/ WriteArtifact
    PROVE  BuildInv'
<1>1. Tag \in Tags /\ Tag' = Tag
  BY TagAtWork DEF BuildInv, Process, AtWork, Tag, BeginDatabase, EndDatabase,
     StampDatabase, WriteArtifact, memory
<1>2. disk[Tag] \in Disk /\ code \in Codes
  BY <1>1 DEF BuildInv, Process
<1>3. build = Identity(Pinned, code) /\ view = Made(Pinned, code)
  BY DEF BuildInv, Memory, Generating, BeginDatabase, EndDatabase, StampDatabase,
     WriteArtifact
<1>4. view \in Contents
  BY <1>2, <1>3 DEF Contents, Builds
<1>5. CASE BeginDatabase
  <2>1. disk' \in [Tags -> Disk]
    BY <1>5, <1>1, <1>2 DEF BeginDatabase, BuildInv, Process, Disk, Contents
  <2>2. Process'
    BY <2>1, <1>5 DEF BeginDatabase, BuildInv, Process, AtWork, memory
  <2>3. Memory'
    BY <1>3, <1>5 DEF BeginDatabase, Memory, Generating, memory
  <2> QED BY <2>2, <2>3 DEF BuildInv
<1>6. CASE EndDatabase
  <2>1. disk' \in [Tags -> Disk] /\ disk'[Tag].db = view
    BY <1>6, <1>1, <1>2, <1>4 DEF EndDatabase, BuildInv, Process, Disk
  <2>2. Process'
    BY <2>1, <1>6 DEF EndDatabase, BuildInv, Process, AtWork, memory
  <2>3. Memory'
    BY <1>1, <1>3, <1>6, <2>1 DEF EndDatabase, Memory, Generating, memory
  <2> QED BY <2>2, <2>3 DEF BuildInv
<1>7. CASE StampDatabase
  <2>1. Document(build, disk[Tag].db) \in Documents
    BY <1>2, <1>3, <1>7 DEF StampDatabase, BuildInv, Memory, Documents
  <2>2. disk' \in [Tags -> Disk]
    BY <1>7, <1>1, <1>2, <2>1 DEF StampDatabase, BuildInv, Process, Disk
  <2>3. Process'
    BY <2>2, <1>7 DEF StampDatabase, BuildInv, Process, AtWork, memory
  <2>4. Memory'
    BY <1>3, <1>7 DEF StampDatabase, Memory, Generating, memory
  <2> QED BY <2>3, <2>4 DEF BuildInv
<1>8. CASE WriteArtifact
  <2>1. disk' \in [Tags -> Disk] /\ disk'[Tag].art = view
    BY <1>8, <1>1, <1>2, <1>4 DEF WriteArtifact, BuildInv, Process, Disk
  <2>2. Process'
    BY <2>1, <1>8 DEF WriteArtifact, BuildInv, Process, AtWork, memory
  <2>3. Memory'
    BY <1>1, <1>3, <1>8, <2>1 DEF WriteArtifact, Memory, Generating, memory
  <2> QED BY <2>2, <2>3 DEF BuildInv
<1> QED BY <1>5, <1>6, <1>7, <1>8

(* The manifest names the library beside it.                               *)
LEMMA ManifestIsHonest ==
    ASSUME BuildInv, WriteManifest
    PROVE  /\ Tag \in Tags
           /\ disk' = [disk EXCEPT ![Tag].manifest =
                         Document(Identity(Pinned, code), Made(Pinned, code))]
           /\ disk[Tag].art = Made(Pinned, code)
           /\ disk' \in [Tags -> Disk]
           /\ disk'[Tag].art = disk[Tag].art
           /\ disk'[Tag].manifest = Document(Identity(Pinned, code), Made(Pinned, code))
<1>1. Tag \in Tags
  BY TagAtWork DEF BuildInv, Process, AtWork, Tag, WriteManifest
<1>2. disk[Tag] \in Disk /\ disk \in [Tags -> Disk] /\ code \in Codes
  BY <1>1 DEF BuildInv, Process
<1>3. build = Identity(Pinned, code) /\ disk[Tag].art = Made(Pinned, code)
  BY DEF BuildInv, Memory, Generating, WriteManifest
<1>4. disk' = [disk EXCEPT ![Tag].manifest =
                  Document(Identity(Pinned, code), Made(Pinned, code))]
  BY <1>3 DEF WriteManifest
<1>5. Document(Identity(Pinned, code), Made(Pinned, code)) \in Documents
  BY <1>2 DEF Documents
<1> QED BY <1>1, <1>2, <1>3, <1>4, <1>5 DEF Disk

(* A kill forgets all that was held in memory.                             *)
LEMMA RunAndKillKeepInv ==
    ASSUME BuildInv, Kill \/ \E S \in SUBSET Tags : Run(S)
    PROVE  BuildInv'
<1>1. CASE Kill
  <2>1. Process'
    BY <1>1 DEF Kill, Upset, BuildInv, Process, AtWork
  <2>2. Memory'
    BY <1>1 DEF Kill, Memory, Generating
  <2> QED BY <2>1, <2>2 DEF BuildInv
<1>2. CASE \E S \in SUBSET Tags : Run(S)
  <2>1. Process'
    BY <1>2 DEF Run, BuildInv, Process, AtWork
  <2>2. pc' = "fetch"
    BY <1>2 DEF Run
  <2>3. Memory'
    BY <2>2 DEF Memory, Generating
  <2> QED BY <2>1, <2>3 DEF BuildInv
<1> QED BY <1>1, <1>2

(* Damage leaves every document honest, or no document.                    *)
LEMMA DamageKeepsDisk ==
    ASSUME disk \in [Tags -> Disk], NEW t \in Tags, Damage(t)
    PROVE  disk' \in [Tags -> Disk]
<1>1. disk[t] \in Disk
  OBVIOUS
<1>2. CASE disk' = [disk EXCEPT ![t].archive = Broken]
  BY <1>1, <1>2 DEF Disk, Contents
<1>3. CASE disk' = [disk EXCEPT ![t].tree = Broken]
  BY <1>1, <1>3 DEF Disk, Contents
<1>4. CASE disk' = [disk EXCEPT ![t].extracted = FALSE]
  BY <1>1, <1>4 DEF Disk
<1>5. CASE disk' = [disk EXCEPT ![t].db = Broken]
  BY <1>1, <1>5 DEF Disk, Contents
<1>6. CASE disk' = [disk EXCEPT ![t].stamp = NoDocument]
  BY <1>1, <1>6 DEF Disk, Documents
<1>7. CASE disk' = [disk EXCEPT ![t].art = Broken]
  BY <1>1, <1>7 DEF Disk, Contents
<1>8. CASE disk' = [disk EXCEPT ![t].manifest = NoDocument]
  BY <1>1, <1>8 DEF Disk, Documents
<1> QED BY <1>2, <1>3, <1>4, <1>5, <1>6, <1>7, <1>8 DEF Damage

(* What happens between two runs finds nothing held in memory.             *)
LEMMA UpsetKeepsInv ==
    ASSUME ~EditsDuringRun, BuildInv, Edit \/ \E t \in Tags : Damage(t)
    PROVE  BuildInv'
<1>1. pc = "idle" /\ pc' = pc /\ todo' = todo /\ upsets' \in Nat
  BY DEF Edit, Damage, Upset, BuildInv, Process
<1>2. Memory'
  BY <1>1 DEF Memory, Generating
<1>3. CASE Edit
  <2>1. code' \in Codes
    BY <1>3 DEF Edit, BuildInv, Process, Codes
  <2>2. Process'
    BY <1>1, <1>3, <2>1 DEF Edit, BuildInv, Process, AtWork
  <2> QED BY <2>2, <1>2 DEF BuildInv
<1>4. ASSUME NEW t \in Tags, Damage(t)
      PROVE  Process'
  <2>1. disk' \in [Tags -> Disk]
    BY <1>4, DamageKeepsDisk DEF BuildInv, Process
  <2>2. results' \in [Tags -> {"none", "built", "skipped", "failed"}] /\ code' = code
    BY <1>4 DEF Damage, BuildInv, Process
  <2> QED BY <1>1, <2>1, <2>2 DEF BuildInv, Process, AtWork
<1> QED BY <1>2, <1>3, <1>4 DEF BuildInv

LEMMA NextKeepsInv ==
    ASSUME Tracked = ToolFiles, ~EditsDuringRun, BuildInv, [Next]_vars
    PROVE  BuildInv'
<1>1. CASE Skip
  <2>1. disk' \in [Tags -> Disk] /\ upsets' \in Nat /\ code' = code /\ AtWork
    BY <1>1 DEF Skip, BuildInv, Process, AtWork
  <2> QED BY <1>1, <2>1, FinishKeepsInv DEF Skip
<1>2. CASE WriteManifest
  <2>1. disk' \in [Tags -> Disk]
    BY <1>2, ManifestIsHonest
  <2>2. upsets' \in Nat /\ code' = code /\ AtWork
    BY <1>2 DEF WriteManifest, BuildInv, Process, AtWork
  <2> QED BY <1>2, <2>1, <2>2, FinishKeepsInv DEF WriteManifest
<1>3. CASE Fail
  <2>1. disk' \in [Tags -> Disk] /\ upsets' \in Nat /\ code' = code /\ AtWork
    BY <1>3 DEF Fail, Upset, BuildInv, Process, AtWork
  <2> QED BY <1>3, <2>1, FinishKeepsInv DEF Fail
<1>4. CASE UNCHANGED vars
  <2>1. Process'
    BY <1>4 DEF vars, memory, BuildInv, Process, AtWork
  <2>2. Memory'
    BY <1>4 DEF vars, memory, BuildInv, Memory, Generating, Tag
  <2> QED BY <2>1, <2>2 DEF BuildInv
<1> QED BY <1>1, <1>2, <1>3, <1>4, FetchKeepsInv, GenerateKeepsInv, WriteKeepsInv,
           RunAndKillKeepInv, UpsetKeepsInv DEF Next, Step

LEMMA InitHasInv ==
    ASSUME Init
    PROVE  BuildInv
<1>1. NoFiles \in Disk
  BY DEF NoFiles, Disk, Contents, Documents
<1> QED BY <1>1 DEF Init, BuildInv, Process, AtWork, Memory, Generating

(* A library that passes for current holds what the present code builds    *)
(* from the pinned input.                                                  *)
THEOREM CurrentLibrariesAreBuilt ==
    ASSUME Tracked = ToolFiles, ~EditsDuringRun
    PROVE  Spec => []CurrentIsBuilt
<1>1. Init => BuildInv
  BY InitHasInv
<1>2. BuildInv /\ [Next]_vars => BuildInv'
  BY NextKeepsInv
<1>3. BuildInv => CurrentIsBuilt
  BY InvTellsCurrent
<1> QED BY <1>1, <1>2, <1>3, PTL DEF Spec

(***************************************************************************)
(* What the steps do to the libraries that pass for current.               *)
(***************************************************************************)

(* The tags left have no result yet, and the results there are hold.       *)
Reported ==
    \A t \in Tags :
        /\ t \in todo => results[t] = "none"
        /\ results[t] \in {"built", "skipped"} => Current(t)

(* No step of the builds takes a current library away, or touches another  *)
(* tag's.                                                                  *)
LEMMA StepKeepsCurrent ==
    ASSUME Tracked = ToolFiles, BuildInv, Step
    PROVE  /\ Tag \in Tags
           /\ code' = code /\ upsets' = upsets
           /\ \A t \in Tags : Current(t) => Current(t)'
           /\ \A t \in Tags \ {Tag} : Current(t)' => Current(t)
           /\ \A t \in Tags \ {Tag} : disk'[t].art = disk[t].art
<1>1. Tag \in Tags
  BY TagAtWork DEF BuildInv, Process, AtWork, Tag, Step, Download, ReuseTree, Extract,
     RemoveTree, ReplaceTree, Skip, Generate, BeginDatabase, EndDatabase, StampDatabase,
     WriteArtifact, WriteManifest
<1>2. code' = code /\ upsets' = upsets
  BY DEF Step, Download, ReuseTree, Extract, RemoveTree, ReplaceTree, Skip, Generate,
     BeginDatabase, EndDatabase, StampDatabase, WriteArtifact, WriteManifest
<1>3. disk \in [Tags -> Disk] /\ disk[Tag] \in Disk /\ code \in Codes
  BY <1>1 DEF BuildInv, Process
<1>4. \A t \in Tags \ {Tag} : disk'[t] = disk[t]
  BY <1>1, <1>3 DEF Step, Download, ReuseTree, Extract, RemoveTree, ReplaceTree, Skip,
     Generate, BeginDatabase, EndDatabase, StampDatabase, WriteArtifact, WriteManifest
<1>5. Current(Tag) => Vouched(disk'[Tag].manifest, Identity(Pinned, code), disk'[Tag].art)
  <2>1. CASE WriteArtifact
    <3>1. disk'[Tag].manifest = disk[Tag].manifest /\ disk'[Tag].art = view
      BY <2>1, <1>1, <1>3 DEF WriteArtifact, Disk
    <3>2. view = Made(Pinned, code)
      BY <2>1 DEF WriteArtifact, BuildInv, Memory, Generating
    <3>3. Current(Tag) => disk[Tag].art = Made(Pinned, code)
      BY <1>1, InvTellsCurrent DEF CurrentIsBuilt
    <3> QED BY <3>1, <3>2, <3>3 DEF Current
  <2>2. CASE WriteManifest
    BY <2>2, <1>3, ManifestIsHonest, MadeIsVouched
  <2>3. CASE ~WriteArtifact /\ ~WriteManifest
    <3>1. disk'[Tag].manifest = disk[Tag].manifest /\ disk'[Tag].art = disk[Tag].art
      <4>1. CASE Download \/ ReplaceTree
        BY <4>1, <1>1, <1>3 DEF Download, ReplaceTree, Disk
      <4>2. CASE RemoveTree
        BY <4>2, <1>1, <1>3 DEF RemoveTree, Disk
      <4>3. CASE ReuseTree \/ Extract \/ Skip \/ Generate
        BY <4>3 DEF ReuseTree, Extract, Skip, Generate
      <4>4. CASE BeginDatabase \/ EndDatabase
        BY <4>4, <1>1, <1>3 DEF BeginDatabase, EndDatabase, Disk
      <4>5. CASE StampDatabase
        BY <4>5, <1>1, <1>3 DEF StampDatabase, Disk
      <4> QED BY <2>3, <4>1, <4>2, <4>3, <4>4, <4>5 DEF Step
    <3> QED BY <3>1 DEF Current
  <2> QED BY <2>1, <2>2, <2>3
<1>6. \A t \in Tags : Current(t)' <=>
          Vouched(disk'[t].manifest, Identity(Pinned, code), disk'[t].art)
  BY <1>2 DEF Current, Identity, Vouched
<1> QED BY <1>1, <1>2, <1>4, <1>5, <1>6 DEF Current

(* Only damage and edits take a current library away.                      *)
LEMMA UpsetsAndCurrent ==
    ASSUME BuildInv, Fail \/ Kill \/ \E t \in Tags : Damage(t)
    PROVE  /\ code' = code
           /\ \A t \in Tags : Current(t)' => Current(t) /\ disk'[t].art = disk[t].art
<1>1. CASE Fail \/ Kill
  BY <1>1 DEF Fail, Kill, Finish, Current, Identity, Vouched
<1>2. ASSUME NEW t \in Tags, Damage(t), NEW u \in Tags, Current(u)'
      PROVE  Current(u) /\ disk'[u].art = disk[u].art /\ code' = code
  <2>1. code' = code
    BY <1>2 DEF Damage
  <2>2. disk \in [Tags -> Disk] /\ disk[t] \in Disk
    BY DEF BuildInv, Process
  <2>3. Vouched(disk'[u].manifest, Identity(Pinned, code), disk'[u].art)
    BY <1>2, <2>1 DEF Current, Identity, Vouched
  <2>4. disk'[u].art # Broken /\ disk'[u].manifest # NoDocument
    BY <2>3 DEF Vouched, NoDocument, Document
  <2>5. disk'[u].manifest = disk[u].manifest /\ disk'[u].art = disk[u].art
    <3>1. CASE u # t
      BY <1>2, <3>1, <2>2 DEF Damage
    <3>2. CASE u = t
      <4>1. CASE disk' = [disk EXCEPT ![t].archive = Broken]
        BY <4>1, <3>2, <2>2 DEF Disk
      <4>2. CASE disk' = [disk EXCEPT ![t].tree = Broken]
        BY <4>2, <3>2, <2>2 DEF Disk
      <4>3. CASE disk' = [disk EXCEPT ![t].extracted = FALSE]
        BY <4>3, <3>2, <2>2 DEF Disk
      <4>4. CASE disk' = [disk EXCEPT ![t].db = Broken]
        BY <4>4, <3>2, <2>2 DEF Disk
      <4>5. CASE disk' = [disk EXCEPT ![t].stamp = NoDocument]
        BY <4>5, <3>2, <2>2 DEF Disk
      <4>6. CASE disk' = [disk EXCEPT ![t].art = Broken]
        BY <4>6, <3>2, <2>2, <2>4 DEF Disk
      <4>7. CASE disk' = [disk EXCEPT ![t].manifest = NoDocument]
        BY <4>7, <3>2, <2>2, <2>4 DEF Disk
      <4> QED BY <1>2, <4>1, <4>2, <4>3, <4>4, <4>5, <4>6, <4>7 DEF Damage
    <3> QED BY <3>1, <3>2
  <2> QED BY <2>1, <2>3, <2>5 DEF Current
<1>3. (\E t \in Tags : Damage(t)) => code' = code
  BY DEF Damage
<1> QED BY <1>1, <1>2, <1>3

LEMMA NextKeepsReported ==
    ASSUME Tracked = ToolFiles, ~EditsDuringRun, BuildInv, Reported, [Next]_vars
    PROVE  Reported'
<1>1. results \in [Tags -> {"none", "built", "skipped", "failed"}]
  BY DEF BuildInv, Process
<1>2. CASE Step
  <2>1. /\ Tag \in Tags
        /\ \A t \in Tags : Current(t) => Current(t)'
    BY <1>2, StepKeepsCurrent
  <2>2. CASE Skip
    <3>1. Current(Tag)
      BY <2>2 DEF Skip, BuildInv, Memory, Current
    <3>2. results' = [results EXCEPT ![Tag] = "skipped"] /\ todo' = todo \ {Tag}
      BY <2>2 DEF Skip, Finish
    <3> QED BY <1>1, <2>1, <3>1, <3>2 DEF Reported
  <2>3. CASE WriteManifest
    <3>1. Vouched(disk'[Tag].manifest, Identity(Pinned, code), disk'[Tag].art)
      BY <2>3, ManifestIsHonest, MadeIsVouched DEF BuildInv, Process
    <3>2. Current(Tag)' <=> Vouched(disk'[Tag'].manifest, Identity(Pinned, code'), disk'[Tag'].art)
      BY DEF Current, Identity, Vouched
    <3>3. \A t \in Tags : Current(t)' <=>
              Vouched(disk'[t].manifest, Identity(Pinned, code), disk'[t].art)
      BY <2>3 DEF Current, Identity, Vouched, WriteManifest
    <3>4. results' = [results EXCEPT ![Tag] = "built"] /\ todo' = todo \ {Tag}
      BY <2>3 DEF WriteManifest, Finish
    <3> QED BY <1>1, <2>1, <3>1, <3>3, <3>4 DEF Reported
  <2>4. CASE ~Skip /\ ~WriteManifest
    <3>1. results' = results /\ todo' = todo
      BY <1>2, <2>4 DEF Step, Download, ReuseTree, Extract, RemoveTree, ReplaceTree,
         Generate, BeginDatabase, EndDatabase, StampDatabase, WriteArtifact, memory
    <3> QED BY <2>1, <3>1 DEF Reported
  <2> QED BY <2>2, <2>3, <2>4
<1>3. CASE Fail
  <2>1. Tag \in Tags
    BY <1>3, TagAtWork DEF BuildInv, Process, AtWork, Tag, Fail
  <2>2. results' = [results EXCEPT ![Tag] = "failed"] /\ todo' = todo \ {Tag}
    BY <1>3 DEF Fail, Finish
  <2>3. \A t \in Tags : Current(t)' <=> Current(t)
    BY <1>3 DEF Fail, Current, Identity, Vouched
  <2> QED BY <1>1, <2>1, <2>2, <2>3 DEF Reported
<1>4. CASE Kill \/ Edit \/ \E S \in SUBSET Tags : Run(S)
  BY <1>4 DEF Kill, Edit, Run, Reported
<1>5. ASSUME NEW t \in Tags, Damage(t)
      PROVE  Reported'
  <2>1. results' = [results EXCEPT ![t] = "none"] /\ todo' = todo /\ code' = code
    BY <1>5 DEF Damage
  <2>2. disk \in [Tags -> Disk]
    BY DEF BuildInv, Process
  <2>3. \A u \in Tags \ {t} : disk'[u] = disk[u]
    BY <1>5, <2>2 DEF Damage
  <2>4. \A u \in Tags \ {t} : Current(u)' <=> Current(u)
    BY <2>1, <2>3 DEF Current, Identity, Vouched
  <2> QED BY <1>1, <2>1, <2>4 DEF Reported
<1>6. CASE UNCHANGED vars
  BY <1>6 DEF vars, memory, Reported, Current, Identity, Vouched
<1> QED BY <1>2, <1>3, <1>4, <1>5, <1>6 DEF Next

(* A tag reported as built or skipped has a current library.               *)
THEOREM ReportsAreTrue ==
    ASSUME Tracked = ToolFiles, ~EditsDuringRun
    PROVE  Spec => []ReportIsTrue
<1>1. Init => BuildInv /\ Reported
  BY InitHasInv DEF Init, Reported
<1>2. BuildInv /\ Reported /\ [Next]_vars => (BuildInv /\ Reported)'
  BY NextKeepsInv, NextKeepsReported
<1>3. Reported => ReportIsTrue
  BY DEF Reported, ReportIsTrue
<1> QED BY <1>1, <1>2, <1>3, PTL DEF Spec

(***************************************************************************)
(* The refinement.                                                         *)
(***************************************************************************)
Served(t) == IF Current(t) THEN disk[t].art ELSE Absent

ServedNow == [t \in Tags |-> Served(t)]

(* What is served is nothing, or what the present code builds.             *)
LEMMA ServedIsBuilt ==
    ASSUME CurrentIsBuilt
    PROVE  \A t \in Tags : Served(t) \in {Absent, Made(Pinned, code)}
BY DEF CurrentIsBuilt, Served

(* A step of the builds publishes the tag it is at, or nothing.            *)
LEMMA StepPublishes ==
    ASSUME Tracked = ToolFiles, BuildInv, CurrentIsBuilt, CurrentIsBuilt', Step
    PROVE  /\ code' = code /\ upsets' = upsets
           /\ \/ ServedNow' = ServedNow
              \/ \E t \in Tags :
                    /\ ServedNow[t] = Absent
                    /\ ServedNow' = [ServedNow EXCEPT ![t] = Made(Pinned, code)]
<1>1. /\ Tag \in Tags
      /\ code' = code /\ upsets' = upsets
      /\ \A t \in Tags : Current(t) => Current(t)'
      /\ \A t \in Tags \ {Tag} : Current(t)' => Current(t)
      /\ \A t \in Tags \ {Tag} : disk'[t].art = disk[t].art
  BY StepKeepsCurrent
<1>2. \A t \in Tags \ {Tag} : Served(t)' = Served(t)
  BY <1>1 DEF Served
<1>3. CASE Current(Tag)
  <2>1. \A t \in Tags : Current(t) => disk'[t].art = disk[t].art
    BY <1>1, <1>3 DEF CurrentIsBuilt
  <2>2. \A t \in Tags : Served(t)' = Served(t)
    BY <1>1, <1>2, <1>3, <2>1 DEF Served
  <2> QED BY <1>1, <2>2 DEF ServedNow
<1>4. CASE ~Current(Tag)
  <2>1. ServedNow[Tag] = Absent
    BY <1>1, <1>4 DEF ServedNow, Served
  <2>2. \A t \in Tags : t = Tag => Served(t)' \in {Absent, Made(Pinned, code)}
    BY <1>1 DEF Served, CurrentIsBuilt
  <2>3. PICK content : content \in {Absent, Made(Pinned, code)}
                        /\ \A t \in Tags : Served(t)' = IF t = Tag THEN content ELSE Served(t)
    <3>1. PICK u \in Tags : u = Tag
      BY <1>1
    <3>2. \A t \in Tags : Served(t)' = IF t = Tag THEN Served(u)' ELSE Served(t)
      BY <1>2, <3>1
    <3> QED BY <2>2, <3>1, <3>2
  <2>4. ServedNow' = [ServedNow EXCEPT ![Tag] = content]
    BY <1>1, <2>3 DEF ServedNow
  <2>5. CASE content = Absent
    BY <1>1, <2>1, <2>4, <2>5 DEF ServedNow
  <2>6. CASE content = Made(Pinned, code)
    BY <1>1, <2>1, <2>4, <2>6
  <2> QED BY <2>3, <2>5, <2>6
<1> QED BY <1>1, <1>3, <1>4

(* Whatever else happens takes libraries away, or edits the code.          *)
LEMMA UpsetsOnlyRetract ==
    ASSUME BuildInv, CurrentIsBuilt, CurrentIsBuilt',
           Fail \/ Kill \/ Edit \/ \E t \in Tags : Damage(t)
    PROVE  /\ upsets < MaxUpsets /\ upsets' = upsets + 1
           /\ code' \in Codes
           /\ ServedNow' \in [Tags -> {Absent, Made(Pinned, code')}]
           /\ code' = code => \A t \in Tags : ServedNow'[t] \in {Absent, ServedNow[t]}
<1>1. upsets < MaxUpsets /\ upsets' = upsets + 1
  BY DEF Fail, Kill, Edit, Damage, Upset
<1>2. ServedNow' \in [Tags -> {Absent, Made(Pinned, code')}]
  BY DEF ServedNow, Served, CurrentIsBuilt
<1>3. CASE Edit
  <2>1. code' \in Codes /\ code' # code
    BY <1>3 DEF Edit, BuildInv, Process, Codes
  <2> QED BY <1>1, <1>2, <2>1
<1>4. CASE Fail \/ Kill \/ \E t \in Tags : Damage(t)
  <2>1. /\ code' = code
        /\ \A t \in Tags : Current(t)' => Current(t) /\ disk'[t].art = disk[t].art
    BY <1>4, UpsetsAndCurrent
  <2>2. code' \in Codes
    BY <2>1 DEF BuildInv, Process
  <2>3. \A t \in Tags : ServedNow'[t] \in {Absent, ServedNow[t]}
    BY <2>1 DEF ServedNow, Served
  <2> QED BY <1>1, <1>2, <2>2, <2>3
<1> QED BY <1>3, <1>4

(* Starting a run serves what was served.                                  *)
LEMMA OthersServeTheSame ==
    ASSUME UNCHANGED <<code, disk, upsets>>
    PROVE  UNCHANGED <<code, ServedNow, upsets>>
BY DEF ServedNow, Served, Current, Identity, Vouched

LEMMA NextKeepsContract ==
    ASSUME Tracked = ToolFiles, BuildInv, CurrentIsBuilt, CurrentIsBuilt', [Next]_vars
    PROVE  [Contract!Next]_(Contract!vars)
<1>1. CASE Step
  BY <1>1, StepPublishes DEF Contract!Next, Contract!Publish, Contract!vars,
     Contract!Made, Made, ServedNow, Served
<1>2. CASE Fail \/ Kill \/ Edit \/ \E t \in Tags : Damage(t)
  BY <1>2, UpsetsOnlyRetract DEF Contract!Next, Contract!Upset, Contract!Made,
     Contract!Codes, Codes, Made, ServedNow, Served
<1>3. CASE UNCHANGED vars \/ \E S \in SUBSET Tags : Run(S)
  <2>1. UNCHANGED <<code, disk, upsets>>
    BY <1>3 DEF vars, Run
  <2> QED BY <2>1, OthersServeTheSame DEF Contract!vars, ServedNow, Served
<1> QED BY <1>1, <1>2, <1>3 DEF Next

(* The builds implement the contract.                                      *)
THEOREM BuildsKeepContract ==
    ASSUME Tracked = ToolFiles, ~EditsDuringRun
    PROVE  Spec => KeepsContract
<1>1. Init => BuildInv
  BY InitHasInv
<1>2. BuildInv /\ [Next]_vars => BuildInv'
  BY NextKeepsInv
<1>3. BuildInv => CurrentIsBuilt
  BY InvTellsCurrent
<1>4. Init => Contract!Init
  BY DEF Init, Contract!Init, Contract!Codes, Codes, Current, Vouched, NoFiles,
     NoDocument, Document
<1>5. BuildInv /\ CurrentIsBuilt /\ CurrentIsBuilt' /\ [Next]_vars
          => [Contract!Next]_(Contract!vars)
  BY NextKeepsContract
<1> QED BY <1>1, <1>2, <1>3, <1>4, <1>5, PTL DEF Spec, KeepsContract, Contract!Spec
=============================================================================
