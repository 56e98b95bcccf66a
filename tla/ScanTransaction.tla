--------------------------- MODULE ScanTransaction ---------------------------
(***************************************************************************)
(* DelphiMetadata.scan (rtti/apply.py) as a background task runs it: every *)
(* pass works on private copies, the user may cancel at any moment, and    *)
(* what a completed scan found becomes visible at once, together with the  *)
(* forgetting of every view derived from the results before.               *)
(*                                                                         *)
(* A record has a kind, lies in one of the ranges scanned and covers some  *)
(* cells.  "char" stands for a header-less constant, the one kind that is  *)
(* accepted only where no stronger record is known.                        *)
(***************************************************************************)
EXTENDS Naturals, FiniteSets

CONSTANTS
    Records,   \* what is in the image: [kind, range, covers]
    Requests,  \* what scan() is called with: [ranges, dfm]
    Streams,   \* the form streams of the image
    MaxScans,  \* how often one metadata object is scanned
    None       \* a cache or a result that is not there

Kinds == {"vmt", "typeinfo", "string", "char"}
Caches == {"children", "interfaces", "uregions", "uevidence", "class_ti"}

ASSUME ScanAssumption ==
    /\ \A r \in Records : r.kind \in Kinds
    /\ \A q \in Requests : q.dfm \in BOOLEAN
    /\ MaxScans \in Nat

VARIABLES
    committed,   \* self.vmts, typeinfos, strings and char_arrays
    streams,     \* self.dfm_streams
    caches,      \* [Caches -> None, or the records the view was built from]
    pc,          \* what the task does
    request,     \* the scan under way, or None
    rangesLeft,  \* its ranges whose records are still to be found
    stringsLeft, \* its ranges whose strings are
    staged,      \* the private dictionaries
    stagedStreams,
    cancelled,   \* task.cancelled
    scans,       \* how many scans were started
    complete,    \* what the scans that returned should have left
    dfmDone      \* a scan that looked for form streams has returned

vars == <<committed, streams, caches, pc, request, rangesLeft, stringsLeft, staged,
          stagedStreams, cancelled, scans, complete, dfmDone>>

OfKind(S, kinds) == {r \in S : r.kind \in kinds}
InRanges(ranges) == {r \in Records : r.range \in ranges}
Covered(S) == UNION {r.covers : r \in S}
-----------------------------------------------------------------------------
Init ==
    /\ committed = {} /\ streams = None
    /\ caches = [c \in Caches |-> None]
    /\ pc = "idle" /\ request = None
    /\ rangesLeft = {} /\ stringsLeft = {} /\ staged = {} /\ stagedStreams = None
    /\ cancelled = FALSE
    /\ scans = 0
    /\ complete = {} /\ dfmDone = FALSE

(* scan() copies what is already visible.                                  *)
StartScan(q) ==
    /\ pc \in {"idle", "scanned"}
    /\ scans < MaxScans
    /\ scans' = scans + 1
    /\ request' = q
    /\ rangesLeft' = q.ranges /\ stringsLeft' = {}
    /\ staged' = committed /\ stagedStreams' = streams
    /\ pc' = "records"
    /\ UNCHANGED <<committed, streams, caches, cancelled, complete, dfmDone>>

(* What was found goes where everybody sees it.                            *)
FindRecordsInPlace ==
    /\ pc = "records" /\ ~cancelled
    /\ \E range \in rangesLeft :
        /\ committed' = committed \cup OfKind(InRanges({range}), {"vmt", "typeinfo"})
        /\ staged' = staged \cup OfKind(InRanges({range}), {"vmt", "typeinfo"})
        /\ rangesLeft' = rangesLeft \ {range}
        /\ stringsLeft' = {range}
    /\ pc' = "strings"
    /\ UNCHANGED <<streams, caches, request, stagedStreams, cancelled, scans,
                   complete, dfmDone>>

(* P.scan over one range.                                                  *)
FindRecords ==
    /\ pc = "records" /\ ~cancelled
    /\ \E range \in rangesLeft :
        /\ staged' = staged \cup OfKind(InRanges({range}), {"vmt", "typeinfo"})
        /\ rangesLeft' = rangesLeft \ {range}
        /\ stringsLeft' = {range}
    /\ pc' = "strings"
    /\ UNCHANGED <<committed, streams, caches, request, stagedStreams, cancelled,
                   scans, complete, dfmDone>>

(* P.scan_strings over the same range, then the next range.                *)
FindStrings ==
    /\ pc = "strings" /\ ~cancelled
    /\ staged' = staged \cup OfKind(InRanges(stringsLeft), {"string"})
    /\ stringsLeft' = {}
    /\ pc' = IF rangesLeft = {} THEN "chars" ELSE "records"
    /\ UNCHANGED <<committed, streams, caches, request, rangesLeft, stagedStreams,
                   cancelled, scans, complete, dfmDone>>

ClaimedBefore == Covered(committed)

(* The spans of everything staged so far.                                  *)
Claimed == Covered(staged)

(* P.scan_headerless_strings: only where nothing else is known.            *)
FindChars ==
    /\ pc = "chars" /\ ~cancelled
    /\ staged' = staged \cup {c \in OfKind(InRanges(request.ranges), {"char"}) :
                                c.covers \cap Claimed = {}}
    /\ pc' = "dfm"
    /\ UNCHANGED <<committed, streams, caches, request, rangesLeft, stringsLeft,
                   stagedStreams, cancelled, scans, complete, dfmDone>>

(* dfm.find_streams, if it was asked for.                                  *)
FindStreams ==
    /\ pc = "dfm" /\ (request.dfm => ~cancelled)
    /\ stagedStreams' = IF request.dfm THEN Streams ELSE stagedStreams
    /\ pc' = "commit"
    /\ UNCHANGED <<committed, streams, caches, request, rangesLeft, stringsLeft, staged,
                   cancelled, scans, complete, dfmDone>>

(* What a scan of `q` should add to `before`.                              *)
Whole(before, q) ==
    LET strong == before \cup OfKind(InRanges(q.ranges), {"vmt", "typeinfo", "string"})
    IN strong \cup {c \in OfKind(InRanges(q.ranges), {"char"}) :
                      c.covers \cap Covered(strong) = {}}

(* A derived view that is not forgotten.                                   *)
CommitKeepingClasses ==
    /\ pc = "commit" /\ ~cancelled
    /\ committed' = staged /\ streams' = stagedStreams
    /\ caches' = [c \in Caches |-> IF c = "class_ti" THEN caches[c] ELSE None]
    /\ pc' = "scanned"
    /\ complete' = Whole(complete, request)
    /\ dfmDone' = (dfmDone \/ request.dfm)
    /\ UNCHANGED <<request, rangesLeft, stringsLeft, staged, stagedStreams, cancelled,
                   scans>>

(* The streams of an earlier scan replaced by those of one that looked for *)
(* none.                                                                   *)
CommitFreshStreams ==
    /\ pc = "commit" /\ ~cancelled
    /\ committed' = staged
    /\ streams' = IF request.dfm THEN stagedStreams ELSE None
    /\ caches' = [c \in Caches |-> None]
    /\ pc' = "scanned"
    /\ complete' = Whole(complete, request)
    /\ dfmDone' = (dfmDone \/ request.dfm)
    /\ UNCHANGED <<request, rangesLeft, stringsLeft, staged, stagedStreams, cancelled,
                   scans>>

(* After one last look at the cancel button.                               *)
Commit ==
    /\ pc = "commit" /\ ~cancelled
    /\ committed' = staged /\ streams' = stagedStreams
    /\ caches' = [c \in Caches |-> None]
    /\ pc' = "scanned"
    /\ complete' = Whole(complete, request)
    /\ dfmDone' = (dfmDone \/ request.dfm)
    /\ UNCHANGED <<request, rangesLeft, stringsLeft, staged, stagedStreams, cancelled,
                   scans>>

(* ScanCancelled leaves scan(), and the task ends: from any pass, from the *)
(* check before the commit, or from the task's own check after it.         *)
StopOnCancel ==
    /\ cancelled
    /\ \/ pc \in {"records", "strings", "chars", "commit", "scanned"}
       \/ pc = "dfm" /\ request.dfm
    /\ pc' = "stopped"
    /\ request' = None /\ rangesLeft' = {} /\ stringsLeft' = {}
    /\ staged' = {} /\ stagedStreams' = None
    /\ UNCHANGED <<committed, streams, caches, cancelled, scans, complete, dfmDone>>

(* _Task.scan's own look at the cancel button, once the scan has returned. *)
CheckProgress ==
    /\ pc = "scanned" /\ ~cancelled
    /\ pc' = "checked"
    /\ UNCHANGED <<committed, streams, caches, request, rangesLeft, stringsLeft, staged,
                   stagedStreams, cancelled, scans, complete, dfmDone>>

(* The command uses the results, and nobody looks at the button again: a   *)
(* cancel by now changes nothing.                                          *)
StartApplying ==
    /\ pc = "checked"
    /\ pc' = "applying"
    /\ UNCHANGED <<committed, streams, caches, request, rangesLeft, stringsLeft, staged,
                   stagedStreams, cancelled, scans, complete, dfmDone>>

(* The records each derived view is built from.                            *)
Basis(c) ==
    CASE c = "children" -> OfKind(committed, {"vmt"})
      [] c \in {"interfaces", "class_ti"} -> OfKind(committed, {"typeinfo"})
      [] OTHER -> OfKind(committed, {"vmt", "typeinfo"})

(* children(), interface_names(), class_typeinfo(), _unit_regions() and    *)
(* _unit_evidence(), which asks for the regions first.                     *)
Query(c) ==
    /\ pc \in {"scanned", "checked", "applying"}
    /\ caches[c] = None
    /\ caches' = [d \in Caches |->
                     IF d = c \/ (c = "uevidence" /\ d = "uregions" /\ caches[d] = None)
                     THEN Basis(d) ELSE caches[d]]
    /\ UNCHANGED <<committed, streams, pc, request, rangesLeft, stringsLeft, staged,
                   stagedStreams, cancelled, scans, complete, dfmDone>>

Applied ==
    /\ pc = "applying"
    /\ pc' = "applied"
    /\ UNCHANGED <<committed, streams, caches, request, rangesLeft, stringsLeft, staged,
                   stagedStreams, cancelled, scans, complete, dfmDone>>

Cancel ==
    /\ ~cancelled
    /\ cancelled' = TRUE
    /\ UNCHANGED <<committed, streams, caches, pc, request, rangesLeft, stringsLeft,
                   staged, stagedStreams, scans, complete, dfmDone>>

Task ==
    \/ \E q \in Requests : StartScan(q)
    \/ FindRecords \/ FindStrings \/ FindChars \/ FindStreams \/ Commit
    \/ StopOnCancel \/ CheckProgress \/ StartApplying \/ Applied
    \/ \E c \in Caches : Query(c)

Next == Task \/ Cancel

Spec == Init /\ [][Next]_vars
-----------------------------------------------------------------------------
(* Whenever the user cancels, what is visible is what the scans that       *)
(* returned found, all of it, and nothing of one that did not.             *)
CommittedIsWhole == committed = complete

(* No derived view outlives the records it was built from.                 *)
CachesFresh == \A c \in Caches : caches[c] \in {None, Basis(c)}

(* A header-less constant becomes visible only if no stronger record of    *)
(* the same result lies over it, whichever range and pass found that.      *)
WeakEvidenceYields ==
    [][\A c \in OfKind(committed', {"char"}) \ committed :
           \A r \in committed' \ OfKind(committed', {"char"}) :
               c.covers \cap r.covers = {}]_vars

(* No form streams means they were not looked for, and not that there are  *)
(* none: _claim_dfm searches the image itself on that account. A scan that *)
(* looks for none keeps what an earlier one found.                         *)
StreamsNoneMeansNotSought == streams = (IF dfmDone THEN Streams ELSE None)
=============================================================================
