------------------------ MODULE ScanTransactionProofs ------------------------
(***************************************************************************)
(* Proofs about ScanTransaction for any image, any requests and any number *)
(* of scans: only whole results become visible, derived views are fresh,   *)
(* and a header-less constant never overlaps a stronger record.            *)
(***************************************************************************)
EXTENDS ScanTransaction, TLAPS

Strong == {"vmt", "typeinfo", "string"}

(* What the private copies hold, pass by pass: the records of the ranges   *)
(* done with, and of the one under way all but its strings.                *)
Staging ==
    /\ pc = "records" =>
        staged = committed \cup OfKind(InRanges(request.ranges \ rangesLeft), Strong)
    /\ pc = "strings" =>
        staged = committed
                 \cup OfKind(InRanges((request.ranges \ rangesLeft) \ stringsLeft), Strong)
                 \cup OfKind(InRanges(stringsLeft), {"vmt", "typeinfo"})
    /\ pc = "chars" =>
        staged = committed \cup OfKind(InRanges(request.ranges), Strong)
    /\ pc \in {"dfm", "commit"} => staged = Whole(committed, request)

(* The ranges still to do are ranges of the request.                       *)
Ranges ==
    pc \in {"records", "strings"} =>
        /\ rangesLeft \subseteq request.ranges
        /\ stringsLeft \subseteq request.ranges
        /\ rangesLeft \cap stringsLeft = {}
        /\ pc = "records" => stringsLeft = {}

ScanInv == CommittedIsWhole /\ Ranges /\ Staging

(***************************************************************************)
(* The passes, one lemma each.                                             *)
(***************************************************************************)

(* A fresh copy of the visible records has none of the request's yet.      *)
LEMMA StartKeepsInv ==
    ASSUME ScanInv, NEW q \in Requests, StartScan(q)
    PROVE  ScanInv'
<1>1. CommittedIsWhole'
  BY DEF ScanInv, CommittedIsWhole, StartScan
<1>2. Ranges'
  BY DEF Ranges, StartScan
<1>3. OfKind(InRanges(q.ranges \ q.ranges), Strong) = {}
  BY DEF OfKind, InRanges
<1>4. Staging'
  BY <1>3 DEF Staging, StartScan
<1> QED BY <1>1, <1>2, <1>4 DEF ScanInv

(* A range's classes and types join those of the ranges before it.         *)
LEMMA RecordsKeepInv ==
    ASSUME ScanInv, FindRecords
    PROVE  ScanInv'
<1>1. PICK range \in rangesLeft :
          /\ staged' = staged \cup OfKind(InRanges({range}), {"vmt", "typeinfo"})
          /\ rangesLeft' = rangesLeft \ {range}
          /\ stringsLeft' = {range}
  BY DEF FindRecords
<1>2. pc = "records" /\ pc' = "strings" /\ request' = request
      /\ committed' = committed /\ complete' = complete
  BY DEF FindRecords
<1>3. CommittedIsWhole'
  BY <1>2 DEF ScanInv, CommittedIsWhole
<1>4. Ranges'
  BY <1>1, <1>2 DEF ScanInv, Ranges
<1>5. (request.ranges \ rangesLeft') \ stringsLeft' = request.ranges \ rangesLeft
  BY <1>1, <1>2 DEF ScanInv, Ranges
<1>6. staged = committed \cup OfKind(InRanges(request.ranges \ rangesLeft), Strong)
  BY <1>2 DEF ScanInv, Staging
<1>7. Staging'
  BY <1>1, <1>2, <1>5, <1>6 DEF Staging, OfKind, InRanges
<1> QED BY <1>3, <1>4, <1>7 DEF ScanInv

(* Its strings complete the range.                                         *)
LEMMA StringsKeepInv ==
    ASSUME ScanInv, FindStrings
    PROVE  ScanInv'
<1>1. pc = "strings" /\ request' = request /\ rangesLeft' = rangesLeft
      /\ stringsLeft' = {} /\ committed' = committed /\ complete' = complete
      /\ pc' = (IF rangesLeft = {} THEN "chars" ELSE "records")
      /\ staged' = staged \cup OfKind(InRanges(stringsLeft), {"string"})
  BY DEF FindStrings
<1>2. CommittedIsWhole'
  BY <1>1 DEF ScanInv, CommittedIsWhole
<1>3. Ranges'
  BY <1>1 DEF ScanInv, Ranges
<1>4. stringsLeft \subseteq request.ranges \ rangesLeft
  BY <1>1 DEF ScanInv, Ranges
<1>5. staged = committed
          \cup OfKind(InRanges((request.ranges \ rangesLeft) \ stringsLeft), Strong)
          \cup OfKind(InRanges(stringsLeft), {"vmt", "typeinfo"})
  BY <1>1 DEF ScanInv, Staging
<1>6. staged' = committed \cup OfKind(InRanges(request.ranges \ rangesLeft), Strong)
  <2>1. OfKind(InRanges(request.ranges \ rangesLeft), Strong)
          = OfKind(InRanges((request.ranges \ rangesLeft) \ stringsLeft), Strong)
            \cup OfKind(InRanges(stringsLeft), {"vmt", "typeinfo"})
            \cup OfKind(InRanges(stringsLeft), {"string"})
    BY <1>4 DEF OfKind, InRanges, Strong
  <2> QED BY <1>1, <1>5, <2>1
<1>7. rangesLeft = {} => request.ranges \ rangesLeft = request.ranges
  OBVIOUS
<1>8. Staging'
  BY <1>1, <1>6, <1>7 DEF Staging
<1> QED BY <1>2, <1>3, <1>8 DEF ScanInv

(* With every stronger record staged, the constants make the result whole. *)
LEMMA CharsKeepInv ==
    ASSUME ScanInv, FindChars
    PROVE  ScanInv'
<1>1. pc = "chars" /\ pc' = "dfm" /\ request' = request
      /\ committed' = committed /\ complete' = complete
  BY DEF FindChars
<1>2. staged = committed \cup OfKind(InRanges(request.ranges), Strong)
  BY <1>1 DEF ScanInv, Staging
<1>3. staged' = Whole(committed, request)
  BY <1>2 DEF FindChars, Whole, Claimed, Strong
<1>4. Staging'
  BY <1>1, <1>3 DEF Staging, Whole
<1>5. CommittedIsWhole' /\ Ranges'
  BY <1>1 DEF ScanInv, CommittedIsWhole, Ranges
<1> QED BY <1>4, <1>5 DEF ScanInv

(* Publishing a whole result publishes what the scan should have left.     *)
LEMMA CommitKeepsInv ==
    ASSUME ScanInv, Commit
    PROVE  ScanInv'
<1>1. pc = "commit" /\ pc' = "scanned" /\ committed' = staged
      /\ complete' = Whole(complete, request)
  BY DEF Commit
<1>2. staged = Whole(committed, request) /\ committed = complete
  BY <1>1 DEF ScanInv, Staging, CommittedIsWhole
<1> QED BY <1>1, <1>2 DEF ScanInv, CommittedIsWhole, Ranges, Staging

(* ScanInv is inductive.                                                   *)
LEMMA ScanInvInductive == Spec => []ScanInv
<1>1. Init => ScanInv
  BY DEF Init, ScanInv, CommittedIsWhole, Ranges, Staging
<1>2. ScanInv /\ [Next]_vars => ScanInv'
  <2> SUFFICES ASSUME ScanInv, [Next]_vars
               PROVE  ScanInv'
    OBVIOUS
  <2> USE DEF ScanInv
  <2>1. ASSUME NEW q \in Requests, StartScan(q) PROVE ScanInv'
    BY <2>1, StartKeepsInv
  <2>2. CASE FindRecords
    BY <2>2, RecordsKeepInv
  <2>3. CASE FindStrings
    BY <2>3, StringsKeepInv
  <2>4. CASE FindChars
    BY <2>4, CharsKeepInv
  <2>5. CASE FindStreams
    BY <2>5 DEF FindStreams, CommittedIsWhole, Ranges, Staging, Whole
  <2>6. CASE Commit
    BY <2>6, CommitKeepsInv
  <2>7. CASE StopOnCancel
    BY <2>7 DEF StopOnCancel, CommittedIsWhole, Ranges, Staging
  <2>8. CASE CheckProgress \/ StartApplying
    BY <2>8 DEF CheckProgress, StartApplying, CommittedIsWhole, Ranges, Staging
  <2>9. CASE Applied
    BY <2>9 DEF Applied, CommittedIsWhole, Ranges, Staging
  <2>10. ASSUME NEW c \in Caches, Query(c) PROVE ScanInv'
    BY <2>10 DEF Query, CommittedIsWhole, Ranges, Staging, Whole
  <2>11. CASE Cancel
    BY <2>11 DEF Cancel, CommittedIsWhole, Ranges, Staging, Whole
  <2>12. CASE UNCHANGED vars
    BY <2>12 DEF vars, CommittedIsWhole, Ranges, Staging, Whole
  <2> QED
    BY <2>1, <2>2, <2>3, <2>4, <2>5, <2>6, <2>7, <2>8, <2>9, <2>10, <2>11, <2>12
    DEF Next, Task
<1> QED BY <1>1, <1>2, PTL DEF Spec

(* Whatever is scanned, however often, and wherever it is cancelled, what  *)
(* is visible is what the scans that returned should have left.            *)
THEOREM VisibleIsWhole == Spec => []CommittedIsWhole
<1>1. ScanInv => CommittedIsWhole
  BY DEF ScanInv
<1> QED BY <1>1, ScanInvInductive, PTL

(* A derived view that exists was built from the records that are visible: *)
(* they change at a commit only, which forgets every view.                 *)
THEOREM ViewsAreFresh == Spec => []CachesFresh
<1>1. Init => CachesFresh
  BY DEF Init, CachesFresh
<1>2. CachesFresh /\ [Next]_vars => CachesFresh'
  <2> SUFFICES ASSUME CachesFresh, [Next]_vars
               PROVE  CachesFresh'
    OBVIOUS
  <2>1. CASE UNCHANGED <<committed, caches>>
    BY <2>1 DEF CachesFresh, Basis
  <2>2. CASE Commit
    BY <2>2 DEF Commit, CachesFresh
  <2>3. ASSUME NEW c \in Caches, Query(c) PROVE CachesFresh'
    BY <2>3 DEF Query, CachesFresh, Basis
  <2> QED
    BY <2>1, <2>2, <2>3
    DEF Next, Task, vars, StartScan, FindRecords, FindStrings, FindChars,
        FindStreams, StopOnCancel, CheckProgress, StartApplying, Applied, Cancel
<1> QED BY <1>1, <1>2, PTL DEF Spec

(* A constant that a commit makes visible lies clear of every stronger     *)
(* record that is visible with it.                                         *)
THEOREM ConstantsYield == Spec => WeakEvidenceYields
<1>1. ScanInv /\ [Next]_vars =>
        [\A c \in OfKind(committed', {"char"}) \ committed :
            \A r \in committed' \ OfKind(committed', {"char"}) :
                c.covers \cap r.covers = {}]_vars
  <2> SUFFICES ASSUME ScanInv, [Next]_vars,
                      NEW c \in OfKind(committed', {"char"}) \ committed,
                      NEW r \in committed' \ OfKind(committed', {"char"})
               PROVE  c.covers \cap r.covers = {}
    OBVIOUS
  <2>1. Commit
    BY DEF Next, Task, vars, OfKind, StartScan, FindRecords, FindStrings, FindChars,
           FindStreams, StopOnCancel, CheckProgress, StartApplying, Applied, Cancel, Query
  <2>2. committed' = Whole(committed, request)
    BY <2>1 DEF Commit, ScanInv, Staging
  <2> DEFINE strong == committed \cup OfKind(InRanges(request.ranges), Strong)
  <2>3. c \notin strong
    BY DEF OfKind, Strong
  <2>4. c.covers \cap Covered(strong) = {}
    BY <2>2, <2>3 DEF Whole, OfKind, Strong
  <2>5. r \in strong
    BY <2>2 DEF Whole, OfKind, Strong
  <2>6. r.covers \subseteq Covered(strong)
    BY <2>5 DEF Covered
  <2> QED BY <2>4, <2>6
<1> QED BY <1>1, ScanInvInductive, PTL DEF Spec, WeakEvidenceYields

(***************************************************************************)
(* The form streams.                                                       *)
(***************************************************************************)

(* The private copy is the visible one until the pass that looks, and what *)
(* the request asked for after it.                                         *)
StagedStreams ==
    /\ pc \in {"records", "strings", "chars", "dfm"} => stagedStreams = streams
    /\ pc = "commit" => stagedStreams = IF request.dfm THEN Streams ELSE streams

StreamsInv == StreamsNoneMeansNotSought /\ StagedStreams

(* A scan that looked for no form streams neither loses those an earlier   *)
(* one found nor passes for one that found none.                           *)
THEOREM StreamsRemembered == Spec => []StreamsNoneMeansNotSought
<1>1. Init => StreamsInv
  BY DEF Init, StreamsInv, StagedStreams, StreamsNoneMeansNotSought
<1>2. StreamsInv /\ [Next]_vars => StreamsInv'
  <2> SUFFICES ASSUME StreamsInv, [Next]_vars
               PROVE  StreamsInv'
    OBVIOUS
  <2> USE DEF StreamsInv, StagedStreams, StreamsNoneMeansNotSought
  <2>1. ASSUME NEW q \in Requests, StartScan(q) PROVE StreamsInv'
    BY <2>1 DEF StartScan
  <2>2. CASE FindRecords \/ FindStrings \/ FindChars
    BY <2>2 DEF FindRecords, FindStrings, FindChars
  <2>3. CASE FindStreams
    BY <2>3 DEF FindStreams
  <2>4. CASE Commit
    <3>1. stagedStreams = (IF request.dfm THEN Streams ELSE streams)
          /\ streams' = stagedStreams /\ dfmDone' = (dfmDone \/ request.dfm)
          /\ pc' = "scanned"
      BY <2>4 DEF Commit
    <3> QED BY <3>1
  <2>5. CASE StopOnCancel
    BY <2>5 DEF StopOnCancel
  <2>6. CASE CheckProgress \/ StartApplying \/ Applied
    BY <2>6 DEF CheckProgress, StartApplying, Applied
  <2>7. ASSUME NEW c \in Caches, Query(c) PROVE StreamsInv'
    BY <2>7 DEF Query
  <2>8. CASE Cancel \/ UNCHANGED vars
    BY <2>8 DEF Cancel, vars
  <2> QED BY <2>1, <2>2, <2>3, <2>4, <2>5, <2>6, <2>7, <2>8 DEF Next, Task
<1>3. StreamsInv => StreamsNoneMeansNotSought
  BY DEF StreamsInv
<1> QED BY <1>1, <1>2, <1>3, PTL DEF Spec
=============================================================================
