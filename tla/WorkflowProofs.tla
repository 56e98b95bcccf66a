---------------------------- MODULE WorkflowProofs ----------------------------
(***************************************************************************)
(* Proofs about Workflow for any program, any caps and any number of edits *)
(* and functions: the analysis is well typed, it never removes a function  *)
(* that was the analyst's when the activity began, it keeps every name the *)
(* analyst had given when it last looked, an edit spoils one callback at   *)
(* most, and the core takes back nothing it made; a callback pass that was *)
(* aborted leaves nothing and none exceeds its caps, a recovery that       *)
(* raised half way is not used, and what the metadata tables held is gone  *)
(* when the late pass begins.                                              *)
(* First, that the two indexes of the metadata ranges answer as a look at  *)
(* every range would.                                                      *)
(***************************************************************************)
EXTENDS Workflow, ListsProofs, SequenceTheorems

(***************************************************************************)
(* The indexes of ranges answer as a look at every range would.            *)
(***************************************************************************)

LEMMA SpanTypes ==
    ASSUME NEW ranges \in Seq(AddressRange), NEW i \in 1 .. Len(ranges)
    PROVE  ranges[i] \in AddressRange /\ ranges[i].start \in Nat /\ ranges[i].end \in Nat
<1>1. ranges[i] \in AddressRange
  OBVIOUS
<1> QED BY <1>1 DEF AddressRange

(* In a sorted list those that start before an address are the first few.  *)
LEMMA FirstFew ==
    ASSUME NEW ranges \in Seq(AddressRange), Sorted(ranges), NEW addr \in Nat
    PROVE  \E k \in 0 .. Len(ranges) :
               /\ k = StartingBefore(ranges, addr)
               /\ \A i \in 1 .. k : ranges[i].start < addr
               /\ \A i \in k + 1 .. Len(ranges) : addr <= ranges[i].start
<1> DEFINE n == Len(ranges)
           late == {i \in 1 .. n : addr <= ranges[i].start}
           Cut(k) == /\ \A i \in 1 .. k : ranges[i].start < addr
                     /\ \A i \in k + 1 .. n : addr <= ranges[i].start
<1>1. n \in Nat
  OBVIOUS
<1>2. \A i \in 1 .. n : ranges[i].start \in Nat
  BY SpanTypes
<1>3. \E k \in 0 .. n : Cut(k)
  <2>1. CASE late = {}
    <3>1. \A i \in 1 .. n : ranges[i].start < addr
      BY <1>2, <2>1
    <3>2. n \in 0 .. n /\ \A i : i \notin n + 1 .. n
      BY <1>1
    <3> QED BY <3>1, <3>2
  <2>2. CASE late # {}
    <3>1. PICK m \in late : \A i \in late : m <= i
      <4>1. late \subseteq Nat
        OBVIOUS
      <4> HIDE DEF late
      <4> QED BY <2>2, <4>1, LeastNatural
    <3>2. m \in 1 .. n /\ m - 1 \in 0 .. n /\ (m - 1) + 1 = m
      BY <1>1
    <3>3. ASSUME NEW i \in 1 .. m - 1 PROVE ranges[i].start < addr
      <4>1. i \in 1 .. n /\ i \notin late
        BY <1>1, <3>1, <3>2
      <4> QED BY <1>2, <4>1
    <3>4. ASSUME NEW i \in m .. n PROVE addr <= ranges[i].start
      <4>1. i \in 1 .. n /\ (m < i => ranges[m].start <= ranges[i].start)
        BY <3>2 DEF Sorted
      <4> QED BY <1>2, <3>1, <3>2, <4>1
    <3> QED BY <3>2, <3>3, <3>4
  <2> QED BY <2>1, <2>2
<1>4. StartingBefore(ranges, addr) = CHOOSE k \in 0 .. n : Cut(k)
  BY DEF StartingBefore
<1> DEFINE k == StartingBefore(ranges, addr)
<1>5. k \in 0 .. n /\ Cut(k)
  <2> HIDE DEF Cut
  <2> QED BY <1>3, <1>4
<1> QED BY <1>5

(* The running maximum: after the first range, and after each of the rest. *)
ReachNext(ranges, g, k) == IF k = 0 THEN 0 ELSE Greater(g[k - 1], ranges[k].end)

LEMMA ReachExists ==
    ASSUME NEW ranges, Len(ranges) \in Nat
    PROVE  \E f : f = [k \in 0 .. Len(ranges) |-> ReachNext(ranges, f, k)]
<1> DEFINE Bad == {m \in 0 .. Len(ranges) :
                      ~\E f : f = [k \in 0 .. m |-> ReachNext(ranges, f, k)]}
<1>1. SUFFICES ASSUME Bad # {} PROVE FALSE
  OBVIOUS
<1>2. PICK m \in Bad : \A k \in Bad : m <= k
  <2>1. Bad \subseteq Nat
    OBVIOUS
  <2> HIDE DEF Bad
  <2> QED BY <1>1, <2>1, LeastNatural
<1>3. m # 0
  <2> SUFFICES ASSUME m = 0 PROVE FALSE
    OBVIOUS
  <2> DEFINE f == [k \in 0 .. 0 |-> 0]
  <2>1. f = [k \in 0 .. m |-> ReachNext(ranges, f, k)]
    BY DEF ReachNext
  <2> QED BY <2>1
<1>4. PICK g : g = [k \in 0 .. m - 1 |-> ReachNext(ranges, g, k)]
  <2>1. m - 1 \in 0 .. Len(ranges) /\ m - 1 \notin Bad
    BY <1>2, <1>3
  <2> QED BY <2>1
<1> DEFINE h == [k \in 0 .. m |-> ReachNext(ranges, g, k)]
<1>5. \A k \in 0 .. m : ReachNext(ranges, h, k) = ReachNext(ranges, g, k)
  <2> TAKE k \in 0 .. m
  <2>1. CASE k = 0
    BY <2>1 DEF ReachNext
  <2>2. CASE k # 0
    <3>1. k - 1 \in 0 .. m - 1 /\ k - 1 \in 0 .. m
      BY <2>2
    <3>2. h[k - 1] = g[k - 1]
      BY <1>4, <3>1
    <3> HIDE DEF h
    <3> QED BY <2>2, <3>2 DEF ReachNext
  <2> QED BY <2>1, <2>2
<1>6. h = [k \in 0 .. m |-> ReachNext(ranges, h, k)]
  BY <1>5
<1> QED BY <1>6

(* It is the end of one of the ranges so far, and of none before another.  *)
LEMMA ReachIsFurthest ==
    ASSUME NEW ranges \in Seq(AddressRange), NEW k \in 1 .. Len(ranges)
    PROVE  /\ \E i \in 1 .. k : Reach(ranges)[k] = ranges[i].end
           /\ \A i \in 1 .. k : ranges[i].end <= Reach(ranges)[k]
<1> DEFINE n == Len(ranges)
           F == CHOOSE f : f = [j \in 0 .. n |-> ReachNext(ranges, f, j)]
<1>1. n \in Nat /\ \A j \in 1 .. n : ranges[j].end \in Nat
  BY SpanTypes
<1>2. Reach(ranges) = F
  BY Zenon DEF Reach, ReachNext
<1>3. F = [j \in 0 .. n |-> ReachNext(ranges, F, j)]
  BY <1>1, ReachExists
<1>4. F[0] = 0 /\ \A j \in 1 .. n : F[j] = Greater(F[j - 1], ranges[j].end)
  <2>1. \A j \in 0 .. n : F[j] = ReachNext(ranges, F, j)
    BY <1>3
  <2>2. 0 \in 0 .. n /\ \A j \in 1 .. n : j \in 0 .. n /\ j # 0
    BY <1>1
  <2> HIDE DEF F
  <2> QED BY <2>1, <2>2 DEF ReachNext
<1> HIDE DEF F
<1> DEFINE Good(j) == /\ \E i \in 1 .. j : F[j] = ranges[i].end
                      /\ \A i \in 1 .. j : ranges[i].end <= F[j]
           G == {j \in 1 .. n : Good(j)}
<1>5. 1 \in G
  <2>1. 1 \in 1 .. n /\ 1 - 1 = 0
    BY <1>1
  <2>2. F[1] = ranges[1].end
    BY <1>1, <1>4, <2>1 DEF Greater
  <2>3. \A i \in 1 .. 1 : i = 1
    OBVIOUS
  <2> QED BY <1>1, <2>1, <2>2, <2>3
<1>6. ASSUME NEW j \in 1 .. n, j + 1 \in 1 .. n, j \in G PROVE j + 1 \in G
  <2>1. PICK e \in Nat, d \in Nat : e = F[j] /\ d = ranges[j + 1].end
    BY <1>1, <1>6
  <2>2. F[j + 1] = IF e < d THEN d ELSE e
    <3>1. (j + 1) - 1 = j
      OBVIOUS
    <3> QED BY <1>4, <1>6, <2>1, <3>1 DEF Greater
  <2>3. \A i \in 1 .. j + 1 : i \in 1 .. j \/ i = j + 1
    OBVIOUS
  <2>4. \A i \in 1 .. j : i \in 1 .. j + 1 /\ i \in 1 .. n
    OBVIOUS
  <2>5. j + 1 \in 1 .. j + 1
    OBVIOUS
  <2>6. \E i \in 1 .. j + 1 : F[j + 1] = ranges[i].end
    BY <1>6, <2>1, <2>2, <2>4, <2>5
  <2>7. ASSUME NEW i \in 1 .. j + 1 PROVE ranges[i].end <= F[j + 1]
    <3>1. CASE i = j + 1
      BY <2>1, <2>2, <3>1
    <3>2. CASE i \in 1 .. j
      <4>1. ranges[i].end <= e /\ ranges[i].end \in Nat
        BY <1>1, <1>6, <2>1, <2>4, <3>2
      <4> QED BY <2>2, <4>1
    <3> QED BY <2>3, <3>1, <3>2
  <2> QED BY <1>6, <2>6, <2>7
<1>7. k \in G
  <2>1. \A j \in 1 .. n : j + 1 \in 1 .. n /\ j \in G => j + 1 \in G
    BY <1>6
  <2>2. 1 \in Nat /\ 1 <= n
    BY <1>1
  <2> HIDE DEF G
  <2>3. \A j \in 1 .. n : j \in G
    BY <1>1, <1>5, <2>1, <2>2, IntervalInduction
  <2> QED BY <2>3
<1> QED BY <1>2, <1>7

(* A query of the index answers as a look at every range does, empty       *)
(* queries and empty ranges included (_overlaps).                          *)
THEOREM OverlapsIsExact ==
    ASSUME NEW ranges \in Seq(AddressRange), Sorted(ranges), NEW lo \in Nat, NEW hi \in Nat
    PROVE  Overlaps(ranges, lo, hi) <=>
             \E i \in 1 .. Len(ranges) : lo < ranges[i].end /\ hi > ranges[i].start
<1>1. PICK k \in 0 .. Len(ranges) :
          /\ k = StartingBefore(ranges, hi)
          /\ \A i \in 1 .. k : ranges[i].start < hi
          /\ \A i \in k + 1 .. Len(ranges) : hi <= ranges[i].start
  BY FirstFew
<1>2. k \in 0 .. Len(ranges) /\ Len(ranges) \in Nat
  OBVIOUS
<1>3. Overlaps(ranges, lo, hi) <=> k > 0 /\ Reach(ranges)[k] > lo
  BY <1>1 DEF Overlaps
<1>4. \A i \in 1 .. Len(ranges) : ranges[i].start \in Nat /\ ranges[i].end \in Nat
  BY SpanTypes
<1>5. CASE k = 0
  <2>1. \A i \in 1 .. Len(ranges) : hi <= ranges[i].start
    BY <1>1, <1>5
  <2> QED BY <1>3, <1>4, <1>5, <2>1
<1>6. CASE k # 0
  <2>1. k \in 1 .. Len(ranges)
    BY <1>2, <1>6
  <2>2. PICK far : far = Reach(ranges)[k]
    OBVIOUS
  <2>3. PICK i \in 1 .. k : far = ranges[i].end
    BY <2>1, <2>2, ReachIsFurthest
  <2>4. \A j \in 1 .. k : ranges[j].end <= far
    BY <2>1, <2>2, ReachIsFurthest
  <2>5. \A j \in 1 .. Len(ranges) : j \in 1 .. k \/ j \in k + 1 .. Len(ranges)
    BY <1>2
  <2>6. i \in 1 .. Len(ranges)
    BY <1>2
  <2>7. ASSUME far > lo
        PROVE  lo < ranges[i].end /\ hi > ranges[i].start
    BY <1>1, <1>4, <2>3, <2>6, <2>7
  <2>8. ASSUME NEW j \in 1 .. Len(ranges), lo < ranges[j].end, hi > ranges[j].start
        PROVE  far > lo
    <3>1. j \in 1 .. k
      BY <1>1, <1>4, <2>5, <2>8
    <3>2. ranges[j].end <= far /\ far \in Nat
      BY <1>4, <2>3, <2>4, <2>6, <3>1
    <3> QED BY <1>4, <2>8, <3>2
  <2> QED BY <1>3, <1>6, <2>1, <2>2, <2>6, <2>7, <2>8
<1> QED BY <1>5, <1>6

(* Merging: what is merged so far is apart, ascending and begins no later  *)
(* than what comes; it holds an address just if one of the ranges does.    *)
Holds(ranges, n, addr) ==
    \E i \in 1 .. n : ranges[i].start <= addr /\ addr < ranges[i].end

Apart(merged) ==
    /\ \A i \in 1 .. Len(merged) : merged[i].start < merged[i].end
    /\ \A i, j \in 1 .. Len(merged) : i < j => merged[i].end < merged[j].start

MergedSoFar(ranges, n, merged) ==
    /\ merged \in Seq(AddressRange)
    /\ Apart(merged)
    /\ \A i \in 1 .. Len(merged), k \in n + 1 .. Len(ranges) :
           merged[i].start <= ranges[k].start
    /\ \A addr \in Nat : Holds(merged, Len(merged), addr) <=> Holds(ranges, n, addr)

LEMMA NothingMerged ==
    ASSUME NEW ranges \in Seq(AddressRange)
    PROVE  MergedSoFar(ranges, 0, <<>>)
<1>1. <<>> \in Seq(AddressRange) /\ Len(<<>>) = 0
  OBVIOUS
<1>2. \A i : i \notin 1 .. 0
  OBVIOUS
<1> QED BY <1>1, <1>2 DEF MergedSoFar, Apart, Holds

LEMMA MergingOne ==
    ASSUME NEW ranges \in Seq(AddressRange), Sorted(ranges),
           NEW n \in Nat, n + 1 \in 1 .. Len(ranges),
           NEW merged, MergedSoFar(ranges, n, merged)
    PROVE  MergedSoFar(ranges, n + 1, MergedWith(merged, ranges[n + 1]))
<1> DEFINE m == Len(merged)
<1>1. /\ merged \in Seq(AddressRange) /\ m \in Nat /\ Len(ranges) \in Nat
      /\ \A i \in 1 .. m : /\ merged[i] \in AddressRange
                           /\ merged[i].start \in Nat /\ merged[i].end \in Nat
  BY SpanTypes DEF MergedSoFar
<1>2. PICK r \in AddressRange, s \in Nat, e \in Nat :
          r = ranges[n + 1] /\ s = r.start /\ e = r.end
  BY SpanTypes
<1>3. \A i \in 1 .. m : merged[i].start <= s
  <2>1. n + 1 \in n + 1 .. Len(ranges)
    OBVIOUS
  <2> QED BY <1>2, <2>1 DEF MergedSoFar
<1>4. \A k \in (n + 1) + 1 .. Len(ranges) :
          s <= ranges[k].start /\ ranges[k].start \in Nat /\ k \in n + 1 .. Len(ranges)
  <2> TAKE k \in (n + 1) + 1 .. Len(ranges)
  <2>1. k \in 1 .. Len(ranges) /\ n + 1 < k /\ k \in n + 1 .. Len(ranges)
    OBVIOUS
  <2> QED BY <1>2, <2>1, SpanTypes DEF Sorted
<1>5. \A addr \in Nat : Holds(ranges, n + 1, addr) <=>
                          Holds(ranges, n, addr) \/ (s <= addr /\ addr < e)
  <2> TAKE addr \in Nat
  <2>1. \A i : i \in 1 .. n + 1 <=> i \in 1 .. n \/ i = n + 1
    OBVIOUS
  <2> QED BY <1>2, <2>1 DEF Holds
<1>6. CASE e <= s
  <2>1. MergedWith(merged, r) = merged
    BY <1>2, <1>6 DEF MergedWith
  <2>2. \A addr \in Nat : Holds(ranges, n + 1, addr) <=> Holds(ranges, n, addr)
    BY <1>5, <1>6
  <2> QED BY <1>2, <1>4, <2>1, <2>2 DEF MergedSoFar
<1>7. CASE ~(e <= s) /\ merged # <<>> /\ s <= merged[m].end
  <2>1. m \in 1 .. m
    BY <1>1, <1>7
  <2>2. PICK old \in Nat, new \in Nat : /\ old = merged[m].end
                                        /\ new = IF old < e THEN e ELSE old
    BY <1>1, <2>1
  <2>3. PICK longer : longer = [merged EXCEPT ![m].end = new]
    OBVIOUS
  <2>4. MergedWith(merged, r) = longer
    BY <1>2, <1>7, <2>2, <2>3 DEF MergedWith, Greater
  <2>5. /\ longer \in Seq(AddressRange) /\ Len(longer) = m
        /\ \A i \in 1 .. m : longer[i] = IF i = m THEN [merged[m] EXCEPT !.end = new]
                                         ELSE merged[i]
    <3>1. [merged[m] EXCEPT !.end = new] \in AddressRange
      BY <1>1, <2>1, <2>2 DEF AddressRange
    <3> QED BY <1>1, <2>1, <2>3, <3>1
  <2>6. \A i \in 1 .. m : /\ longer[i].start = merged[i].start
                          /\ longer[i].end = IF i = m THEN new ELSE merged[i].end
    BY <1>1, <2>5 DEF AddressRange
  <2>7. Apart(longer)
    <3>1. \A i \in 1 .. m : merged[i].start < merged[i].end
      BY DEF MergedSoFar, Apart
    <3>2. \A i, j \in 1 .. m : i < j => merged[i].end < merged[j].start /\ i # m
      BY <1>1 DEF MergedSoFar, Apart
    <3>3. \A i \in 1 .. m : longer[i].start < longer[i].end
      BY <1>1, <2>1, <2>2, <2>6, <3>1
    <3>4. \A i, j \in 1 .. m : i < j => longer[i].end < longer[j].start
      BY <2>6, <3>2
    <3> QED BY <2>5, <3>3, <3>4 DEF Apart
  <2>8. ASSUME NEW addr \in Nat
        PROVE  Holds(longer, m, addr) <=> Holds(merged, m, addr) \/ (s <= addr /\ addr < e)
    <3>1. merged[m].start <= s /\ s <= old
      BY <1>3, <1>7, <2>1, <2>2
    <3>2. merged[m].start <= addr /\ addr < new <=>
            (merged[m].start <= addr /\ addr < old) \/ (s <= addr /\ addr < e)
      <4>1. PICK b \in Nat : b = merged[m].start
        BY <1>1, <2>1
      <4>2. /\ b <= s /\ s <= old
            /\ (new = e /\ old < e) \/ (new = old /\ e <= old)
        BY <2>2, <3>1, <4>1
      <4>3. b <= addr /\ addr < new <=> (b <= addr /\ addr < old) \/ (s <= addr /\ addr < e)
        BY <4>2
      <4> QED BY <4>1, <4>3
    <3>3. Holds(longer, m, addr) <=>
            \/ merged[m].start <= addr /\ addr < new
            \/ \E i \in 1 .. m : i # m /\ merged[i].start <= addr /\ addr < merged[i].end
      BY <2>1, <2>6 DEF Holds
    <3>4. Holds(merged, m, addr) <=>
            \/ merged[m].start <= addr /\ addr < old
            \/ \E i \in 1 .. m : i # m /\ merged[i].start <= addr /\ addr < merged[i].end
      BY <2>1, <2>2 DEF Holds
    <3> QED BY <3>2, <3>3, <3>4
  <2>9. \A addr \in Nat : Holds(longer, Len(longer), addr) <=> Holds(ranges, n + 1, addr)
    BY <1>5, <2>5, <2>8 DEF MergedSoFar
  <2>10. \A i \in 1 .. Len(longer), k \in (n + 1) + 1 .. Len(ranges) :
             longer[i].start <= ranges[k].start
    BY <1>4, <2>5, <2>6 DEF MergedSoFar
  <2> QED BY <1>2, <2>4, <2>5, <2>7, <2>9, <2>10 DEF MergedSoFar
<1>8. CASE ~(e <= s) /\ ~(merged # <<>> /\ s <= merged[m].end)
  <2>1. PICK more : more = Append(merged, r)
    OBVIOUS
  <2>2. MergedWith(merged, r) = more
    BY <1>2, <1>8, <2>1 DEF MergedWith
  <2>3. /\ more \in Seq(AddressRange) /\ Len(more) = m + 1
        /\ more[m + 1] = r /\ \A i \in 1 .. m : more[i] = merged[i]
    BY <1>1, <2>1
  <2>4. \A i : i \in 1 .. m + 1 <=> i \in 1 .. m \/ i = m + 1
    BY <1>1
  <2>5. \A i \in 1 .. m : merged[i].end < s
    <3>1. \A i \in 1 .. m : m \in 1 .. m /\ (i < m \/ i = m) /\ merged # <<>>
      BY <1>1
    <3>2. \A i, j \in 1 .. m : i < j => merged[i].end < merged[j].start
      BY DEF MergedSoFar, Apart
    <3>3. \A i \in 1 .. m : merged[m].end < s /\ merged[m].start < merged[m].end
      BY <1>1, <1>8, <3>1 DEF MergedSoFar, Apart
    <3> QED BY <1>1, <3>1, <3>2, <3>3
  <2>6. Apart(more)
    <3>1. \A i \in 1 .. m + 1 : more[i].start < more[i].end
      <4>1. \A i \in 1 .. m : more[i].start < more[i].end
        BY <2>3 DEF MergedSoFar, Apart
      <4>2. more[m + 1].start < more[m + 1].end
        BY <1>2, <1>8, <2>3
      <4> QED BY <2>4, <4>1, <4>2
    <3>2. ASSUME NEW i \in 1 .. m + 1, NEW j \in 1 .. m + 1, i < j
          PROVE  more[i].end < more[j].start
      <4>1. i \in 1 .. m
        BY <1>1, <3>2
      <4>2. CASE j = m + 1
        BY <1>2, <2>3, <2>5, <4>1, <4>2
      <4>3. CASE j \in 1 .. m
        BY <2>3, <3>2, <4>1, <4>3 DEF MergedSoFar, Apart
      <4> QED BY <2>4, <4>2, <4>3
    <3> QED BY <2>3, <3>1, <3>2 DEF Apart
  <2>7. ASSUME NEW addr \in Nat
        PROVE  Holds(more, m + 1, addr) <=> Holds(merged, m, addr) \/ (s <= addr /\ addr < e)
    BY <1>2, <2>3, <2>4 DEF Holds
  <2>8. \A addr \in Nat : Holds(more, Len(more), addr) <=> Holds(ranges, n + 1, addr)
    BY <1>5, <2>3, <2>7 DEF MergedSoFar
  <2>9. \A i \in 1 .. Len(more), k \in (n + 1) + 1 .. Len(ranges) :
            more[i].start <= ranges[k].start
    BY <1>2, <1>4, <2>3, <2>4 DEF MergedSoFar
  <2> QED BY <1>2, <2>2, <2>3, <2>6, <2>8, <2>9 DEF MergedSoFar
<1> QED BY <1>6, <1>7, <1>8

(* The merging of the first so many, for each number.                      *)
MergeNext(ranges, g, k) == IF k = 0 THEN <<>> ELSE MergedWith(g[k - 1], ranges[k])

LEMMA MergeExists ==
    ASSUME NEW ranges, Len(ranges) \in Nat
    PROVE  \E f : f = [k \in 0 .. Len(ranges) |-> MergeNext(ranges, f, k)]
<1> DEFINE Bad == {m \in 0 .. Len(ranges) :
                      ~\E f : f = [k \in 0 .. m |-> MergeNext(ranges, f, k)]}
<1>1. SUFFICES ASSUME Bad # {} PROVE FALSE
  OBVIOUS
<1>2. PICK m \in Bad : \A k \in Bad : m <= k
  <2>1. Bad \subseteq Nat
    OBVIOUS
  <2> HIDE DEF Bad
  <2> QED BY <1>1, <2>1, LeastNatural
<1>3. m # 0
  <2> SUFFICES ASSUME m = 0 PROVE FALSE
    OBVIOUS
  <2> DEFINE f == [k \in 0 .. 0 |-> <<>>]
  <2>1. f = [k \in 0 .. m |-> MergeNext(ranges, f, k)]
    BY DEF MergeNext
  <2> QED BY <2>1
<1>4. PICK g : g = [k \in 0 .. m - 1 |-> MergeNext(ranges, g, k)]
  <2>1. m - 1 \in 0 .. Len(ranges) /\ m - 1 \notin Bad
    BY <1>2, <1>3
  <2> QED BY <2>1
<1> DEFINE h == [k \in 0 .. m |-> MergeNext(ranges, g, k)]
<1>5. \A k \in 0 .. m : MergeNext(ranges, h, k) = MergeNext(ranges, g, k)
  <2> TAKE k \in 0 .. m
  <2>1. CASE k = 0
    BY <2>1 DEF MergeNext
  <2>2. CASE k # 0
    <3>1. k - 1 \in 0 .. m - 1 /\ k - 1 \in 0 .. m
      BY <2>2
    <3>2. h[k - 1] = g[k - 1]
      BY <1>4, <3>1
    <3> HIDE DEF h
    <3> QED BY <2>2, <3>2 DEF MergeNext
  <2> QED BY <2>1, <2>2
<1>6. h = [k \in 0 .. m |-> MergeNext(ranges, h, k)]
  BY <1>5
<1> QED BY <1>6

LEMMA MergedFacts ==
    ASSUME NEW ranges \in Seq(AddressRange), Sorted(ranges)
    PROVE  MergedSoFar(ranges, Len(ranges), Merged(ranges))
<1> DEFINE n == Len(ranges)
           F == CHOOSE f : f = [k \in 0 .. n |-> MergeNext(ranges, f, k)]
<1>1. n \in Nat
  OBVIOUS
<1>2. Merged(ranges) = F[n]
  BY Zenon DEF Merged, MergeNext
<1>3. F = [k \in 0 .. n |-> MergeNext(ranges, F, k)]
  BY <1>1, MergeExists
<1>4. F[0] = <<>> /\ \A k \in 1 .. n : F[k] = MergedWith(F[k - 1], ranges[k])
  <2>1. \A k \in 0 .. n : F[k] = MergeNext(ranges, F, k)
    BY <1>3
  <2>2. 0 \in 0 .. n /\ \A k \in 1 .. n : k \in 0 .. n /\ k # 0
    BY <1>1
  <2> HIDE DEF F
  <2> QED BY <2>1, <2>2 DEF MergeNext
<1> HIDE DEF F
<1> DEFINE G == {k \in 0 .. n : MergedSoFar(ranges, k, F[k])}
<1>5. 0 \in G
  BY <1>1, <1>4, NothingMerged
<1>6. ASSUME NEW k \in 0 .. n, k + 1 \in 0 .. n, k \in G PROVE k + 1 \in G
  <2>1. k + 1 \in 1 .. n /\ (k + 1) - 1 = k /\ k \in Nat
    BY <1>1, <1>6
  <2>2. PICK merged : merged = F[k]
    OBVIOUS
  <2>3. MergedSoFar(ranges, k + 1, MergedWith(merged, ranges[k + 1]))
    BY <1>6, <2>1, <2>2, MergingOne
  <2>4. F[k + 1] = MergedWith(merged, ranges[k + 1])
    BY <1>4, <2>1, <2>2
  <2> QED BY <1>6, <2>3, <2>4
<1>7. n \in G
  <2>1. \A k \in 0 .. n : k + 1 \in 0 .. n /\ k \in G => k + 1 \in G
    BY <1>6
  <2>2. 0 \in Nat /\ 0 <= n
    BY <1>1
  <2> HIDE DEF G
  <2>3. \A k \in 0 .. n : k \in G
    BY <1>1, <1>5, <2>1, <2>2, IntervalInduction
  <2> QED BY <1>1, <2>3
<1> QED BY <1>2, <1>7

(* An address is in the merged ranges just if it is in one of those that   *)
(* were merged (_merged_spans, _in_spans).                                 *)
THEOREM InSpansIsExact ==
    ASSUME NEW ranges \in Seq(AddressRange), Sorted(ranges), NEW addr \in Nat
    PROVE  InSpans(addr, Merged(ranges)) <=>
             \E i \in 1 .. Len(ranges) : ranges[i].start <= addr /\ addr < ranges[i].end
<1>1. PICK merged \in Seq(AddressRange) :
          merged = Merged(ranges) /\ MergedSoFar(ranges, Len(ranges), merged)
  BY MergedFacts DEF MergedSoFar
<1>2. /\ \A i \in 1 .. Len(merged) : merged[i].start < merged[i].end
      /\ \A i, j \in 1 .. Len(merged) : i < j => merged[i].end < merged[j].start
  BY <1>1 DEF MergedSoFar, Apart
<1>3. Len(merged) \in Nat /\ \A i \in 1 .. Len(merged) : merged[i].start \in Nat /\ merged[i].end \in Nat
  BY SpanTypes
<1>4. Sorted(merged)
  <2> SUFFICES ASSUME NEW i \in 1 .. Len(merged), NEW j \in 1 .. Len(merged), i < j
               PROVE  merged[i].start <= merged[j].start
    BY DEF Sorted
  <2> QED BY <1>2, <1>3
<1>5. PICK k \in 0 .. Len(merged) :
          /\ k = StartingBy(merged, addr)
          /\ \A i \in 1 .. k : merged[i].start < addr + 1
          /\ \A i \in k + 1 .. Len(merged) : addr + 1 <= merged[i].start
  <2>1. addr + 1 \in Nat
    OBVIOUS
  <2> QED BY <1>4, <2>1, FirstFew DEF StartingBy
<1>6. InSpans(addr, merged) <=> k > 0 /\ addr < merged[k].end
  BY <1>5 DEF InSpans
<1>7. InSpans(addr, merged) <=> Holds(merged, Len(merged), addr)
  <2>1. ASSUME k > 0, addr < merged[k].end PROVE Holds(merged, Len(merged), addr)
    <3>1. k \in 1 .. k /\ k \in 1 .. Len(merged)
      BY <2>1
    <3>2. merged[k].start <= addr
      BY <1>3, <1>5, <3>1
    <3> QED BY <2>1, <3>1, <3>2 DEF Holds
  <2>2. ASSUME NEW i \in 1 .. Len(merged), merged[i].start <= addr, addr < merged[i].end
        PROVE  k > 0 /\ addr < merged[k].end
    <3>1. i \in 1 .. k
      <4>1. i \in 1 .. k \/ i \in k + 1 .. Len(merged)
        BY <1>3
      <4> QED BY <1>3, <1>5, <2>2, <4>1
    <3>2. k > 0 /\ k \in 1 .. k /\ k \in 1 .. Len(merged)
      BY <3>1
    <3>3. merged[k].start <= addr
      BY <1>3, <1>5, <3>2
    <3>4. ~(i < k)
      BY <1>2, <1>3, <2>2, <3>2, <3>3
    <3>5. i = k
      BY <3>1, <3>4
    <3> QED BY <2>2, <3>2, <3>5
  <2> QED BY <1>6, <2>1, <2>2 DEF Holds
<1>8. Holds(merged, Len(merged), addr) <=> Holds(ranges, Len(ranges), addr)
  BY <1>1 DEF MergedSoFar
<1> QED BY <1>1, <1>7, <1>8 DEF Holds

(* So the scan turns down what is in the metadata, and cleanup lists the   *)
(* automatic functions over it. (And a function covers its entry.)         *)
LEMMA InMetadata ==
    ASSUME NEW addr \in Nat
    PROVE  InSpans(addr, Merged(Metadata)) <=> addr \in Meta
<1>1. InSpans(addr, Merged(Metadata)) <=>
        \E i \in 1 .. Len(Metadata) : Metadata[i].start <= addr /\ addr < Metadata[i].end
  BY WorkflowAssumption, InSpansIsExact
<1>2. ASSUME NEW i \in 1 .. Len(Metadata)
      PROVE  Metadata[i].start <= addr /\ addr < Metadata[i].end
               <=> addr \in Metadata[i].start .. Metadata[i].end - 1
  <2>1. Metadata[i].start \in Nat /\ Metadata[i].end \in Nat
    BY WorkflowAssumption, SpanTypes
  <2> QED BY <2>1
<1> QED BY <1>1, <1>2 DEF Meta

LEMMA OwnEntry == \A e \in Entries : e \in Covers(e)
<1> TAKE e \in Entries
<1>1. PICK r \in Ranges[e] : r.start <= e /\ e < r.end
  BY WorkflowAssumption
<1>2. e \in Nat /\ r.start \in Nat /\ r.end \in Nat
  BY WorkflowAssumption DEF AddressRange
<1>3. e \in r.start .. r.end - 1
  BY <1>1, <1>2
<1> QED BY <1>3 DEF Covers

LEMMA ListedVictims == Victims = Overlapping \ UserFunctions
<1>1. ASSUME NEW e \in Existing, NEW r \in Ranges[e]
      PROVE  Overlaps(Metadata, r.start, r.end) <=> OverlapsMetadata(r)
  <2>1. r.start \in Nat /\ r.end \in Nat
    BY WorkflowAssumption DEF Existing, AddressRange
  <2> QED BY <2>1, WorkflowAssumption, OverlapsIsExact DEF OverlapsMetadata
<1> QED BY <1>1 DEF Victims, Overlapping

USE WorkflowAssumption

Passes == {"early", "late"}
Outcomes == {"none", "created", "aborted", "failed"}

(* The type invariant without the three parts most steps leave alone.      *)
DiscoveryTypeOK ==
    /\ stage \in {"none", "check", "absent", "define", "scan", "add", "fresh",
                 "rollback"}
    /\ callees \subseteq Entries /\ visited \in Nat
    /\ refsLeft \subseteq Refs /\ references \in Nat
    /\ candidates \subseteq Entries \ Meta
    /\ created \in Seq(Entries)
    /\ outcome \in [Passes -> Outcomes]

ThreadTypeOK ==
    /\ pc \in {"recover", "match", "early", "sweep", "unused", "cleanup", "removing",
              "late", "done"}
    /\ md \in BOOLEAN
    /\ pending \subseteq Recovered
    /\ asserted \subseteq Entries

RestTypeOK ==
    /\ typed \subseteq Entries
    /\ aborted \in BOOLEAN
    /\ enabled \subseteq {"recover", "match", "early", "cleanup"}
    /\ items \subseteq Recovered /\ respected \subseteq Entries
    /\ spoiled \in Nat
    /\ selfTyped \subseteq Recovered
    /\ victims \subseteq Entries
    /\ edits \in Nat

FuncsTypeOK == funcs \in [Entries -> Function \cup {NoFunc}]

(* The four parts are the type invariant.                                  *)
LEMMA TypeParts ==
    TypeOK <=> FuncsTypeOK /\ ThreadTypeOK /\ DiscoveryTypeOK /\ RestTypeOK
BY DEF TypeOK, FuncsTypeOK, ThreadTypeOK, DiscoveryTypeOK, RestTypeOK, Passes, Outcomes

(* And so they are after a step.                                           *)
LEMMA TypePartsPrimed ==
    TypeOK' <=> FuncsTypeOK' /\ ThreadTypeOK' /\ DiscoveryTypeOK' /\ RestTypeOK'
BY DEF TypeOK, FuncsTypeOK, ThreadTypeOK, DiscoveryTypeOK, RestTypeOK, Passes, Outcomes

(***************************************************************************)
(* Functions.                                                              *)
(***************************************************************************)

Makers == {"core", "recovery", "early", "late", "analyst"}

(* What the core makes is a function, and no mark for none.                *)
LEMMA MadeFunctions ==
    /\ \A by \in Makers : AutoFunction(by) \in Function
    /\ CoreFunction \in Function
    /\ NoFunc \notin Function
BY DEF AutoFunction, CoreFunction, Function, Makers

(* Putting a function, or none, at one entry keeps the type.               *)
LEMMA PutType ==
    ASSUME FuncsTypeOK, NEW e \in Entries, NEW f \in Function \cup {NoFunc}
    PROVE  [funcs EXCEPT ![e] = f] \in [Entries -> Function \cup {NoFunc}]
BY DEF FuncsTypeOK

(* Naming changes nothing of a function but its name, and nothing where    *)
(* there is none.                                                          *)
LEMMA NamedFacts ==
    ASSUME FuncsTypeOK, NEW e \in Entries
    PROVE  \/ e \notin Existing /\ [funcs EXCEPT ![e] = Named(e)] = funcs
           \/ /\ e \in Existing /\ Named(e) \in Function
              /\ Named(e).auto = funcs[e].auto /\ Named(e).by = funcs[e].by
              /\ Named(e).discovered = funcs[e].discovered
<1>1. CASE funcs[e] = NoFunc
  <2>1. Named(e) = funcs[e] /\ e \notin Existing
    BY <1>1 DEF Named, Existing
  <2> QED BY <2>1 DEF FuncsTypeOK
<1>2. CASE funcs[e] # NoFunc
  <2>1. funcs[e] \in Function /\ e \in Existing
    BY <1>2 DEF FuncsTypeOK, Existing
  <2>2. Named(e) = [funcs[e] EXCEPT !.name = "delphi"]
    BY <1>2 DEF Named
  <2> QED BY <2>1, <2>2 DEF Function
<1> QED BY <1>1, <1>2

(* bv.add_function makes a function only where there is none.              *)
LEMMA AddedFacts ==
    ASSUME FuncsTypeOK, NEW e \in Entries, NEW by \in Makers
    PROVE  \/ [funcs EXCEPT ![e] = Added(e, by)] = funcs
           \/ e \notin Existing /\ Added(e, by) = AutoFunction(by)
<1>1. CASE funcs[e] = NoFunc
  BY <1>1 DEF Added, Existing
<1>2. CASE funcs[e] # NoFunc
  <2>1. Added(e, by) = funcs[e]
    BY <1>2 DEF Added
  <2> QED BY <2>1 DEF FuncsTypeOK
<1> QED BY <1>1, <1>2

(* What a step of the sink may do: it stays in the recovery, has fewer     *)
(* names to give, and changes at most the function whose turn it is.       *)
SinkAdds(e) ==
    /\ stage = "absent" /\ e \notin Existing
    /\ funcs' = [funcs EXCEPT ![e] = AutoFunction("recovery")]

SinkNames(e) ==
    /\ stage = "define" /\ e \in Existing
    /\ funcs' = [funcs EXCEPT ![e] = Named(e)]

SinkStages == {"none", "check", "absent", "define"}

LEMMA SinkSteps ==
    ASSUME TypeOK, RecoverOne
    PROVE  /\ pc = "recover" /\ stage \in SinkStages /\ stage' \in SinkStages
           /\ "recover" \in enabled \/ stage # "none"
           /\ items' \subseteq items /\ pending' \subseteq Recovered
           /\ respected' \subseteq Entries
           /\ UNCHANGED <<typed, aborted, pc, enabled, md, selfTyped, victims,
                          asserted, edits>>
           /\ UNCHANGED <<callees, visited, refsLeft, references, candidates, created,
                          spoiled, outcome>>
           /\ \/ UNCHANGED funcs
              \/ \E e \in Entries : InTurn(e, items) /\ (SinkAdds(e) \/ SinkNames(e))
<1>0. /\ FuncsTypeOK /\ pending \subseteq Recovered /\ respected \subseteq Entries
      /\ AnalystNamed \subseteq Entries
  BY TypeParts DEF ThreadTypeOK, RestTypeOK, AnalystNamed, Existing
<1>1. CASE LookUp
  BY <1>0, <1>1 DEF LookUp, SinkStages
<1>2. CASE CheckName
  BY <1>0, <1>2 DEF CheckName, SinkStages
<1>3. CASE AddFunction
  <2>1. PICK e \in Recovered :
          /\ InTurn(e, items)
          /\ items' \subseteq items /\ stage' \in {"none", "define"}
          /\ UNCHANGED funcs \/ funcs' = [funcs EXCEPT ![e] = Added(e, "recovery")]
    BY <1>3 DEF AddFunction
  <2>2. e \in Entries /\ "recovery" \in Makers
    BY DEF Makers
  <2>3. UNCHANGED funcs \/ SinkAdds(e)
    BY <1>0, <1>3, <2>1, <2>2, AddedFacts DEF SinkAdds, AddFunction
  <2> QED BY <1>0, <1>3, <2>1, <2>2, <2>3 DEF AddFunction, SinkStages
<1>4. CASE DefineName
  <2>1. PICK e \in Recovered :
          /\ InTurn(e, items)
          /\ items' \subseteq items /\ pending' = pending \cup {e}
          /\ funcs' = [funcs EXCEPT ![e] = Named(e)]
    BY <1>4 DEF DefineName
  <2>2. e \in Entries
    OBVIOUS
  <2>3. UNCHANGED funcs \/ SinkNames(e)
    BY <1>0, <1>4, <2>1, <2>2, NamedFacts DEF SinkNames, DefineName
  <2> QED BY <1>0, <1>4, <2>1, <2>2, <2>3 DEF DefineName, SinkStages
<1> QED BY <1>1, <1>2, <1>3, <1>4 DEF RecoverOne

(***************************************************************************)
(* Type correctness, one lemma for each group of steps.                    *)
(***************************************************************************)

(* Leaving a pass is well typed.                                           *)
LEMMA ReturnType ==
    ASSUME TypeOK, NEW pass \in Passes, NEW how \in Outcomes, Return(pass, how)
    PROVE  DiscoveryTypeOK' /\ ThreadTypeOK'
<1>1. DiscoveryTypeOK /\ ThreadTypeOK
  BY TypeParts
<1>2. DiscoveryTypeOK'
  BY <1>1 DEF DiscoveryTypeOK, Return
<1>3. ThreadTypeOK'
  BY <1>1 DEF ThreadTypeOK, Return, BeginActivity, UserFunctions, Existing
<1> QED BY <1>2, <1>3

(* The recovery, the matcher and the activities that are skipped.          *)
LEMMA RecoverySteps ==
    ASSUME TypeOK,
           \/ Skip("recover", "match") \/ Skip("match", "early")
           \/ Skip("early", "sweep") \/ Skip("cleanup", "done")
           \/ RecoverOne \/ Publish \/ RecoverGivesUp \/ Match
    PROVE  TypeOK'
<1> SUFFICES FuncsTypeOK' /\ ThreadTypeOK' /\ DiscoveryTypeOK' /\ RestTypeOK'
  BY TypePartsPrimed
<1>0. FuncsTypeOK /\ ThreadTypeOK /\ DiscoveryTypeOK /\ RestTypeOK
  BY TypeParts
<1> USE <1>0 DEF discovery, BeginActivity, UserFunctions, Existing
<1>1. CASE \/ Skip("recover", "match") \/ Skip("match", "early")
           \/ Skip("early", "sweep") \/ Skip("cleanup", "done")
  BY <1>1 DEF Skip, FuncsTypeOK, ThreadTypeOK, DiscoveryTypeOK, RestTypeOK
<1>2. CASE RecoverOne
  <2>1. FuncsTypeOK'
    <3>1. CASE UNCHANGED funcs
      BY <3>1 DEF FuncsTypeOK
    <3>2. ASSUME NEW e \in Entries, SinkAdds(e) \/ SinkNames(e) PROVE FuncsTypeOK'
      BY <3>2, MadeFunctions, NamedFacts, PutType
         DEF SinkAdds, SinkNames, FuncsTypeOK, Makers
    <3> QED BY <1>2, <3>1, <3>2, SinkSteps
  <2>2. /\ items' \subseteq items /\ pending' \subseteq Recovered
        /\ respected' \subseteq Entries /\ stage' \in SinkStages
        /\ UNCHANGED <<typed, aborted, pc, enabled, md, selfTyped, victims, asserted,
                       edits>>
        /\ UNCHANGED <<callees, visited, refsLeft, references, candidates, created,
                       spoiled, outcome>>
    BY <1>2, SinkSteps
  <2>3. ThreadTypeOK' /\ RestTypeOK'
    BY <2>2 DEF ThreadTypeOK, RestTypeOK
  <2>4. DiscoveryTypeOK'
    BY <2>2 DEF DiscoveryTypeOK, SinkStages
  <2> QED BY <2>1, <2>3, <2>4
<1>3. CASE Publish
  BY <1>3 DEF Publish, FuncsTypeOK, ThreadTypeOK, DiscoveryTypeOK, RestTypeOK
<1>4. CASE RecoverGivesUp
  BY <1>4 DEF RecoverGivesUp, FuncsTypeOK, ThreadTypeOK, DiscoveryTypeOK, RestTypeOK
<1>5. CASE Match
  BY <1>5 DEF Match, FuncsTypeOK, ThreadTypeOK, DiscoveryTypeOK, RestTypeOK
<1> QED BY <1>1, <1>2, <1>3, <1>4, <1>5

(* Looking for callbacks.                                                  *)
LEMMA ScanSteps ==
    ASSUME TypeOK, NEW pass \in Passes,
           StartDiscovery \/ EarlyWithoutMetadata \/ ScanCallee(pass) \/ ScanRef(pass)
    PROVE  TypeOK'
<1> SUFFICES FuncsTypeOK' /\ ThreadTypeOK' /\ DiscoveryTypeOK' /\ RestTypeOK'
  BY TypePartsPrimed
<1>0. FuncsTypeOK /\ ThreadTypeOK /\ DiscoveryTypeOK /\ RestTypeOK
  BY TypeParts
<1>1. CASE StartDiscovery
  BY <1>0, <1>1 DEF StartDiscovery, Existing, FuncsTypeOK, ThreadTypeOK,
                    DiscoveryTypeOK, RestTypeOK
<1>2. CASE EarlyWithoutMetadata
  BY <1>0, <1>2 DEF EarlyWithoutMetadata, BeginActivity, UserFunctions, Existing,
                    discovery, FuncsTypeOK, ThreadTypeOK, DiscoveryTypeOK, RestTypeOK
<1>3. CASE ScanCallee(pass)
  <2>1. FuncsTypeOK' /\ RestTypeOK'
    BY <1>0, <1>3 DEF ScanCallee, FuncsTypeOK, RestTypeOK
  <2>2. CASE Return(pass, "aborted")
    BY <2>1, <2>2, ReturnType DEF Outcomes
  <2>3. CASE ~Return(pass, "aborted")
    <3>1. UNCHANGED <<candidates, created, outcome, pc, asserted, md, pending>>
      BY <1>3, <2>3 DEF ScanCallee, ScanEnds
    <3>2. /\ stage' \in {"scan", "add"}
          /\ callees' \subseteq Entries /\ visited' \in Nat
          /\ refsLeft' \subseteq Refs /\ references' \in Nat
      <4>1. CASE ScanEnds(pass)
        BY <1>0, <2>3, <4>1 DEF ScanEnds, DiscoveryTypeOK
      <4>2. CASE ~ScanEnds(pass)
        <5>1. PICK callee \in callees :
                 \/ /\ visited' = visited + 1 /\ callees' = callees \ {callee}
                    /\ UNCHANGED <<stage, refsLeft, references>>
                 \/ \E some \in AtMost(Smaller(RefsPerFunction,
                                                ReferenceLimit - references),
                                        RefsTo(callee)) :
                      /\ visited' = visited + 1 /\ callees' = callees \ {callee}
                      /\ refsLeft' = some
                      /\ UNCHANGED <<stage, references>>
          BY <1>3, <2>3, <4>2 DEF ScanCallee
        <5>2. \A n : \A some \in AtMost(n, RefsTo(callee)) : some \subseteq Refs
          BY DEF AtMost, RefsTo
        <5>3. refsLeft' \subseteq Refs
          BY <1>0, <5>1, <5>2 DEF DiscoveryTypeOK
        <5>4. /\ visited' = visited + 1 /\ callees' = callees \ {callee}
              /\ UNCHANGED <<stage, references>>
          BY <5>1
        <5>5. stage = "scan"
          BY <1>3 DEF ScanCallee
        <5> QED BY <1>0, <5>3, <5>4, <5>5 DEF DiscoveryTypeOK
      <4> QED BY <4>1, <4>2
    <3> QED BY <1>0, <2>1, <3>1, <3>2 DEF ThreadTypeOK, DiscoveryTypeOK
  <2> QED BY <2>2, <2>3
<1>4. CASE ScanRef(pass)
  <2>1. FuncsTypeOK' /\ RestTypeOK'
    BY <1>0, <1>4 DEF ScanRef, FuncsTypeOK, RestTypeOK
  <2>2. CASE Return(pass, "aborted")
    BY <2>1, <2>2, ReturnType DEF Outcomes
  <2>3. CASE ~Return(pass, "aborted")
    <3>1. PICK r \in refsLeft :
            /\ references' = references + 1
            /\ candidates' = IF /\ Usable(r.target)
                                /\ ~InSpans(r.target, Merged(Metadata))
                             THEN candidates \cup {r.target} ELSE candidates
            /\ \/ refsLeft' = {} /\ callees' = {}
               \/ refsLeft' = refsLeft \ {r} /\ UNCHANGED callees
            /\ UNCHANGED <<stage, visited, created, outcome, pc, asserted, md, pending>>
      BY <1>4, <2>3 DEF ScanRef
    <3>2. candidates' \subseteq Entries \ Meta
      <4>1. r.target \in Nat
        BY <1>0, <3>1 DEF DiscoveryTypeOK
      <4>2. r.target \in Meta <=> InSpans(r.target, Merged(Metadata))
        BY <4>1, InMetadata
      <4> QED BY <1>0, <3>1, <4>2 DEF Usable, DiscoveryTypeOK
    <3>3. /\ references' = references + 1
          /\ \/ refsLeft' = {} /\ callees' = {}
             \/ refsLeft' = refsLeft \ {r} /\ UNCHANGED callees
          /\ UNCHANGED <<stage, visited, created, outcome, pc, asserted, md, pending>>
      BY <3>1
    <3>4. ThreadTypeOK'
      BY <1>0, <3>3 DEF ThreadTypeOK
    <3>5. references' \in Nat /\ refsLeft' \subseteq Refs /\ callees' \subseteq Entries
      <4>1. references \in Nat /\ refsLeft \subseteq Refs /\ callees \subseteq Entries
        BY <1>0 DEF DiscoveryTypeOK
      <4>2. references' \in Nat
        BY <3>3, <4>1
      <4>3. refsLeft' \subseteq Refs /\ callees' \subseteq Entries
        BY <3>3, <4>1, Zenon
      <4> QED BY <4>2, <4>3
    <3>6. DiscoveryTypeOK'
      BY <1>0, <3>2, <3>3, <3>5 DEF DiscoveryTypeOK
    <3> QED BY <2>1, <3>4, <3>6
  <2> QED BY <2>2, <2>3
<1> QED BY <1>1, <1>2, <1>3, <1>4

(* Creating the callbacks and taking them back.                            *)
LEMMA AddSteps ==
    ASSUME TypeOK, NEW pass \in Passes,
           \/ LookAgain(pass) \/ AddTarget(pass) \/ AbortSeen(pass) \/ AllAdded(pass)
           \/ RollBack(pass) \/ DiscoveryFails(pass)
    PROVE  TypeOK'
<1> SUFFICES FuncsTypeOK' /\ ThreadTypeOK' /\ DiscoveryTypeOK' /\ RestTypeOK'
  BY TypePartsPrimed
<1>0. FuncsTypeOK /\ ThreadTypeOK /\ DiscoveryTypeOK /\ RestTypeOK
  BY TypeParts
<1>1. CASE AddTarget(pass)
  <2>1. PICK t \in candidates :
          /\ candidates' = candidates \ {t}
          /\ \/ /\ funcs' = [funcs EXCEPT ![t] = Added(t, pass)]
                /\ created' = Append(created, t)
                /\ spoiled' = spoiled \/ spoiled' = spoiled + 1
             \/ UNCHANGED <<funcs, created, spoiled>>
    BY <1>1 DEF AddTarget
  <2>2. t \in Entries /\ pass \in Makers /\ AutoFunction(pass) \in Function
    BY <1>0, MadeFunctions DEF DiscoveryTypeOK, Passes, Makers
  <2>3. FuncsTypeOK'
    BY <1>0, <2>1, <2>2, AddedFacts, PutType DEF FuncsTypeOK
  <2>4. candidates' \subseteq Entries \ Meta /\ created' \in Seq(Entries)
    <3>1. created \in Seq(Entries) /\ candidates \subseteq Entries \ Meta
      BY <1>0 DEF DiscoveryTypeOK
    <3>2. Append(created, t) \in Seq(Entries)
      BY <2>2, <3>1
    <3> QED BY <2>1, <3>1, <3>2
  <2>5. DiscoveryTypeOK'
    BY <1>0, <1>1, <2>4 DEF AddTarget, DiscoveryTypeOK
  <2>6. spoiled' \in Nat
    BY <1>0, <2>1 DEF RestTypeOK
  <2>7. ThreadTypeOK' /\ RestTypeOK'
    BY <1>0, <1>1, <2>6 DEF AddTarget, ThreadTypeOK, RestTypeOK
  <2> QED BY <2>3, <2>5, <2>7
<1>6. CASE LookAgain(pass)
  <2>1. /\ candidates' \subseteq candidates /\ stage' \in {"add", "fresh"}
        /\ UNCHANGED <<callees, visited, refsLeft, references, created, outcome>>
    BY <1>6 DEF LookAgain
  <2>2. DiscoveryTypeOK'
    BY <1>0, <2>1 DEF DiscoveryTypeOK
  <2> QED BY <1>0, <1>6, <2>2 DEF LookAgain, FuncsTypeOK, ThreadTypeOK, RestTypeOK
<1>2. CASE AbortSeen(pass)
  BY <1>0, <1>2 DEF AbortSeen, FuncsTypeOK, ThreadTypeOK, DiscoveryTypeOK, RestTypeOK
<1>3. CASE AllAdded(pass)
  <2>1. FuncsTypeOK' /\ RestTypeOK'
    BY <1>0, <1>3 DEF AllAdded, FuncsTypeOK, RestTypeOK
  <2> QED BY <1>3, <2>1, ReturnType DEF AllAdded, Outcomes
<1>4. CASE RollBack(pass)
  <2>1. RestTypeOK'
    BY <1>0, <1>4 DEF RollBack, RestTypeOK
  <2>2. CASE created = <<>>
    <3>1. Return(pass, "aborted") /\ UNCHANGED funcs
      BY <1>4, <2>2 DEF RollBack
    <3> QED BY <1>0, <2>1, <3>1, ReturnType DEF Outcomes, FuncsTypeOK
  <2>3. CASE created # <<>>
    <3>1. /\ funcs' = [funcs EXCEPT ![created[Len(created)]] = NoFunc]
          /\ created' = SubSeq(created, 1, Len(created) - 1)
          /\ UNCHANGED <<stage, callees, visited, refsLeft, references, candidates,
                         outcome, pc, asserted, md, pending>>
      BY <1>4, <2>3 DEF RollBack
    <3>2. created[Len(created)] \in Entries /\ created' \in Seq(Entries)
      BY <1>0, <2>3, <3>1 DEF DiscoveryTypeOK
    <3>3. FuncsTypeOK'
      BY <1>0, <3>1, <3>2, PutType DEF FuncsTypeOK
    <3> QED BY <1>0, <2>1, <3>1, <3>2, <3>3 DEF ThreadTypeOK, DiscoveryTypeOK
  <2> QED BY <2>2, <2>3
<1>5. CASE DiscoveryFails(pass)
  <2>1. FuncsTypeOK' /\ RestTypeOK'
    BY <1>0, <1>5 DEF DiscoveryFails, FuncsTypeOK, RestTypeOK
  <2> QED BY <1>5, <2>1, ReturnType DEF DiscoveryFails, Outcomes
<1> QED BY <1>1, <1>2, <1>3, <1>4, <1>5, <1>6

(* The core between the activities, and the cleanup.                       *)
LEMMA CoreAndCleanupSteps ==
    ASSUME TypeOK, Sweep \/ SweepEnds \/ DeleteUnused \/ Cleanup \/ CleanupFails
    PROVE  TypeOK'
<1> SUFFICES FuncsTypeOK' /\ ThreadTypeOK' /\ DiscoveryTypeOK' /\ RestTypeOK'
  BY TypePartsPrimed
<1>0. FuncsTypeOK /\ ThreadTypeOK /\ DiscoveryTypeOK /\ RestTypeOK
  BY TypeParts
<1>1. CASE Sweep
  <2>1. FuncsTypeOK'
    BY <1>0, <1>1, MadeFunctions, PutType DEF Sweep, FuncsTypeOK
  <2> QED BY <1>0, <1>1, <2>1 DEF Sweep, discovery, ThreadTypeOK, DiscoveryTypeOK, RestTypeOK
<1>2. CASE SweepEnds
  BY <1>0, <1>2 DEF SweepEnds, BeginActivity, UserFunctions, Existing, discovery,
                    FuncsTypeOK, ThreadTypeOK, DiscoveryTypeOK, RestTypeOK
<1>3. CASE DeleteUnused
  BY <1>0, <1>3 DEF DeleteUnused, BeginActivity, UserFunctions, Existing, discovery,
                    FuncsTypeOK, ThreadTypeOK, DiscoveryTypeOK, RestTypeOK
<1>4. CASE CleanupStarts
  BY <1>0, <1>4 DEF CleanupStarts, Victims, Existing, discovery,
                    FuncsTypeOK, ThreadTypeOK, DiscoveryTypeOK, RestTypeOK
<1>5. CASE RemoveVictim
  <2>1. FuncsTypeOK'
    BY <1>0, <1>5, PutType DEF RemoveVictim, FuncsTypeOK, RestTypeOK
  <2> QED BY <1>0, <1>5, <2>1 DEF RemoveVictim, discovery, ThreadTypeOK, DiscoveryTypeOK,
                                  RestTypeOK
<1>6. CASE TypeSelf
  BY <1>0, <1>6 DEF TypeSelf, discovery, FuncsTypeOK, ThreadTypeOK, DiscoveryTypeOK,
                    RestTypeOK
<1>7. CASE CleanupFails
  BY <1>0, <1>7 DEF CleanupFails, discovery, FuncsTypeOK, ThreadTypeOK, DiscoveryTypeOK,
                    RestTypeOK
<1> QED BY <1>1, <1>2, <1>3, <1>4, <1>5, <1>6, <1>7 DEF Cleanup

(* What the analyst puts at an entry: a function that is theirs if it was, *)
(* with a name of theirs if it had one.                                    *)
LEMMA EditedFacts ==
    ASSUME FuncsTypeOK, NEW e \in Entries, CreateUserFunction(e) \/ Rename(e)
    PROVE  \E f \in Function :
              /\ Edit(e, f)
              /\ e \in UserFunctions => ~f.auto
              /\ (e \in Existing /\ funcs[e].name = "analyst") => f.name = "analyst"
              /\ e \in Existing => f.by = funcs[e].by /\ f.discovered = funcs[e].discovered
              /\ e \notin Existing => f.by = "analyst" /\ ~f.auto
<1> USE DEF UserFunctions, Existing
<1>1. CASE CreateUserFunction(e) /\ funcs[e] = NoFunc
  <2> DEFINE f == [AutoFunction("analyst") EXCEPT !.auto = FALSE]
  <2>1. f \in Function /\ f.by = "analyst" /\ ~f.auto
    BY DEF AutoFunction, Function
  <2>2. Edit(e, f)
    BY <1>1 DEF CreateUserFunction
  <2> HIDE DEF f
  <2> QED BY <1>1, <2>1, <2>2
<1>2. CASE CreateUserFunction(e) /\ funcs[e] # NoFunc
  <2> DEFINE f == [funcs[e] EXCEPT !.auto = FALSE]
  <2>1. /\ f \in Function /\ ~f.auto /\ f.name = funcs[e].name
        /\ f.by = funcs[e].by /\ f.discovered = funcs[e].discovered
    BY <1>2 DEF FuncsTypeOK, Function
  <2>2. Edit(e, f)
    BY <1>2 DEF CreateUserFunction
  <2> HIDE DEF f
  <2> QED BY <1>2, <2>1, <2>2
<1>3. CASE Rename(e)
  <2> DEFINE f == [funcs[e] EXCEPT !.name = "analyst", !.annotated = TRUE]
  <2>1. /\ f \in Function /\ f.name = "analyst" /\ f.auto = funcs[e].auto
        /\ f.by = funcs[e].by /\ f.discovered = funcs[e].discovered
    BY <1>3 DEF Rename, FuncsTypeOK, Function
  <2>2. Edit(e, f) /\ funcs[e] # NoFunc
    BY <1>3 DEF Rename
  <2> HIDE DEF f
  <2> QED BY <2>1, <2>2
<1> QED BY <1>1, <1>2, <1>3

(* The analyst.                                                            *)
LEMMA AnalystSteps ==
    ASSUME TypeOK, Analyst
    PROVE  TypeOK'
<1> SUFFICES FuncsTypeOK' /\ ThreadTypeOK' /\ DiscoveryTypeOK' /\ RestTypeOK'
  BY TypePartsPrimed
<1>0. FuncsTypeOK /\ ThreadTypeOK /\ DiscoveryTypeOK /\ RestTypeOK
  BY TypeParts
<1>1. CASE Abort
  BY <1>0, <1>1 DEF Abort, discovery, FuncsTypeOK, ThreadTypeOK, DiscoveryTypeOK, RestTypeOK
<1>2. ASSUME NEW e \in Entries, CreateUserFunction(e) \/ Rename(e)
      PROVE  FuncsTypeOK' /\ ThreadTypeOK' /\ DiscoveryTypeOK' /\ RestTypeOK'
  <2>1. PICK f \in Function : Edit(e, f)
    BY <1>0, <1>2, EditedFacts
  <2>2. FuncsTypeOK'
    BY <1>0, <2>1, PutType DEF Edit, FuncsTypeOK
  <2>3. ThreadTypeOK' /\ RestTypeOK'
    BY <1>0, <2>1 DEF Edit, discovery, ThreadTypeOK, RestTypeOK
  <2>4. DiscoveryTypeOK'
    BY <1>0, <2>1 DEF Edit, discovery, DiscoveryTypeOK
  <2> QED BY <2>2, <2>3, <2>4
<1> QED BY <1>1, <1>2 DEF Analyst

(* The first action in each group of Next, put together.                   *)
LEMMA TypeOKInductive ==
    /\ Init => TypeOK
    /\ TypeOK /\ [Next]_vars => TypeOK'
<1>1. Init => TypeOK
  <2> SUFFICES ASSUME Init PROVE TypeOK
    OBVIOUS
  <2>1. FuncsTypeOK
    BY MadeFunctions DEF Init, FuncsTypeOK
  <2>2. ThreadTypeOK /\ RestTypeOK
    BY DEF Init, ThreadTypeOK, RestTypeOK
  <2>3. DiscoveryTypeOK
    BY DEF Init, DiscoveryTypeOK, Passes, Outcomes
  <2> QED BY <2>1, <2>2, <2>3, TypeParts
<1>2. ASSUME TypeOK, Analysis PROVE TypeOK'
  <2>1. ASSUME NEW pass \in Passes, Discover(pass) PROVE TypeOK'
    BY <1>2, <2>1, ScanSteps, AddSteps DEF Discover
  <2>2. CASE StartDiscovery \/ EarlyWithoutMetadata
    <3> DEFINE pass == "early"
    <3>1. pass \in Passes
      BY DEF Passes
    <3> HIDE DEF pass
    <3> QED BY <1>2, <2>2, <3>1, ScanSteps
  <2> QED BY <1>2, <2>1, <2>2, RecoverySteps, CoreAndCleanupSteps DEF Analysis, Passes
<1>3. ASSUME TypeOK, Failure PROVE TypeOK'
  BY <1>3, RecoverySteps, CoreAndCleanupSteps, AddSteps DEF Failure, Passes
<1>4. ASSUME TypeOK, UNCHANGED vars PROVE TypeOK'
  BY <1>4 DEF TypeOK, vars, discovery
<1> QED BY <1>1, <1>2, <1>3, <1>4, AnalystSteps DEF Next

(* Whatever the program, the caps and the analyst: every variable keeps    *)
(* its type, and in particular no callback candidate is ever inside the    *)
(* tables.                                                                 *)
THEOREM WellTyped == Spec => []TypeOK
<1>1. Init => TypeOK
  BY TypeOKInductive
<1>2. TypeOK /\ [Next]_vars => TypeOK'
  BY TypeOKInductive
<1> QED BY <1>1, <1>2, PTL DEF Spec

(***************************************************************************)
(* What the analyst owned when the activity began.                         *)
(***************************************************************************)

(* Where the private lists of discover_callbacks and undefine_functions    *)
(* can be in use.                                                          *)
Order ==
    /\ stage # "none" => \/ pc = "late"
                         \/ pc = "early" /\ "early" \in enabled /\ md
                         \/ pc = "recover" /\ "recover" \in enabled
    /\ pc = "recover" => stage \in SinkStages
    /\ stage \in SinkStages => created = <<>>
    /\ pc # "removing" => victims = {}

(* The functions asserted by the analyst are still there and still theirs, *)
(* neither list holds one, and none is about to be added to a list.        *)
Theirs ==
    /\ asserted \subseteq UserFunctions
    /\ victims \cap asserted = {}
    /\ \A i \in 1..Len(created) : created[i] \notin asserted
    /\ stage = "fresh" => \A t : InTurn(t, candidates) => t \notin asserted

(* A list is filled and emptied by the activity that uses it.              *)
LEMMA OrderKept ==
    ASSUME TypeOK, Order, [Next]_vars
    PROVE  Order'
<1> USE DEF Order, SinkStages
<1>1. ASSUME NEW pass \in Passes, NEW how \in Outcomes,
             pc = pass, Return(pass, how), UNCHANGED victims
      PROVE  Order'
  BY <1>1 DEF Return, BeginActivity, Passes
<1>2. CASE \/ Skip("recover", "match") \/ Skip("match", "early")
           \/ Skip("early", "sweep") \/ Skip("cleanup", "done")
  BY <1>2 DEF Skip, BeginActivity, discovery
<1>3. CASE RecoverOne \/ Publish \/ RecoverGivesUp \/ Match
  <2>1. CASE RecoverOne
    BY <2>1, SinkSteps
  <2> QED BY <1>3, <2>1 DEF Publish, RecoverGivesUp, Match, BeginActivity, discovery
<1>4. CASE StartDiscovery \/ EarlyWithoutMetadata
  BY <1>4 DEF StartDiscovery, EarlyWithoutMetadata, BeginActivity, discovery
<1>5. ASSUME NEW pass \in Passes, Discover(pass) \/ DiscoveryFails(pass)
      PROVE  Order'
  <2>1. CASE ScanCallee(pass) /\ ~Return(pass, "aborted")
    <3>1. /\ stage = "scan" /\ stage' \in {"scan", "add"}
          /\ UNCHANGED <<created, pc, md, enabled, victims>>
      BY <2>1 DEF ScanCallee, ScanEnds
    <3> QED BY <3>1
  <2>2. CASE ScanRef(pass) /\ ~Return(pass, "aborted")
    <3>1. /\ stage = "scan"
          /\ UNCHANGED <<stage, created, pc, md, enabled, victims>>
      BY <2>2 DEF ScanRef
    <3> QED BY <3>1
  <2>3. CASE LookAgain(pass) \/ AddTarget(pass) \/ AbortSeen(pass)
    BY <1>5, <2>3 DEF LookAgain, AddTarget, AbortSeen, Passes
  <2>4. CASE RollBack(pass) /\ created # <<>>
    BY <1>5, <2>4 DEF RollBack, Passes
  <2>5. CASE RollBack(pass) /\ created = <<>>
    BY <1>1, <2>5 DEF RollBack, Outcomes
  <2>6. CASE AllAdded(pass) \/ DiscoveryFails(pass)
    BY <1>1, <2>6 DEF AllAdded, DiscoveryFails, Outcomes
  <2>7. CASE (ScanCallee(pass) \/ ScanRef(pass)) /\ Return(pass, "aborted")
    BY <1>1, <2>7 DEF ScanCallee, ScanRef, Outcomes
  <2> QED BY <1>5, <2>1, <2>2, <2>3, <2>4, <2>5, <2>6, <2>7 DEF Discover
<1>6. CASE Sweep \/ SweepEnds \/ DeleteUnused
  BY <1>6 DEF Sweep, SweepEnds, DeleteUnused, BeginActivity, discovery
<1>7. CASE Cleanup \/ CleanupFails
  BY <1>7 DEF Cleanup, CleanupStarts, RemoveVictim, TypeSelf, CleanupFails, discovery
<1>8. CASE Analyst
  BY <1>8 DEF Analyst, CreateUserFunction, Rename, Edit, Abort, discovery
<1>9. CASE UNCHANGED vars
  BY <1>9 DEF vars, discovery
<1> QED BY <1>2, <1>3, <1>4, <1>5, <1>6, <1>7, <1>8, <1>9
           DEF Next, Analysis, Failure, Passes

(* Between the look at a target and its creation only the analyst acts.    *)
LEMMA FreshStays ==
    ASSUME TypeOK, Order, [Next]_vars, stage' = "fresh"
    PROVE  /\ UNCHANGED <<candidates, asserted, spoiled>>
           /\ \/ stage = "fresh" /\ (Analyst \/ UNCHANGED vars)
              \/ /\ UNCHANGED <<funcs, edits>>
                 /\ \A t : InTurn(t, candidates) => Usable(t)
<1> USE DEF Order, SinkStages
<1>1. CASE Analyst \/ UNCHANGED vars
  BY <1>1 DEF Analyst, CreateUserFunction, Rename, Edit, Abort, vars, discovery
<1>2. CASE \/ Skip("recover", "match") \/ Skip("match", "early")
           \/ Skip("early", "sweep") \/ Skip("cleanup", "done")
           \/ Publish \/ RecoverGivesUp \/ Match \/ StartDiscovery \/ EarlyWithoutMetadata
           \/ Sweep \/ SweepEnds \/ DeleteUnused \/ CleanupStarts \/ RemoveVictim
           \/ TypeSelf \/ CleanupFails
  BY <1>2 DEF Skip, Publish, RecoverGivesUp, Match, StartDiscovery, EarlyWithoutMetadata,
              Sweep, SweepEnds, DeleteUnused, CleanupStarts, RemoveVictim, TypeSelf,
              CleanupFails, discovery
<1>3. CASE RecoverOne
  BY <1>3, SinkSteps
<1>4. ASSUME NEW p \in Passes, LookAgain(p)
      PROVE  /\ UNCHANGED <<candidates, asserted, spoiled, funcs, edits>>
             /\ \A t : InTurn(t, candidates) => Usable(t)
  <2>1. PICK d \in candidates : /\ InTurn(d, candidates) /\ Usable(d)
                                /\ UNCHANGED candidates
    BY <1>4 DEF LookAgain
  <2>2. candidates \subseteq Nat
    BY WorkflowAssumption, TypeParts DEF DiscoveryTypeOK
  <2>3. ASSUME NEW t, InTurn(t, candidates) PROVE t = d
    BY <2>1, <2>2, <2>3 DEF InTurn
  <2> QED BY <1>4, <2>1, <2>3 DEF LookAgain
<1>5. ASSUME NEW p \in Passes, Discover(p) \/ DiscoveryFails(p), ~LookAgain(p) PROVE FALSE
  <2>1. CASE ScanCallee(p) \/ ScanRef(p)
    BY <2>1 DEF ScanCallee, ScanEnds, ScanRef, Return
  <2>2. CASE \/ AddTarget(p) \/ AbortSeen(p) \/ AllAdded(p) \/ RollBack(p)
             \/ DiscoveryFails(p)
    BY <2>2 DEF AddTarget, AbortSeen, AllAdded, RollBack, DiscoveryFails, Return
  <2> QED BY <1>5, <2>1, <2>2 DEF Discover
<1> QED BY <1>1, <1>2, <1>3, <1>4, <1>5 DEF Next, Analysis, Failure, Cleanup, Passes

(* How a step may change the functions.  It leaves them alone, ...         *)
Removes(e) ==      \* ... takes back one the analyst did not own, ...
    /\ funcs' = [funcs EXCEPT ![e] = NoFunc]
    /\ e \notin asserted /\ pc # "unused"

Puts(e, f) ==      \* ... puts one function at one entry, ...
    /\ funcs' = [funcs EXCEPT ![e] = f]
    /\ e \in UserFunctions => ~f.auto
    /\ (e \in Existing /\ funcs[e].name = "analyst")
         => f.name = "analyst" \/ (stage = "define" /\ InTurn(e, items))
    /\ e \in Existing => f.by = funcs[e].by /\ f.discovered = funcs[e].discovered
    /\ (e \notin Existing /\ f.by \in {"recovery", "early", "late"}) => ~f.discovered

Purges ==          \* ... or takes back those the core discovered.
    \A e \in Entries :
        \/ funcs'[e] = funcs[e]
        \/ funcs'[e] = NoFunc /\ funcs[e].auto /\ funcs[e].discovered

(* Every step changes them in one of these ways.                           *)
LEMMA HowFunctionsChange ==
    ASSUME TypeOK, Order, Theirs, [Next]_vars
    PROVE  \/ UNCHANGED funcs
           \/ \E e \in Entries : Removes(e) /\ UNCHANGED asserted
           \/ \E e \in Entries : \E f \in Function : Puts(e, f) /\ UNCHANGED asserted
           \/ Purges /\ funcs' \in [Entries -> Function \cup {NoFunc}]
              /\ asserted' = UserFunctions
<1> DEFINE Goal == \/ UNCHANGED funcs
                   \/ \E e \in Entries : Removes(e) /\ UNCHANGED asserted
                   \/ \E e \in Entries : \E f \in Function :
                          Puts(e, f) /\ UNCHANGED asserted
                   \/ /\ Purges /\ funcs' \in [Entries -> Function \cup {NoFunc}]
                      /\ asserted' = UserFunctions
<1> SUFFICES Goal
  OBVIOUS
<1>0. FuncsTypeOK /\ ThreadTypeOK /\ DiscoveryTypeOK /\ RestTypeOK
  BY TypeParts
<1>1. CASE RecoverOne
  <2>1. ASSUME NEW e \in Entries, SinkAdds(e) PROVE Goal
    <3>1. AutoFunction("recovery") \in Function
      BY MadeFunctions DEF Makers
    <3>2. Puts(e, AutoFunction("recovery"))
      BY <2>1 DEF SinkAdds, Puts, AutoFunction, UserFunctions
    <3> QED BY <1>1, <3>1, <3>2, SinkSteps
  <2>2. ASSUME NEW e \in Entries, InTurn(e, items), SinkNames(e) PROVE Goal
    <3>1. Named(e) \in Function /\ Puts(e, Named(e))
      BY <1>0, <2>2, NamedFacts DEF SinkNames, Puts, UserFunctions
    <3> QED BY <1>1, <3>1, SinkSteps
  <2> HIDE DEF Goal
  <2>3. UNCHANGED funcs => Goal
    BY DEF Goal
  <2> QED BY <1>1, <2>1, <2>2, <2>3, SinkSteps
<1>2. ASSUME NEW pass \in Passes, AddTarget(pass) PROVE Goal
  <2>1. PICK t \in candidates :
          UNCHANGED funcs \/ funcs' = [funcs EXCEPT ![t] = Added(t, pass)]
    BY <1>2 DEF AddTarget
  <2>2. /\ t \in Entries /\ pass \in Makers
        /\ AutoFunction(pass) \in Function
    BY <1>0, MadeFunctions DEF DiscoveryTypeOK, Passes, Makers
  <2>3. CASE t \notin Existing /\ funcs' = [funcs EXCEPT ![t] = AutoFunction(pass)]
    <3>1. Puts(t, AutoFunction(pass))
      BY <2>3 DEF Puts, AutoFunction, UserFunctions
    <3>2. UNCHANGED asserted
      BY <1>2 DEF AddTarget
    <3> QED BY <2>2, <3>1, <3>2
  <2>4. \/ UNCHANGED funcs
        \/ t \notin Existing /\ funcs' = [funcs EXCEPT ![t] = AutoFunction(pass)]
    BY <1>0, <2>1, <2>2, AddedFacts
  <2> QED BY <2>3, <2>4
<1>3. ASSUME NEW pass \in Passes, RollBack(pass) PROVE Goal
  <2>1. CASE created = <<>>
    BY <1>3, <2>1 DEF RollBack
  <2>2. CASE created # <<>>
    <3> DEFINE last == created[Len(created)]
    <3>1. Len(created) \in 1..Len(created) /\ last \in Entries
      BY <1>0, <2>2 DEF DiscoveryTypeOK
    <3>2. /\ funcs' = [funcs EXCEPT ![last] = NoFunc]
          /\ UNCHANGED asserted /\ pc = pass
      BY <1>3, <2>2 DEF RollBack
    <3>3. last \notin asserted
      BY <3>1 DEF Theirs
    <3>4. pc # "unused"
      BY <3>2 DEF Passes
    <3>5. Removes(last)
      BY <3>2, <3>3, <3>4 DEF Removes
    <3> QED BY <3>1, <3>2, <3>5
  <2> QED BY <2>1, <2>2
<1>4. CASE Sweep
  <2>1. PICK e \in Entries : /\ \A d \in Existing : e \notin Covers(d)
                            /\ funcs' = [funcs EXCEPT ![e] = CoreFunction]
    BY <1>4 DEF Sweep
  <2>2. e \notin Existing
    BY <2>1, OwnEntry
  <2>3. CoreFunction.by = "core"
    BY DEF CoreFunction, AutoFunction
  <2>4. Puts(e, CoreFunction)
    BY <2>1, <2>2, <2>3 DEF Puts, UserFunctions
  <2>5. UNCHANGED asserted
    BY <1>4 DEF Sweep
  <2> QED BY <2>4, <2>5, MadeFunctions
<1>5. CASE DeleteUnused
  <2>1. Purges
    BY <1>5 DEF DeleteUnused, Purges, Existing
  <2>2. funcs' \in [Entries -> Function \cup {NoFunc}]
    BY <1>0, <1>5 DEF DeleteUnused, FuncsTypeOK
  <2>3. asserted' = UserFunctions
    BY <1>5 DEF DeleteUnused, BeginActivity
  <2> QED BY <2>1, <2>2, <2>3
<1>6. CASE RemoveVictim
  <2>1. PICK e \in victims : funcs' = [funcs EXCEPT ![e] = NoFunc]
    BY <1>6 DEF RemoveVictim
  <2>2. e \in Entries /\ Removes(e) /\ UNCHANGED asserted
    BY <1>0, <1>6, <2>1 DEF RemoveVictim, Removes, Theirs, RestTypeOK
  <2> QED BY <2>2
<1>7. ASSUME NEW e \in Entries, CreateUserFunction(e) \/ Rename(e) PROVE Goal
  <2>1. PICK f \in Function :
              /\ Edit(e, f)
              /\ e \in UserFunctions => ~f.auto
              /\ (e \in Existing /\ funcs[e].name = "analyst") => f.name = "analyst"
              /\ e \in Existing => f.by = funcs[e].by /\ f.discovered = funcs[e].discovered
              /\ e \notin Existing => f.by = "analyst"
    BY <1>0, <1>7, EditedFacts
  <2>2. Puts(e, f) /\ UNCHANGED asserted
    BY <2>1 DEF Puts, Edit
  <2> QED BY <2>2
<1>8. CASE \/ Skip("recover", "match") \/ Skip("match", "early")
           \/ Skip("early", "sweep") \/ Skip("cleanup", "done")
           \/ Publish \/ RecoverGivesUp \/ Match
           \/ StartDiscovery \/ EarlyWithoutMetadata \/ SweepEnds
           \/ CleanupStarts \/ TypeSelf \/ CleanupFails \/ Abort \/ UNCHANGED vars
  BY <1>8 DEF Skip, Publish, RecoverGivesUp, Match, StartDiscovery, EarlyWithoutMetadata,
              SweepEnds, CleanupStarts, TypeSelf, CleanupFails, Abort, vars
<1>9. ASSUME NEW pass \in Passes,
             \/ ScanCallee(pass) \/ ScanRef(pass) \/ LookAgain(pass)
             \/ AbortSeen(pass) \/ AllAdded(pass) \/ DiscoveryFails(pass)
      PROVE  Goal
  BY <1>9 DEF ScanCallee, ScanRef, LookAgain, AbortSeen, AllAdded, DiscoveryFails
<1> HIDE DEF Goal
<1> QED BY <1>1, <1>2, <1>3, <1>4, <1>5, <1>6, <1>7, <1>8, <1>9
           DEF Next, Analysis, Failure, Analyst, Cleanup, Discover, Passes

(* How a step may change the two lists and what they are compared with.    *)
Clear(list, S) == \A i \in 1..Len(list) : list[i] \notin S

ListsKept ==
    /\ asserted' = asserted \/ asserted' = UserFunctions
    /\ victims' \cap asserted' = {}
    /\ Clear(created', asserted')

LEMMA ListsStay ==
    ASSUME TypeOK, Order, Theirs, [Next]_vars
    PROVE  ListsKept
<1>0. /\ FuncsTypeOK /\ ThreadTypeOK /\ DiscoveryTypeOK /\ RestTypeOK
      /\ asserted \subseteq UserFunctions /\ victims \cap asserted = {}
      /\ Clear(created, asserted)
  BY TypeParts DEF Theirs, Clear
<1>1. Clear(<<>>, asserted')
  BY DEF Clear
<1>2. ASSUME UNCHANGED asserted, victims' \subseteq victims, UNCHANGED created
      PROVE  ListsKept
  BY <1>0, <1>2 DEF ListsKept, Clear
<1>3. ASSUME asserted' \in {asserted, UserFunctions}, victims' = {}, created' = <<>>
      PROVE  ListsKept
  BY <1>1, <1>3 DEF ListsKept
<1>4. ASSUME NEW pass \in Passes, NEW how \in Outcomes,
             pc = pass, Return(pass, how), UNCHANGED victims
      PROVE  ListsKept
  <2>1. victims' = {}
    BY <1>4 DEF Order, Passes
  <2> QED BY <1>3, <1>4, <2>1 DEF Return, BeginActivity
<1>5. CASE \/ Skip("recover", "match") \/ Skip("match", "early")
           \/ Skip("early", "sweep")
           \/ Publish \/ RecoverGivesUp \/ Match \/ EarlyWithoutMetadata
           \/ SweepEnds \/ DeleteUnused
  <2>1. asserted' = UserFunctions /\ UNCHANGED <<victims, created>>
    BY <1>5 DEF Skip, Publish, RecoverGivesUp, Match, EarlyWithoutMetadata, SweepEnds,
                DeleteUnused, BeginActivity, discovery
  <2>2. victims = {} /\ created = <<>>
    BY <1>5 DEF Order, SinkStages, Skip, Publish, RecoverGivesUp, Match,
                EarlyWithoutMetadata, SweepEnds, DeleteUnused
  <2> QED BY <1>3, <2>1, <2>2
<1>6. CASE Skip("cleanup", "done")
  <2>1. asserted' = UserFunctions /\ UNCHANGED <<victims, created, stage>>
    BY <1>6 DEF Skip, BeginActivity, discovery
  <2>2. victims = {} /\ created = <<>>
    BY <1>6 DEF Order, SinkStages, Skip
  <2> QED BY <1>3, <2>1, <2>2
<1>7. CASE \/ RecoverOne \/ StartDiscovery \/ Sweep \/ RemoveVictim \/ TypeSelf
           \/ CleanupFails \/ Analyst \/ UNCHANGED vars
  <2>1. UNCHANGED <<asserted, created>> /\ victims' \subseteq victims
    BY <1>7, SinkSteps DEF StartDiscovery, Sweep, RemoveVictim, TypeSelf, CleanupFails,
                Analyst, CreateUserFunction, Rename, Edit, Abort, vars, discovery
  <2> QED BY <1>2, <2>1
<1>8. CASE CleanupStarts
  <2>1. CASE ~md
    BY <1>2, <1>8, <2>1 DEF CleanupStarts, discovery
  <2>2. CASE md
    <3>1. victims' = Victims /\ UNCHANGED <<asserted, created>>
      BY <1>8, <2>2 DEF CleanupStarts, discovery
    <3>2. Victims \cap asserted = {}
      BY <1>0 DEF Victims
    <3> QED BY <1>0, <3>1, <3>2 DEF ListsKept, Clear
  <2> QED BY <2>1, <2>2
<1>9. ASSUME NEW pass \in Passes, Discover(pass) \/ DiscoveryFails(pass)
      PROVE  ListsKept
  <2>1. CASE ScanCallee(pass) \/ ScanRef(pass)
    <3>1. CASE Return(pass, "aborted")
      BY <1>4, <2>1, <3>1 DEF ScanCallee, ScanRef, Outcomes
    <3>2. CASE ~Return(pass, "aborted")
      <4>1. UNCHANGED <<asserted, created, victims>>
        BY <2>1, <3>2 DEF ScanCallee, ScanEnds, ScanRef
      <4> QED BY <1>2, <4>1
    <3> QED BY <3>1, <3>2
  <2>2. CASE AddTarget(pass)
    <3>1. PICK t \in candidates : /\ InTurn(t, candidates)
                                   /\ \/ created' = Append(created, t)
                                      \/ UNCHANGED created
      BY <2>2 DEF AddTarget
    <3>2. UNCHANGED <<asserted, victims>>
      BY <2>2 DEF AddTarget
    <3>3. CASE UNCHANGED created
      BY <1>2, <3>2, <3>3
    <3>4. CASE created' = Append(created, t)
      <4>1. t \notin asserted
        BY <2>2, <3>1 DEF AddTarget, Theirs
      <4>2. created \in Seq(Entries) /\ t \in Entries
        BY <1>0 DEF DiscoveryTypeOK
      <4>3. \A i \in 1..Len(Append(created, t)) :
               \/ i \in 1..Len(created) /\ Append(created, t)[i] = created[i]
               \/ Append(created, t)[i] = t
        BY <4>2
      <4>4. Clear(Append(created, t), asserted)
        BY <1>0, <4>1, <4>3 DEF Clear
      <4> QED BY <1>0, <3>2, <3>4, <4>4 DEF ListsKept
    <3> QED BY <3>1, <3>3, <3>4
  <2>3. CASE LookAgain(pass) \/ AbortSeen(pass)
    BY <1>2, <2>3 DEF LookAgain, AbortSeen
  <2>4. CASE RollBack(pass) /\ created # <<>>
    <3>1. /\ created' = SubSeq(created, 1, Len(created) - 1)
          /\ UNCHANGED <<asserted, victims>>
      BY <2>4 DEF RollBack
    <3>2. created \in Seq(Entries)
      BY <1>0 DEF DiscoveryTypeOK
    <3>3. \A i \in 1..Len(created') : i \in 1..Len(created) /\ created'[i] = created[i]
      BY <2>4, <3>1, <3>2
    <3> QED BY <1>0, <3>1, <3>3 DEF ListsKept, Clear
  <2>5. CASE \/ RollBack(pass) /\ created = <<>>
             \/ AllAdded(pass) \/ DiscoveryFails(pass)
    BY <1>4, <2>5 DEF RollBack, AllAdded, DiscoveryFails, Outcomes
  <2> QED BY <1>9, <2>1, <2>2, <2>3, <2>4, <2>5 DEF Discover
<1> QED BY <1>5, <1>6, <1>7, <1>8, <1>9
           DEF Next, Analysis, Failure, Cleanup, Passes

(* The two lists stay clear of what the analyst owned.                     *)
LEMMA KeptInductive ==
    ASSUME TypeOK, Order, Theirs, [Next]_vars
    PROVE  Theirs' /\ asserted \subseteq UserFunctions'
<1>0. FuncsTypeOK /\ ThreadTypeOK /\ DiscoveryTypeOK /\ RestTypeOK /\ NoFunc \notin Function
  BY TypeParts, MadeFunctions
<1>1. asserted \subseteq UserFunctions' /\ asserted' \subseteq UserFunctions'
  <2>1. CASE UNCHANGED funcs
    <3>1. UserFunctions' = UserFunctions
      BY <2>1 DEF UserFunctions, Existing
    <3>2. asserted' = asserted \/ asserted' = UserFunctions
      BY ListsStay DEF ListsKept
    <3> QED BY <3>1, <3>2 DEF Theirs
  <2>2. ASSUME NEW e \in Entries, Removes(e), UNCHANGED asserted
        PROVE  asserted \subseteq UserFunctions'
    BY <1>0, <2>2 DEF Removes, Theirs, UserFunctions, Existing, FuncsTypeOK
  <2>3. ASSUME NEW e \in Entries, NEW f \in Function, Puts(e, f), UNCHANGED asserted
        PROVE  asserted \subseteq UserFunctions'
    BY <1>0, <2>3 DEF Puts, Theirs, UserFunctions, Existing, FuncsTypeOK
  <2>4. CASE Purges /\ asserted' = UserFunctions
    BY <2>4 DEF Purges, Theirs, UserFunctions, Existing
  <2> QED BY <2>1, <2>2, <2>3, <2>4, HowFunctionsChange
<1>2. ASSUME stage' = "fresh", NEW t, InTurn(t, candidates') PROVE t \notin asserted'
  <2>1. UNCHANGED <<candidates, asserted>>
    BY <1>2, FreshStays
  <2>2. InTurn(t, candidates)
    BY <1>2, <2>1
  <2>3. stage = "fresh" \/ Usable(t)
    BY <1>2, <2>2, FreshStays
  <2> QED BY <2>1, <2>2, <2>3 DEF Theirs, Usable, UserFunctions
<1> QED BY <1>1, <1>2, ListsStay DEF Theirs, ListsKept, Clear

(* The inductive invariant: the types, the order of the lists' use, and    *)
(* what the analyst owned.                                                 *)
AnalysisInv == TypeOK /\ Order /\ Theirs

LEMMA AnalysisInvInductive ==
    /\ Init => AnalysisInv
    /\ AnalysisInv /\ [Next]_vars => AnalysisInv'
<1>1. Init => AnalysisInv
  BY TypeOKInductive DEF Init, AnalysisInv, Order, SinkStages, Theirs, UserFunctions
<1>2. AnalysisInv /\ [Next]_vars => AnalysisInv'
  BY TypeOKInductive, OrderKept, KeptInductive DEF AnalysisInv
<1> QED BY <1>1, <1>2

(* For every program and every interleaving with the analyst: no step      *)
(* removes a function that was the analyst's when the activity started.    *)
THEOREM AnalystFunctionsSurvive == Spec => UserFunctionsSurvive
<1>1. AnalysisInv /\ [Next]_vars => asserted \cap UserFunctions \subseteq Existing'
  BY KeptInductive DEF AnalysisInv, UserFunctions
<1>2. Init => AnalysisInv
  BY AnalysisInvInductive
<1>3. AnalysisInv /\ [Next]_vars => AnalysisInv'
  BY AnalysisInvInductive
<1> QED BY <1>1, <1>2, <1>3, PTL DEF Spec, UserFunctionsSurvive

(* The sink is about to name no function that bore a name of the analyst's *)
(* when it last looked, ...                                                *)
Respect ==
    stage \in {"absent", "define"} => \A e : InTurn(e, items) => e \notin respected

(* ... for only the sink's own look leads to its writing.                  *)
LEMMA RespectKept ==
    ASSUME TypeOK, Order, Respect, [Next]_vars
    PROVE  Respect'
<1> SUFFICES ASSUME stage' \in {"absent", "define"}, NEW e, InTurn(e, items')
             PROVE  e \notin respected'
  BY DEF Respect
<1>0. items \subseteq Nat
  BY WorkflowAssumption, TypeParts DEF RestTypeOK
<1>1. CASE LookUp \/ CheckName
  <2>1. /\ respected' = AnalystNamed /\ UNCHANGED items
        /\ \E d \in Recovered : InTurn(d, items) /\ d \notin AnalystNamed
    BY <1>1 DEF LookUp, CheckName, AnalystNamed, Existing
  <2> QED BY <1>0, <2>1 DEF InTurn
<1>2. CASE AddFunction
  BY <1>2 DEF AddFunction, Respect
<1>3. CASE Analyst \/ UNCHANGED vars
  BY <1>3 DEF Analyst, CreateUserFunction, Rename, Edit, Abort, vars, discovery, Respect
<1>4. CASE \/ Skip("recover", "match") \/ Skip("match", "early")
           \/ Skip("early", "sweep") \/ Skip("cleanup", "done")
           \/ DefineName \/ Publish \/ RecoverGivesUp \/ Match
           \/ StartDiscovery \/ EarlyWithoutMetadata
           \/ Sweep \/ SweepEnds \/ DeleteUnused \/ CleanupStarts \/ RemoveVictim
           \/ TypeSelf \/ CleanupFails
  BY <1>4 DEF Order, Skip, DefineName, Publish, RecoverGivesUp, Match, StartDiscovery,
              EarlyWithoutMetadata, Sweep, SweepEnds, DeleteUnused, CleanupStarts,
              RemoveVictim, TypeSelf, CleanupFails, discovery
<1>5. ASSUME NEW p \in Passes, Discover(p) \/ DiscoveryFails(p) PROVE FALSE
  <2>1. CASE ScanCallee(p) \/ ScanRef(p)
    BY <2>1 DEF ScanCallee, ScanEnds, ScanRef, Return
  <2>2. CASE \/ LookAgain(p) \/ AddTarget(p) \/ AbortSeen(p) \/ AllAdded(p)
             \/ RollBack(p) \/ DiscoveryFails(p)
    BY <2>2 DEF LookAgain, AddTarget, AbortSeen, AllAdded, RollBack, DiscoveryFails, Return
  <2> QED BY <1>5, <2>1, <2>2 DEF Discover
<1> QED BY <1>1, <1>2, <1>3, <1>4, <1>5
           DEF Next, Analysis, Failure, RecoverOne, Cleanup, Passes

(* A name the analyst gave outlives the analysis while its function is     *)
(* there, unless it was given between the look of AutoSink.add_function    *)
(* at that function and its write.                                         *)
THEOREM AnalystNamesSurvive == Spec => AnalystNamesKept
<1>1. ASSUME AnalysisInv, Respect, [Next]_vars, NEW e \in AnalystNamed \cap Existing',
             stage = "define" /\ InTurn(e, items) => e \in respected
      PROVE  e \in AnalystNamed'
  <2>0. /\ e \in Entries /\ FuncsTypeOK /\ e \in Existing /\ e \in Existing'
        /\ funcs[e].name = "analyst"
    BY <1>1, TypeParts DEF AnalysisInv, AnalystNamed, Existing
  <2>1. ~(stage = "define" /\ InTurn(e, items))
    BY <1>1 DEF Respect
  <2>2. SUFFICES funcs'[e].name = "analyst"
    BY <2>0 DEF AnalystNamed, Existing
  <2>3. ASSUME NEW d \in Entries, Removes(d) PROVE funcs'[e].name = "analyst"
    BY <2>0, <2>3 DEF Removes, Existing, FuncsTypeOK
  <2>4. ASSUME NEW d \in Entries, NEW f \in Function, Puts(d, f)
        PROVE  funcs'[e].name = "analyst"
    BY <2>0, <2>1, <2>4 DEF Puts, FuncsTypeOK
  <2>5. CASE Purges
    BY <2>0, <2>5 DEF Purges, Existing
  <2> QED BY <1>1, <2>0, <2>3, <2>4, <2>5, HowFunctionsChange DEF AnalysisInv
<1>2. AnalysisInv /\ Respect /\ [Next]_vars =>
        \A e \in AnalystNamed \cap Existing' :
           (stage = "define" /\ InTurn(e, items) => e \in respected)
           => e \in AnalystNamed'
  BY <1>1
<1>3. Init => AnalysisInv /\ Respect
  BY AnalysisInvInductive DEF Init, Respect
<1>4. AnalysisInv /\ Respect /\ [Next]_vars => AnalysisInv' /\ Respect'
  BY AnalysisInvInductive, RespectKept DEF AnalysisInv
<1> QED BY <1>2, <1>3, <1>4, PTL DEF Spec, AnalystNamesKept

(* A target looked at again is still to create, or the analyst has made an *)
(* edit that has spoilt none before.                                       *)
Spoilt ==
    /\ spoiled <= edits
    /\ stage = "fresh" => \A t : InTurn(t, candidates) => Usable(t) \/ spoiled < edits

LEMMA SpoiltKept ==
    ASSUME TypeOK, Order, Spoilt, [Next]_vars
    PROVE  Spoilt'
<1>0. spoiled \in Nat /\ edits \in Nat
  BY TypeParts DEF RestTypeOK
<1>1. edits' = edits \/ edits' = edits + 1
  <2>1. CASE Analyst \/ UNCHANGED vars
    BY <2>1 DEF Analyst, CreateUserFunction, Rename, Edit, Abort, vars
  <2>2. CASE RecoverOne
    BY <2>2, SinkSteps
  <2>3. CASE \/ Skip("recover", "match") \/ Skip("match", "early")
             \/ Skip("early", "sweep") \/ Skip("cleanup", "done")
             \/ Publish \/ RecoverGivesUp \/ Match
             \/ StartDiscovery \/ EarlyWithoutMetadata
             \/ Sweep \/ SweepEnds \/ DeleteUnused \/ Cleanup \/ CleanupFails
    BY <2>3 DEF Skip, Publish, RecoverGivesUp, Match, StartDiscovery,
                EarlyWithoutMetadata, Sweep, SweepEnds, DeleteUnused, Cleanup,
                CleanupStarts, RemoveVictim, TypeSelf, CleanupFails
  <2>4. ASSUME NEW p \in Passes, Discover(p) \/ DiscoveryFails(p) PROVE edits' = edits
    BY <2>4 DEF Discover, ScanCallee, ScanRef, LookAgain, AddTarget, AbortSeen, AllAdded,
                RollBack, DiscoveryFails
  <2> QED BY <2>1, <2>2, <2>3, <2>4 DEF Next, Analysis, Failure, Passes
<1>2. ASSUME NEW p \in Passes, AddTarget(p) PROVE Spoilt'
  <2>1. PICK t \in candidates :
          /\ InTurn(t, candidates)
          /\ spoiled' = spoiled \/ (~Usable(t) /\ spoiled' = spoiled + 1)
    BY <1>2 DEF AddTarget
  <2>2. stage = "fresh" /\ stage' = "add" /\ edits' = edits
    BY <1>2 DEF AddTarget
  <2>3. Usable(t) \/ spoiled < edits
    BY <2>1, <2>2 DEF Spoilt
  <2>4. spoiled' <= edits'
    BY <1>0, <2>1, <2>2, <2>3 DEF Spoilt
  <2> QED BY <2>2, <2>4 DEF Spoilt
<1>3. ASSUME ~\E p \in Passes : AddTarget(p) PROVE UNCHANGED spoiled
  <2>1. CASE Analyst \/ UNCHANGED vars
    BY <2>1 DEF Analyst, CreateUserFunction, Rename, Edit, Abort, vars, discovery
  <2>2. CASE RecoverOne
    BY <2>2, SinkSteps
  <2>3. CASE \/ Skip("recover", "match") \/ Skip("match", "early")
             \/ Skip("early", "sweep") \/ Skip("cleanup", "done")
             \/ Publish \/ RecoverGivesUp \/ Match
             \/ StartDiscovery \/ EarlyWithoutMetadata
             \/ Sweep \/ SweepEnds \/ DeleteUnused \/ Cleanup \/ CleanupFails
    BY <2>3 DEF Skip, Publish, RecoverGivesUp, Match, StartDiscovery,
                EarlyWithoutMetadata, Sweep, SweepEnds, DeleteUnused, Cleanup,
                CleanupStarts, RemoveVictim, TypeSelf, CleanupFails, discovery
  <2>4. ASSUME NEW p \in Passes, Discover(p) \/ DiscoveryFails(p), ~AddTarget(p)
        PROVE  UNCHANGED spoiled
    BY <2>4 DEF Discover, ScanCallee, ScanRef, LookAgain, AbortSeen, AllAdded,
                RollBack, DiscoveryFails
  <2> QED BY <1>3, <2>1, <2>2, <2>3, <2>4 DEF Next, Analysis, Failure, Passes
<1>4. ASSUME UNCHANGED spoiled, stage' = "fresh", NEW t, InTurn(t, candidates')
      PROVE  Usable(t)' \/ spoiled' < edits'
  <2>1. UNCHANGED candidates
    BY <1>4, FreshStays
  <2>2. InTurn(t, candidates)
    BY <1>4, <2>1
  <2>3. CASE UNCHANGED <<funcs, edits>> /\ (Usable(t) \/ spoiled < edits)
    BY <1>4, <2>3 DEF Usable, Existing, InsideUserFunction
  <2>4. CASE edits' = edits + 1
    BY <1>0, <1>4, <2>4 DEF Spoilt
  <2>5. stage = "fresh" /\ (Analyst \/ UNCHANGED vars) =>
          UNCHANGED <<funcs, edits>> \/ edits' = edits + 1
    BY DEF Analyst, CreateUserFunction, Rename, Edit, Abort, vars
  <2>6. stage = "fresh" => Usable(t) \/ spoiled < edits
    BY <2>2 DEF Spoilt
  <2> QED BY <1>4, <2>2, <2>3, <2>4, <2>5, <2>6, FreshStays
<1>5. ASSUME UNCHANGED spoiled PROVE Spoilt'
  <2>1. spoiled' <= edits'
    BY <1>0, <1>1, <1>5 DEF Spoilt
  <2> QED BY <1>4, <1>5, <2>1 DEF Spoilt
<1> QED BY <1>2, <1>3, <1>5

(* However long ago its targets were found, a callback pass is misled by   *)
(* an edit of the analyst's over one of them at most.                      *)
THEOREM OneTargetPerEdit == Spec => []EditSpoilsOneTarget
<1>1. Init => AnalysisInv /\ Spoilt
  BY AnalysisInvInductive DEF Init, Spoilt
<1>2. AnalysisInv /\ Spoilt /\ [Next]_vars => AnalysisInv' /\ Spoilt'
  BY AnalysisInvInductive, SpoiltKept DEF AnalysisInv
<1>3. Spoilt => EditSpoilsOneTarget
  BY DEF Spoilt, EditSpoilsOneTarget
<1> QED BY <1>1, <1>2, <1>3, PTL DEF Spec

(* What the plugin creates is never marked as discovered.                  *)
OursUndiscovered ==
    \A e \in Existing : funcs[e].by \in {"recovery", "early", "late"} => ~funcs[e].discovered

(* So the core's removal of unused functions never takes what the recovery *)
(* or the early callback pass made.                                        *)
THEOREM CoreSparesRecovery == Spec => RecoveredSurviveCore
<1>1. Init => AnalysisInv /\ OursUndiscovered
  <2>1. CoreFunction.by = "core" /\ CoreFunction # NoFunc
    BY MadeFunctions DEF CoreFunction, AutoFunction
  <2>2. Init => OursUndiscovered
    BY <2>1 DEF Init, OursUndiscovered, Existing
  <2> QED BY <2>2, AnalysisInvInductive
<1>2. ASSUME AnalysisInv, OursUndiscovered, [Next]_vars
      PROVE  /\ OursUndiscovered'
             /\ pc = "unused" =>
                  \A e \in Existing : funcs[e].by \in {"recovery", "early"}
                                       => e \in Existing'
  <2>0. FuncsTypeOK /\ NoFunc \notin Function
    BY <1>2, TypeParts, MadeFunctions DEF AnalysisInv
  <2> DEFINE Goal == /\ OursUndiscovered'
                     /\ pc = "unused" =>
                          \A e \in Existing : funcs[e].by \in {"recovery", "early"}
                                               => e \in Existing'
  <2>1. CASE UNCHANGED funcs
    BY <1>2, <2>1 DEF OursUndiscovered, Existing
  <2>2. ASSUME NEW d \in Entries, Removes(d) PROVE Goal
    BY <1>2, <2>0, <2>2 DEF Removes, OursUndiscovered, Existing, FuncsTypeOK
  <2>3. ASSUME NEW d \in Entries, NEW f \in Function, Puts(d, f) PROVE Goal
    <3>1. \A e \in Entries : funcs'[e] = IF e = d THEN f ELSE funcs[e]
      BY <2>0, <2>3 DEF Puts, FuncsTypeOK
    <3>2. f.by \in {"recovery", "early", "late"} => ~f.discovered
      BY <1>2, <2>3 DEF Puts, OursUndiscovered, Existing
    <3>3. f # NoFunc
      BY <2>0
    <3> QED BY <1>2, <3>1, <3>2, <3>3 DEF OursUndiscovered, Existing
  <2>4. CASE Purges
    BY <1>2, <2>0, <2>4 DEF Purges, OursUndiscovered, Existing
  <2> QED BY <1>2, <2>1, <2>2, <2>3, <2>4, HowFunctionsChange DEF AnalysisInv
<1>3. AnalysisInv /\ OursUndiscovered /\ [Next]_vars =>
        /\ AnalysisInv' /\ OursUndiscovered'
        /\ pc = "unused" =>
             \A e \in Existing : funcs[e].by \in {"recovery", "early"} => e \in Existing'
  BY <1>2, AnalysisInvInductive
<1> QED BY <1>1, <1>3, PTL DEF Spec, RecoveredSurviveCore
-------------------------------------------------------------------------------
(***************************************************************************)
(* What the two callback passes make, and how much.                        *)
(***************************************************************************)

Made(p) == {e \in Existing : funcs[e].by = p}

Listed(list) == {list[i] : i \in 1 .. Len(list)}

Running(p) == stage # "none" /\ pc = p

(* A pass runs once, ...                                                   *)
Once ==
    /\ pc \in {"recover", "match", "early"} => outcome.early = "none"
    /\ pc # "done" => outcome.late = "none"

(* ... what it has made it has listed, and there is nothing of a pass that *)
(* has not run or was aborted; ...                                         *)
Ours ==
    \A p \in Passes :
        /\ Running(p) => Made(p) \subseteq Listed(created)
        /\ (outcome[p] = "none" /\ ~Running(p)) => Made(p) = {}
        /\ outcome[p] = "aborted" => Made(p) = {}
        /\ Cardinality(Made(p)) <= TargetLimit

(* ... and what it has looked at and will is within its caps.              *)
Capped ==
    /\ visited <= FunctionLimit
    /\ references + Cardinality(refsLeft) <= ReferenceLimit
    /\ Len(created) + Cardinality(candidates) <= TargetLimit
    /\ (stage = "scan" /\ (refsLeft # {} \/ callees # {}))
         => Cardinality(candidates) < TargetLimit
    /\ stage \in SinkStages \cup {"scan"} => created = <<>>
    /\ stage \in SinkStages =>
          candidates = {} /\ refsLeft = {} /\ visited = 0 /\ references = 0

(* A list has no more members than places, and one more, or one less, when *)
(* it is added to, or its last taken away.                                 *)
LEMMA ListedFacts ==
    ASSUME NEW list \in Seq(Entries)
    PROVE  /\ Listed(list) \subseteq Entries
           /\ Cardinality(Listed(list)) <= Len(list)
           /\ \A t \in Entries : /\ Append(list, t) \in Seq(Entries)
                                 /\ Len(Append(list, t)) = Len(list) + 1
                                 /\ Listed(Append(list, t)) = Listed(list) \cup {t}
           /\ list # <<>> =>
                 LET most == SubSeq(list, 1, Len(list) - 1)
                 IN /\ most \in Seq(Entries) /\ Len(most) < Len(list)
                    /\ Listed(list) \ {list[Len(list)]} \subseteq Listed(most)
<1>1. list \in [1 .. Len(list) -> Listed(list)] /\ Len(list) \in Nat
  BY DEF Listed
<1>2. list \in Surjection(1 .. Len(list), Listed(list))
  BY <1>1 DEF Surjection, Listed
<1>3. Cardinality(Listed(list)) <= Len(list)
  <2>1. ExistsSurjection(1 .. Len(list), Listed(list))
    BY <1>2 DEF ExistsSurjection
  <2> QED BY <1>1, <2>1, FS_SurjCardinalityBound
<1>4. Listed(list) \subseteq Entries
  BY DEF Listed
<1>5. ASSUME NEW t \in Entries
      PROVE  /\ Append(list, t) \in Seq(Entries)
             /\ Len(Append(list, t)) = Len(list) + 1
             /\ Listed(Append(list, t)) = Listed(list) \cup {t}
  <2> DEFINE longer == Append(list, t)
  <2>1. /\ longer \in Seq(Entries) /\ Len(longer) = Len(list) + 1
        /\ \A i \in 1 .. Len(list) : longer[i] = list[i]
        /\ longer[Len(list) + 1] = t
    OBVIOUS
  <2> HIDE DEF longer
  <2>2. \A i : i \in 1 .. Len(list) + 1 <=> (i \in 1 .. Len(list) \/ i = Len(list) + 1)
    BY <1>1
  <2>3. Listed(longer) = Listed(list) \cup {t}
    BY <1>1, <2>1, <2>2, Zenon DEF Listed
  <2> QED BY <2>1, <2>3 DEF longer
<1>6. ASSUME list # <<>>
      PROVE  LET most == SubSeq(list, 1, Len(list) - 1)
             IN /\ most \in Seq(Entries) /\ Len(most) < Len(list)
                /\ Listed(list) \ {list[Len(list)]} \subseteq Listed(most)
  <2> DEFINE most == SubSeq(list, 1, Len(list) - 1)
  <2>1. Len(list) - 1 \in Nat /\ Len(list) > 0
    BY <1>1, <1>6
  <2>2. /\ most \in Seq(Entries) /\ Len(most) = Len(list) - 1
        /\ \A i \in 1 .. Len(list) - 1 : most[i] = list[i]
    <3>1. 1 \in Int /\ Len(list) - 1 \in Int /\ \A i \in 1 .. Len(list) - 1 : list[i] \in Entries
      BY <1>1
    <3>2. /\ most \in Seq(Entries)
          /\ Len(most) = IF 1 <= Len(list) - 1 THEN Len(list) - 1 - 1 + 1 ELSE 0
          /\ \A i \in 1 .. Len(list) - 1 - 1 + 1 : most[i] = list[1 + i - 1]
      BY <3>1, SubSeqProperties
    <3> HIDE DEF most
    <3>3. /\ Len(most) = Len(list) - 1
          /\ \A i \in 1 .. Len(list) - 1 : i \in 1 .. Len(list) - 1 - 1 + 1 /\ 1 + i - 1 = i
      <4> HIDE DEF most
      <4>1. Len(list) - 1 - 1 + 1 = Len(list) - 1
        BY <1>1
      <4>2. ~(1 <= Len(list) - 1) => Len(list) - 1 = 0
        BY <1>1, <2>1
      <4>3. Len(most) = Len(list) - 1
        BY <3>2, <4>1, <4>2
      <4> QED BY <1>1, <4>1, <4>3
    <3>4. \A i \in 1 .. Len(list) - 1 : most[i] = list[i]
      BY <3>2, <3>3
    <3> QED BY <3>2, <3>3, <3>4
  <2> HIDE DEF most
  <2>3. ASSUME NEW i \in 1 .. Len(list), list[i] # list[Len(list)]
        PROVE  list[i] \in Listed(most)
    <3>1. i \in 1 .. Len(list) - 1
      BY <1>1, <2>3
    <3> QED BY <2>2, <3>1 DEF Listed
  <2>4. Listed(list) \ {list[Len(list)]} \subseteq Listed(most)
    BY <2>3 DEF Listed
  <2> QED BY <1>1, <2>2, <2>4 DEF most
<1> QED BY <1>3, <1>4, <1>5, <1>6

(* Putting a function at an entry makes none of a pass' own, if it is made *)
(* by whoever made the one there, or by none of the passes.                *)
LEMMA PutMakesNone ==
    ASSUME TypeOK, NEW e \in Entries, NEW f \in Function \cup {NoFunc},
           funcs' = [funcs EXCEPT ![e] = f],
           f # NoFunc => IF e \in Existing THEN f.by = funcs[e].by ELSE f.by \notin Passes
    PROVE  \A p \in Passes : Made(p)' \subseteq Made(p)
<1>1. funcs \in [Entries -> Function \cup {NoFunc}]
  BY TypeParts DEF FuncsTypeOK
<1> QED BY <1>1 DEF Made, Existing

(* No step but AddTarget makes one.                                        *)
LEMMA MadeShrinks ==
    ASSUME TypeOK, [Next]_vars, ~\E p \in Passes : AddTarget(p)
    PROVE  \A p \in Passes : Made(p)' \subseteq Made(p)
<1> DEFINE Goal == \A p \in Passes : Made(p)' \subseteq Made(p)
<1> SUFFICES Goal
  OBVIOUS
<1>0. /\ FuncsTypeOK /\ ThreadTypeOK /\ DiscoveryTypeOK /\ RestTypeOK
      /\ NoFunc \notin Function
  BY TypeParts, MadeFunctions
<1>1. CASE UNCHANGED funcs
  BY <1>1 DEF Made, Existing
<1>2. CASE RecoverOne
  <2>1. ASSUME NEW e \in Entries, SinkAdds(e) PROVE Goal
    <3>1. /\ AutoFunction("recovery") \in Function
          /\ AutoFunction("recovery").by \notin Passes
      BY MadeFunctions DEF Makers, AutoFunction, Passes
    <3> QED BY <2>1, <3>1, PutMakesNone DEF SinkAdds
  <2>2. ASSUME NEW e \in Entries, SinkNames(e) PROVE Goal
    <3>1. Named(e) \in Function /\ Named(e).by = funcs[e].by
      BY <1>0, <2>2, NamedFacts DEF SinkNames
    <3> QED BY <2>2, <3>1, PutMakesNone DEF SinkNames
  <2> HIDE DEF Goal
  <2> QED BY <1>1, <1>2, <2>1, <2>2, SinkSteps
<1>3. ASSUME NEW p \in Passes, RollBack(p) PROVE Goal
  <2>1. CASE created = <<>>
    BY <1>1, <1>3, <2>1 DEF RollBack
  <2>2. CASE created # <<>>
    <3>1. created[Len(created)] \in Entries
      BY <1>0, <2>2 DEF DiscoveryTypeOK
    <3>2. funcs' = [funcs EXCEPT ![created[Len(created)]] = NoFunc]
      BY <1>3, <2>2 DEF RollBack
    <3> QED BY <3>1, <3>2, PutMakesNone
  <2> QED BY <2>1, <2>2
<1>4. CASE Sweep
  <2>1. PICK e \in Entries : /\ \A d \in Existing : e \notin Covers(d)
                            /\ funcs' = [funcs EXCEPT ![e] = CoreFunction]
    BY <1>4 DEF Sweep
  <2>2. e \notin Existing
    BY <2>1, OwnEntry
  <2>3. CoreFunction.by = "core"
    BY DEF CoreFunction, AutoFunction
  <2> QED BY <2>1, <2>2, <2>3, MadeFunctions, PutMakesNone DEF Passes
<1>5. CASE DeleteUnused
  BY <1>5 DEF DeleteUnused, Made, Existing
<1>6. CASE RemoveVictim
  <2>1. PICK e \in victims : funcs' = [funcs EXCEPT ![e] = NoFunc]
    BY <1>6 DEF RemoveVictim
  <2>2. e \in Entries
    BY <1>0 DEF RestTypeOK
  <2> QED BY <2>1, <2>2, PutMakesNone
<1>7. ASSUME NEW e \in Entries, CreateUserFunction(e) \/ Rename(e) PROVE Goal
  <2>1. PICK f \in Function :
              /\ Edit(e, f)
              /\ e \in Existing => f.by = funcs[e].by /\ f.discovered = funcs[e].discovered
              /\ e \notin Existing => f.by = "analyst"
    BY <1>0, <1>7, EditedFacts
  <2>2. funcs' = [funcs EXCEPT ![e] = f]
    BY <2>1 DEF Edit
  <2>3. IF e \in Existing THEN f.by = funcs[e].by ELSE f.by \notin Passes
    BY <2>1 DEF Passes
  <2> QED BY <2>2, <2>3, PutMakesNone
<1>8. CASE \/ Skip("recover", "match") \/ Skip("match", "early")
           \/ Skip("early", "sweep") \/ Skip("cleanup", "done")
           \/ Publish \/ RecoverGivesUp \/ Match
           \/ StartDiscovery \/ EarlyWithoutMetadata \/ SweepEnds
           \/ CleanupStarts \/ TypeSelf \/ CleanupFails \/ Abort \/ UNCHANGED vars
  BY <1>1, <1>8 DEF Skip, Publish, RecoverGivesUp, Match, StartDiscovery,
         EarlyWithoutMetadata, SweepEnds, CleanupStarts, TypeSelf, CleanupFails, Abort, vars
<1>9. ASSUME NEW p \in Passes,
             \/ ScanCallee(p) \/ ScanRef(p) \/ LookAgain(p) \/ AbortSeen(p)
             \/ AllAdded(p) \/ DiscoveryFails(p)
      PROVE  Goal
  BY <1>1, <1>9 DEF ScanCallee, ScanRef, LookAgain, AbortSeen, AllAdded, DiscoveryFails
<1> HIDE DEF Goal
<1>10. ASSUME NEW p \in Passes, Discover(p) \/ DiscoveryFails(p) PROVE Goal
  BY <1>3, <1>9, <1>10 DEF Discover
<1>11. CASE Analysis
  BY <1>2, <1>4, <1>5, <1>6, <1>8, <1>10, <1>11 DEF Analysis, Cleanup, Passes
<1>12. CASE Failure \/ Analyst
  BY <1>7, <1>8, <1>10, <1>12 DEF Failure, Analyst, Passes
<1> QED BY <1>8, <1>11, <1>12 DEF Next

(* AddTarget(p) takes one candidate and may make and list it.              *)
LEMMA AddMakesOne ==
    ASSUME TypeOK, NEW p \in Passes, AddTarget(p)
    PROVE  /\ \A q \in Passes \ {p} : Made(q)' \subseteq Made(q)
           /\ \E t \in candidates :
                 /\ candidates' = candidates \ {t}
                 /\ \/ /\ created' = Append(created, t)
                       /\ Made(p)' \subseteq Made(p) \cup {t}
                    \/ UNCHANGED created /\ Made(p)' \subseteq Made(p)
<1>0. /\ funcs \in [Entries -> Function \cup {NoFunc}] /\ candidates \subseteq Entries
      /\ FuncsTypeOK /\ p \in Makers
  BY TypeParts DEF FuncsTypeOK, DiscoveryTypeOK, Passes, Makers
<1>1. PICK t \in candidates :
        /\ candidates' = candidates \ {t}
        /\ \/ /\ funcs' = [funcs EXCEPT ![t] = Added(t, p)]
              /\ created' = Append(created, t)
           \/ UNCHANGED <<funcs, created>>
  BY DEF AddTarget
<1>2. AutoFunction(p).by = p
  BY DEF AutoFunction
<1>3. CASE funcs' = [funcs EXCEPT ![t] = AutoFunction(p)] /\ created' = Append(created, t)
  <2>1. \A q \in Passes \ {p} : Made(q)' \subseteq Made(q)
    BY <1>0, <1>2, <1>3 DEF Made, Existing
  <2>2. Made(p)' \subseteq Made(p) \cup {t}
    BY <1>0, <1>3 DEF Made, Existing
  <2> QED BY <1>1, <1>3, <2>1, <2>2
<1>4. CASE UNCHANGED funcs
  <2>1. \A q : Made(q)' = Made(q)
    BY <1>4 DEF Made, Existing
  <2> QED BY <1>1, <1>4, <2>1
<1>5. t \in Entries /\ ([funcs EXCEPT ![t] = Added(t, p)] = funcs
                         \/ Added(t, p) = AutoFunction(p))
  BY <1>0, AddedFacts
<1> QED BY <1>1, <1>3, <1>4, <1>5

(* Each pass ends once.                                                    *)
LEMMA OnceKept ==
    ASSUME TypeOK, Order, Once, [Next]_vars
    PROVE  Once'
<1> USE DEF Once
<1>0. outcome \in [Passes -> Outcomes]
  BY TypeParts DEF DiscoveryTypeOK
<1>1. ASSUME NEW pass \in Passes, NEW how \in Outcomes, pc = pass, Return(pass, how)
      PROVE  Once'
  BY <1>0, <1>1 DEF Return, BeginActivity, Passes
<1>2. CASE \/ Skip("recover", "match") \/ Skip("match", "early")
           \/ Skip("early", "sweep") \/ Skip("cleanup", "done")
  BY <1>2 DEF Skip, BeginActivity, discovery
<1>3. CASE RecoverOne \/ Publish \/ RecoverGivesUp \/ Match
  BY <1>3, SinkSteps DEF Publish, RecoverGivesUp, Match, BeginActivity, discovery
<1>4. CASE StartDiscovery \/ EarlyWithoutMetadata
  BY <1>4 DEF StartDiscovery, EarlyWithoutMetadata, BeginActivity, discovery
<1>5. ASSUME NEW pass \in Passes, Discover(pass) \/ DiscoveryFails(pass)
      PROVE  Once'
  <2>1. CASE (ScanCallee(pass) \/ ScanRef(pass)) /\ ~Return(pass, "aborted")
    <3>1. UNCHANGED <<pc, outcome>>
      BY <2>1 DEF ScanCallee, ScanEnds, ScanRef
    <3> QED BY <3>1
  <2>2. CASE LookAgain(pass) \/ AddTarget(pass) \/ AbortSeen(pass)
    BY <2>2 DEF LookAgain, AddTarget, AbortSeen
  <2>3. CASE RollBack(pass) /\ created # <<>>
    BY <2>3 DEF RollBack
  <2>4. CASE RollBack(pass) /\ created = <<>>
    BY <1>1, <2>4 DEF RollBack, Outcomes
  <2>5. CASE AllAdded(pass) \/ DiscoveryFails(pass)
    BY <1>1, <2>5 DEF AllAdded, DiscoveryFails, Outcomes
  <2>6. CASE (ScanCallee(pass) \/ ScanRef(pass)) /\ Return(pass, "aborted")
    BY <1>1, <2>6 DEF ScanCallee, ScanRef, Outcomes
  <2> QED BY <1>5, <2>1, <2>2, <2>3, <2>4, <2>5, <2>6 DEF Discover
<1>6. CASE Sweep \/ SweepEnds \/ DeleteUnused
  BY <1>6 DEF Sweep, SweepEnds, DeleteUnused, BeginActivity, discovery
<1>7. CASE Cleanup \/ CleanupFails
  BY <1>7 DEF Cleanup, CleanupStarts, RemoveVictim, TypeSelf, CleanupFails, discovery
<1>8. CASE Analyst
  BY <1>8 DEF Analyst, CreateUserFunction, Rename, Edit, Abort, discovery
<1>9. CASE UNCHANGED vars
  BY <1>9 DEF vars, discovery
<1> QED BY <1>2, <1>3, <1>4, <1>5, <1>6, <1>7, <1>8, <1>9
           DEF Next, Analysis, Failure, Passes

(* Adding and taking away one member.                                      *)
LEMMA OneMoreOneLess ==
    ASSUME NEW S, IsFiniteSet(S), NEW x
    PROVE  /\ Cardinality(S) \in Nat
           /\ Cardinality(S \cup {x}) \in Nat
           /\ Cardinality(S \cup {x}) <= Cardinality(S) + 1
           /\ x \in S => Cardinality(S \ {x}) = Cardinality(S) - 1 /\ Cardinality(S) > 0
<1>1. Cardinality(S) \in Nat
  BY FS_CardinalityType
<1>2. Cardinality(S \cup {x}) = IF x \in S THEN Cardinality(S) ELSE Cardinality(S) + 1
  BY FS_AddElement
<1>3. Cardinality(S \ {x}) = IF x \in S THEN Cardinality(S) - 1 ELSE Cardinality(S)
  BY FS_RemoveElement
<1>4. x \in S => Cardinality(S) # 0
  BY FS_EmptySet
<1>5. Cardinality(S \cup {x}) \in Nat /\ Cardinality(S \cup {x}) <= Cardinality(S) + 1
  BY <1>1, <1>2
<1> QED BY <1>1, <1>3, <1>4, <1>5

(* The caps are kept.                                                      *)
LEMMA CappedKept ==
    ASSUME TypeOK, Order, Capped, [Next]_vars
    PROVE  Capped'
<1>0. DiscoveryTypeOK
  BY TypeParts
<1>1. /\ IsFiniteSet(candidates) /\ Cardinality(candidates) \in Nat
      /\ IsFiniteSet(refsLeft) /\ Cardinality(refsLeft) \in Nat
      /\ Len(created) \in Nat
  <2>1. candidates \in SUBSET Entries /\ refsLeft \in SUBSET Refs /\ Len(created) \in Nat
    BY <1>0 DEF DiscoveryTypeOK
  <2>2. IsFiniteSet(candidates) /\ IsFiniteSet(refsLeft)
    BY <2>1, FS_Subset
  <2> QED BY <2>1, <2>2, FS_CardinalityType
<1>2. CASE UNCHANGED discovery
  BY <1>2 DEF Capped, discovery
<1>13. CASE RecoverOne \/ RecoverGivesUp
  <2>1. /\ stage \in SinkStages /\ stage' \in SinkStages
        /\ UNCHANGED <<callees, visited, refsLeft, references, candidates, created>>
    BY <1>13, SinkSteps DEF RecoverGivesUp, Order, SinkStages
  <2> QED BY <2>1 DEF Capped, SinkStages
<1>3. CASE StartDiscovery
  BY <1>3, FS_EmptySet DEF StartDiscovery, Capped, SinkStages
<1>4. ASSUME NEW pass \in Passes, NEW how, Return(pass, how)
      PROVE  Capped'
  BY <1>4, FS_EmptySet DEF Return, Capped
<1>5. ASSUME NEW pass \in Passes, ScanCallee(pass), ~Return(pass, "aborted")
      PROVE  Capped'
  <2>1. /\ stage = "scan" /\ refsLeft = {}
        /\ UNCHANGED <<references, candidates, created>>
    BY <1>5 DEF ScanCallee, ScanEnds
  <2>2. CASE ScanEnds(pass)
    BY <1>5, <2>1, <2>2, FS_EmptySet DEF ScanEnds, Capped, SinkStages
  <2>3. CASE ~ScanEnds(pass)
    <3>1. /\ callees # {} /\ ~(visited >= FunctionLimit)
          /\ visited' = visited + 1 /\ UNCHANGED stage
          /\ \/ UNCHANGED refsLeft
             \/ \E callee \in callees :
                   /\ ~(references >= ReferenceLimit)
                   /\ refsLeft' \in AtMost(Smaller(RefsPerFunction,
                                                   ReferenceLimit - references),
                                           RefsTo(callee))
      BY <1>5, <2>3 DEF ScanCallee
    <3>2. visited' <= FunctionLimit /\ Cardinality(candidates) < TargetLimit
      BY <1>0, <2>1, <3>1 DEF DiscoveryTypeOK, Capped
    <3>3. references + Cardinality(refsLeft') <= ReferenceLimit
      <4>1. CASE UNCHANGED refsLeft
        BY <4>1 DEF Capped
      <4>2. ASSUME NEW callee \in callees, ~(references >= ReferenceLimit),
                   refsLeft' \in AtMost(Smaller(RefsPerFunction, ReferenceLimit - references),
                                        RefsTo(callee))
            PROVE  references + Cardinality(refsLeft') <= ReferenceLimit
        <5> DEFINE n == Smaller(RefsPerFunction, ReferenceLimit - references)
        <5>1. n \in Nat /\ n <= ReferenceLimit - references
          BY <1>0, <4>2 DEF Smaller, DiscoveryTypeOK
        <5>2. RefsTo(callee) \in SUBSET Refs
          BY DEF RefsTo
        <5>3. Cardinality(RefsTo(callee)) \in Nat
          BY <5>2, FS_Subset, FS_CardinalityType
        <5>4. Cardinality(refsLeft') <= n /\ Cardinality(refsLeft') \in Nat
          BY <4>2, <5>1, <5>3 DEF AtMost
        <5> HIDE DEF n
        <5> QED BY <1>0, <5>1, <5>4 DEF DiscoveryTypeOK
      <4> QED BY <3>1, <4>1, <4>2
    <3> QED BY <2>1, <3>1, <3>2, <3>3 DEF Capped, SinkStages
  <2> QED BY <2>2, <2>3
<1>6. ASSUME NEW pass \in Passes, ScanRef(pass), ~Return(pass, "aborted")
      PROVE  Capped'
  <2>1. PICK r \in refsLeft :
           /\ references' = references + 1
           /\ UNCHANGED candidates \/ candidates' = candidates \cup {r.target}
           /\ \/ refsLeft' = {} /\ callees' = {}
              \/ ~TargetsFull(candidates') /\ refsLeft' = refsLeft \ {r} /\ UNCHANGED callees
    BY <1>6 DEF ScanRef
  <2>2. stage = "scan" /\ UNCHANGED <<stage, visited, created>>
    BY <1>6 DEF ScanRef
  <2>3. /\ Cardinality(candidates) < TargetLimit
        /\ Cardinality(candidates') \in Nat
        /\ Cardinality(candidates') <= Cardinality(candidates) + 1
    <3>1. Cardinality(candidates) < TargetLimit
      BY <2>1, <2>2 DEF Capped
    <3>2. /\ Cardinality(candidates \cup {r.target}) \in Nat
          /\ Cardinality(candidates \cup {r.target}) <= Cardinality(candidates) + 1
      BY <1>1, OneMoreOneLess
    <3>3. CASE UNCHANGED candidates
      <4>1. Cardinality(candidates') = Cardinality(candidates)
        BY <3>3
      <4> QED BY <1>1, <3>1, <4>1
    <3> QED BY <2>1, <3>1, <3>2, <3>3
  <2>4. /\ Cardinality(refsLeft \ {r}) = Cardinality(refsLeft) - 1
        /\ Cardinality(refsLeft) > 0
    BY <1>1, OneMoreOneLess
  <2>5. references' + Cardinality(refsLeft') <= ReferenceLimit
    <3>1. references \in Nat /\ references + Cardinality(refsLeft) <= ReferenceLimit
      BY <1>0 DEF Capped, DiscoveryTypeOK
    <3>2. Cardinality(refsLeft') = 0 \/ Cardinality(refsLeft') = Cardinality(refsLeft) - 1
      BY <2>1, <2>4, FS_EmptySet
    <3> QED BY <1>1, <2>1, <2>4, <3>1, <3>2
  <2>6. Len(created) + Cardinality(candidates') <= TargetLimit
    <3>1. Len(created) = 0
      BY <2>2 DEF Capped
    <3> QED BY <1>1, <2>3, <3>1
  <2>7. (refsLeft' # {} \/ callees' # {}) => Cardinality(candidates') < TargetLimit
    BY <2>1, <2>3 DEF TargetsFull
  <2> QED BY <2>2, <2>5, <2>6, <2>7 DEF Capped
<1>7. ASSUME NEW pass \in Passes, AddTarget(pass) PROVE Capped'
  <2>1. PICK t \in candidates :
          /\ candidates' = candidates \ {t}
          /\ created' = Append(created, t) \/ UNCHANGED created
    BY <1>7 DEF AddTarget
  <2>2. /\ stage = "fresh" /\ stage' = "add"
        /\ UNCHANGED <<callees, visited, refsLeft, references>>
    BY <1>7 DEF AddTarget
  <2>3. Cardinality(candidates') = Cardinality(candidates) - 1 /\ Cardinality(candidates) > 0
    BY <1>1, <2>1, OneMoreOneLess
  <2>4. Len(created') \in Nat /\ Len(created') <= Len(created) + 1
    <3>1. created \in Seq(Entries) /\ t \in Entries
      BY <1>0, <2>1 DEF DiscoveryTypeOK
    <3> QED BY <1>1, <2>1, <3>1
  <2>5. Len(created') + Cardinality(candidates') <= TargetLimit
    BY <1>1, <2>3, <2>4 DEF Capped
  <2> QED BY <2>2, <2>5 DEF Capped, SinkStages
<1>8. ASSUME NEW pass \in Passes, LookAgain(pass) \/ AbortSeen(pass) PROVE Capped'
  <2>1. /\ stage = "add" /\ stage' \in {"add", "fresh", "rollback"}
        /\ UNCHANGED <<callees, visited, refsLeft, references, created>>
        /\ \/ UNCHANGED candidates
           \/ \E t \in candidates : candidates' = candidates \ {t}
    BY <1>8 DEF LookAgain, AbortSeen
  <2>2. Cardinality(candidates') \in Nat /\ Cardinality(candidates') <= Cardinality(candidates)
    <3>1. CASE UNCHANGED candidates
      <4>1. Cardinality(candidates') = Cardinality(candidates)
        BY <3>1
      <4> QED BY <1>1, <4>1
    <3>2. ASSUME NEW t \in candidates, candidates' = candidates \ {t}
          PROVE  /\ Cardinality(candidates') \in Nat
                 /\ Cardinality(candidates') <= Cardinality(candidates)
      <4>1. /\ Cardinality(candidates \ {t}) = Cardinality(candidates) - 1
            /\ Cardinality(candidates) > 0
        BY <1>1, OneMoreOneLess
      <4> QED BY <1>1, <3>2, <4>1
    <3> QED BY <2>1, <3>1, <3>2
  <2>3. Len(created') + Cardinality(candidates') <= TargetLimit
    BY <1>1, <2>1, <2>2 DEF Capped
  <2> QED BY <2>1, <2>3 DEF Capped, SinkStages
<1>9. ASSUME NEW pass \in Passes, RollBack(pass), created # <<>> PROVE Capped'
  <2>1. /\ stage = "rollback" /\ created' = SubSeq(created, 1, Len(created) - 1)
        /\ UNCHANGED <<stage, callees, visited, refsLeft, references, candidates>>
    BY <1>9 DEF RollBack
  <2>2. created \in Seq(Entries)
    BY <1>0 DEF DiscoveryTypeOK
  <2>3. created' \in Seq(Entries) /\ Len(created') < Len(created)
    BY <1>9, <2>1, <2>2, ListedFacts
  <2>4. Len(created') \in Nat
    BY <2>3
  <2> QED BY <1>1, <2>1, <2>3, <2>4 DEF Capped
<1>10. ASSUME NEW pass \in Passes, Discover(pass) \/ DiscoveryFails(pass)
       PROVE  Capped'
  <2>1. CASE \/ ScanCallee(pass) \/ ScanRef(pass) \/ LookAgain(pass)
             \/ AddTarget(pass) \/ AbortSeen(pass)
    BY <1>4, <1>5, <1>6, <1>7, <1>8, <2>1
  <2>2. CASE AllAdded(pass) \/ RollBack(pass) \/ DiscoveryFails(pass)
    BY <1>4, <1>9, <2>2 DEF AllAdded, RollBack, DiscoveryFails
  <2> QED BY <1>10, <2>1, <2>2 DEF Discover
<1>11. CASE \/ Skip("recover", "match") \/ Skip("match", "early")
            \/ Skip("early", "sweep") \/ Skip("cleanup", "done")
            \/ Publish \/ Match \/ EarlyWithoutMetadata
            \/ Sweep \/ SweepEnds \/ DeleteUnused \/ Cleanup \/ CleanupFails
            \/ Analyst \/ UNCHANGED vars
  <2>1. UNCHANGED discovery
    BY <1>11 DEF Skip, Publish, Match, EarlyWithoutMetadata, Sweep, SweepEnds, DeleteUnused, Cleanup, CleanupStarts, RemoveVictim,
                 TypeSelf, CleanupFails, Analyst, CreateUserFunction, Rename, Edit, Abort,
                 vars
  <2> QED BY <1>2, <2>1
<1> QED BY <1>3, <1>10, <1>11, <1>13 DEF Next, Analysis, Failure, Passes

(* What a pass made stays listed, and within its cap.                      *)
LEMMA OursKept ==
    ASSUME TypeOK, Order, Once, Capped, Ours, [Next]_vars
    PROVE  Ours'
<1>0. /\ FuncsTypeOK /\ ThreadTypeOK /\ DiscoveryTypeOK
      /\ outcome \in [Passes -> Outcomes] /\ created \in Seq(Entries)
  BY TypeParts DEF DiscoveryTypeOK
<1> DEFINE Shrinks == \A p \in Passes : Made(p)' \subseteq Made(p)
           Few == \A p \in Passes : Cardinality(Made(p)') <= TargetLimit
<1>1. \A p : /\ Made(p) \in SUBSET Entries /\ Made(p)' \in SUBSET Entries
             /\ IsFiniteSet(Made(p)) /\ IsFiniteSet(Made(p)')
  <2>1. \A p : Made(p) \in SUBSET Entries /\ Made(p)' \in SUBSET Entries
    BY DEF Made, Existing
  <2> QED BY <2>1, FS_Subset
<1>2. ASSUME NEW p \in Passes, Made(p)' \subseteq Made(p)
      PROVE  Cardinality(Made(p)') <= TargetLimit
  <2>1. Cardinality(Made(p)') <= Cardinality(Made(p))
    BY <1>1, <1>2, FS_Subset
  <2>2. Cardinality(Made(p)) \in Nat /\ Cardinality(Made(p)') \in Nat
    BY <1>1, FS_CardinalityType
  <2> QED BY <2>1, <2>2 DEF Ours
<1>3. Shrinks => Few
  BY <1>2
<1>4. ASSUME Shrinks, UNCHANGED <<stage, pc, outcome, created>> PROVE Ours'
  <2>1. Listed(created)' = Listed(created)
    BY <1>4 DEF Listed
  <2> QED BY <1>3, <1>4, <2>1 DEF Ours, Running
<1>5. ASSUME Shrinks, \A p \in Passes : ~Running(p) /\ ~Running(p)', UNCHANGED outcome
      PROVE  Ours'
  BY <1>3, <1>5 DEF Ours
<1>6. ASSUME NEW pass \in Passes, Few,
             pc = pass, stage # "none", stage' # "none", UNCHANGED <<pc, outcome>>,
             \A p \in Passes \ {pass} : Made(p)' \subseteq Made(p),
             Made(pass)' \subseteq Listed(created')
      PROVE  Ours'
  <2>1. outcome[pass] = "none"
    BY <1>6 DEF Once, Passes
  <2> QED BY <1>6, <2>1 DEF Ours, Running
<1>7. ASSUME NEW pass \in Passes, NEW how \in Outcomes, Shrinks,
             pc = pass, stage # "none", Return(pass, how), how # "none",
             how = "aborted" => Made(pass)' = {}
      PROVE  Ours'
  <2>1. /\ stage' = "none" /\ outcome'[pass] = how
        /\ \A p \in Passes \ {pass} : outcome'[p] = outcome[p]
    BY <1>0, <1>7 DEF Return
  <2> QED BY <1>3, <1>7, <2>1 DEF Ours, Running
<1>8. ASSUME NEW pass \in Passes, AddTarget(pass) PROVE Ours'
  <2>1. PICK t \in candidates :
          /\ candidates' = candidates \ {t}
          /\ \/ created' = Append(created, t) /\ Made(pass)' \subseteq Made(pass) \cup {t}
             \/ UNCHANGED created /\ Made(pass)' \subseteq Made(pass)
    BY <1>8, AddMakesOne
  <2>2. /\ \A q \in Passes \ {pass} : Made(q)' \subseteq Made(q)
        /\ pc = pass /\ stage = "fresh" /\ stage' = "add" /\ UNCHANGED <<pc, outcome>>
    BY <1>8, AddMakesOne DEF AddTarget
  <2>3. Made(pass) \subseteq Listed(created)
    BY <2>2 DEF Ours, Running
  <2>4. t \in Entries
    BY <1>0, <2>1 DEF DiscoveryTypeOK
  <2>5. CASE created' = Append(created, t) /\ Made(pass)' \subseteq Made(pass) \cup {t}
    <3>1. /\ created' \in Seq(Entries) /\ Len(created') = Len(created) + 1
          /\ Listed(created') = Listed(created) \cup {t}
      BY <1>0, <2>4, <2>5, ListedFacts
    <3>2. /\ Listed(created') \in SUBSET Entries
          /\ Cardinality(Listed(created')) <= Len(created')
      BY <3>1, ListedFacts
    <3>3. Made(pass)' \subseteq Listed(created')
      BY <2>3, <2>5, <3>1
    <3>4. Len(created) + 1 <= TargetLimit
      <4>1. IsFiniteSet(candidates)
        <5>1. candidates \in SUBSET Entries
          BY <1>0 DEF DiscoveryTypeOK
        <5> QED BY <5>1, FS_Subset
      <4>2. Cardinality(candidates) \in Nat /\ Cardinality(candidates) > 0
        BY <2>1, <4>1, OneMoreOneLess
      <4> QED BY <1>0, <4>2 DEF Capped
    <3>5. Cardinality(Made(pass)') <= TargetLimit
      <4>1. IsFiniteSet(Listed(created'))
        BY <3>2, FS_Subset
      <4>2. Cardinality(Made(pass)') <= Cardinality(Listed(created'))
        BY <3>3, <4>1, FS_Subset
      <4>3. Cardinality(Made(pass)') \in Nat /\ Cardinality(Listed(created')) \in Nat
        BY <1>1, <4>1, FS_CardinalityType
      <4> QED BY <1>0, <3>1, <3>2, <3>4, <4>2, <4>3
    <3>6. Few
      BY <1>2, <2>2, <3>5
    <3> HIDE DEF Few
    <3> QED BY <1>6, <2>2, <3>3, <3>6
  <2>6. CASE UNCHANGED created /\ Made(pass)' \subseteq Made(pass)
    <3>1. Shrinks
      BY <2>2, <2>6
    <3>2. Made(pass)' \subseteq Listed(created')
      BY <2>3, <2>6
    <3> QED BY <1>3, <1>6, <2>2, <3>1, <3>2
  <2> QED BY <2>1, <2>5, <2>6
<1>9. CASE Shrinks
  <2>1. ASSUME NEW pass \in Passes, pc = pass, stage = "scan", Return(pass, "aborted")
        PROVE  Ours'
    <3>1. Made(pass) = {}
      BY <2>1 DEF Ours, Running, Capped, Listed
    <3>2. Made(pass)' = {}
      BY <1>9, <3>1
    <3> HIDE DEF Shrinks
    <3> QED BY <1>7, <1>9, <2>1, <3>2 DEF Outcomes
  <2>2. ASSUME NEW pass \in Passes, ScanCallee(pass) \/ ScanRef(pass) PROVE Ours'
    <3>1. CASE Return(pass, "aborted")
      BY <2>1, <2>2, <3>1 DEF ScanCallee, ScanRef
    <3>2. CASE ~Return(pass, "aborted")
      <4>1. /\ pc = pass /\ stage = "scan" /\ stage' \in {"scan", "add"}
            /\ UNCHANGED <<pc, outcome, created>>
        BY <2>2, <3>2 DEF ScanCallee, ScanEnds, ScanRef
      <4>2. Made(pass)' \subseteq Listed(created')
        BY <1>9, <4>1 DEF Ours, Running
      <4>3. stage # "none" /\ stage' # "none"
        BY <4>1
      <4> QED BY <1>3, <1>6, <1>9, <4>1, <4>2, <4>3
    <3> QED BY <3>1, <3>2
  <2>3. ASSUME NEW pass \in Passes, LookAgain(pass) \/ AbortSeen(pass) PROVE Ours'
    <3>1. /\ pc = pass /\ stage = "add" /\ stage' \in {"add", "fresh", "rollback"}
          /\ UNCHANGED <<pc, outcome, created>>
      BY <2>3 DEF LookAgain, AbortSeen
    <3>2. Made(pass)' \subseteq Listed(created')
      BY <1>9, <3>1 DEF Ours, Running
    <3>3. stage # "none" /\ stage' # "none"
      BY <3>1
    <3> QED BY <1>3, <1>6, <1>9, <3>1, <3>2, <3>3
  <2>4. ASSUME NEW pass \in Passes, RollBack(pass) PROVE Ours'
    <3>1. pc = pass /\ stage = "rollback"
      BY <2>4 DEF RollBack
    <3>2. Made(pass) \subseteq Listed(created)
      BY <3>1 DEF Ours, Running
    <3>3. CASE created = <<>>
      <4>1. Return(pass, "aborted")
        BY <2>4, <3>3 DEF RollBack
      <4>2. Made(pass)' = {}
        BY <1>9, <3>2, <3>3 DEF Listed
      <4> HIDE DEF Shrinks
      <4> QED BY <1>7, <1>9, <3>1, <4>1, <4>2 DEF Outcomes
    <3>4. CASE created # <<>>
      <4> DEFINE last == created[Len(created)]
      <4>1. /\ created' = SubSeq(created, 1, Len(created) - 1)
            /\ funcs' = [funcs EXCEPT ![last] = NoFunc]
            /\ UNCHANGED <<stage, pc, outcome>>
        BY <2>4, <3>4 DEF RollBack
      <4>2. last \notin Made(pass)'
        BY <1>0, <4>1 DEF Made, Existing, FuncsTypeOK
      <4>3. Listed(created) \ {last} \subseteq Listed(created')
        BY <1>0, <3>4, <4>1, ListedFacts
      <4>4. Made(pass)' \subseteq Listed(created')
        BY <1>9, <3>2, <4>2, <4>3
      <4>5. stage # "none" /\ stage' # "none" /\ UNCHANGED <<pc, outcome>>
        BY <3>1, <4>1
      <4> HIDE DEF last
      <4> QED BY <1>3, <1>6, <1>9, <3>1, <4>4, <4>5
    <3> QED BY <3>3, <3>4
  <2>5. ASSUME NEW pass \in Passes, AllAdded(pass) \/ DiscoveryFails(pass) PROVE Ours'
    <3>1. \E how \in {"created", "failed"} :
             pc = pass /\ stage # "none" /\ Return(pass, how)
      BY <2>5 DEF AllAdded, DiscoveryFails
    <3> HIDE DEF Shrinks
    <3> QED BY <1>7, <1>9, <3>1 DEF Outcomes
  <2>6. CASE StartDiscovery
    <3>1. PICK pass \in Passes : pc = pass
      BY <2>6 DEF StartDiscovery, Passes
    <3>2. stage = "none" /\ stage' # "none" /\ UNCHANGED <<pc, outcome, created>>
      BY <2>6 DEF StartDiscovery
    <3>3. Made(pass) = {} /\ outcome[pass] = "none"
      BY <3>1, <3>2 DEF Ours, Running, Once, Passes
    <3> QED BY <1>3, <1>9, <3>1, <3>2, <3>3 DEF Ours, Running
  <2>7. CASE \/ Skip("recover", "match") \/ Skip("match", "early")
             \/ Skip("early", "sweep") \/ Skip("cleanup", "done")
             \/ Publish \/ Match \/ EarlyWithoutMetadata
             \/ Sweep \/ SweepEnds \/ DeleteUnused \/ Cleanup \/ CleanupFails
    <3>1. UNCHANGED <<stage, outcome>>
      BY <2>7 DEF Skip, Publish, Match, EarlyWithoutMetadata,
                  Sweep, SweepEnds, DeleteUnused, Cleanup, CleanupStarts, RemoveVictim,
                  TypeSelf, CleanupFails, discovery
    <3>2. stage = "none"
      BY <2>7 DEF Order, Skip, Publish, Match,
                  EarlyWithoutMetadata, Sweep, SweepEnds, DeleteUnused, Cleanup,
                  CleanupStarts, RemoveVictim, TypeSelf, CleanupFails
    <3>3. \A p \in Passes : ~Running(p) /\ ~Running(p)'
      BY <3>1, <3>2 DEF Running
    <3> HIDE DEF Shrinks
    <3> QED BY <1>5, <1>9, <3>1, <3>3
  <2>10. CASE RecoverOne \/ RecoverGivesUp
    <3>1. pc = "recover" /\ pc' \in {"recover", "match"} /\ UNCHANGED outcome
      BY <2>10, SinkSteps DEF RecoverGivesUp, BeginActivity
    <3>2. \A p \in Passes : ~Running(p) /\ ~Running(p)'
      BY <3>1 DEF Running, Passes
    <3> HIDE DEF Shrinks
    <3> QED BY <1>5, <1>9, <3>1, <3>2
  <2>8. CASE Analyst \/ UNCHANGED vars
    <3>1. UNCHANGED <<stage, pc, outcome, created>>
      BY <2>8 DEF Analyst, CreateUserFunction, Rename, Edit, Abort, vars, discovery
    <3> HIDE DEF Shrinks
    <3> QED BY <1>4, <1>9, <3>1
  <2>9. CASE \E pass \in Passes : AddTarget(pass)
    BY <1>8, <2>9
  <2> QED BY <2>2, <2>3, <2>4, <2>5, <2>6, <2>7, <2>8, <2>9, <2>10
             DEF Next, Analysis, Failure, Discover, Passes
<1> QED BY <1>8, <1>9, MadeShrinks

CallbacksInv == AnalysisInv /\ Once /\ Ours /\ Capped

LEMMA CallbacksInvInductive ==
    /\ Init => CallbacksInv
    /\ CallbacksInv /\ [Next]_vars => CallbacksInv'
<1>1. Init => Once /\ Ours /\ Capped
  <2> SUFFICES ASSUME Init PROVE Once /\ Ours /\ Capped
    OBVIOUS
  <2>1. CoreFunction.by = "core"
    BY DEF CoreFunction, AutoFunction
  <2>2. \A p \in Passes : Made(p) = {}
    BY <2>1 DEF Init, Made, Existing, Passes
  <2>3. Cardinality({}) = 0
    BY FS_EmptySet
  <2>4. /\ stage = "none" /\ outcome.early = "none" /\ outcome.late = "none"
        /\ candidates = {} /\ refsLeft = {} /\ visited = 0 /\ references = 0
        /\ created = <<>> /\ Len(created) = 0
    BY DEF Init
  <2>5. 0 <= FunctionLimit /\ 0 <= ReferenceLimit /\ 0 <= TargetLimit /\ 0 + 0 = 0
    OBVIOUS
  <2>6. Once
    BY <2>4 DEF Once
  <2>7. Capped
    BY <2>3, <2>4, <2>5 DEF Capped
  <2>8. Ours
    <3>1. ASSUME NEW p \in Passes
          PROVE  Made(p) = {} /\ Cardinality(Made(p)) <= TargetLimit /\ outcome[p] = "none"
      BY <2>2, <2>3, <2>4, <2>5 DEF Passes
    <3> QED BY <2>4, <3>1 DEF Ours, Running
  <2> QED BY <2>6, <2>7, <2>8
<1>2. CallbacksInv /\ [Next]_vars => CallbacksInv'
  BY AnalysisInvInductive, OnceKept, OursKept, CappedKept DEF CallbacksInv, AnalysisInv
<1> QED BY <1>1, <1>2, AnalysisInvInductive DEF CallbacksInv

LEMMA SpecCallbacksInv == Spec => []CallbacksInv
<1>1. Init => CallbacksInv
  BY CallbacksInvInductive
<1>2. CallbacksInv /\ [Next]_vars => CallbacksInv'
  BY CallbacksInvInductive
<1> QED BY <1>1, <1>2, PTL DEF Spec

(* A callback pass that saw the abort, wherever it was in its work, has    *)
(* left none of the functions it made.                                     *)
THEOREM AbortLeavesNothing == Spec => []AbortedPassLeavesNothing
<1>1. CallbacksInv => AbortedPassLeavesNothing
  BY DEF CallbacksInv, Ours, AbortedPassLeavesNothing, Made, Passes
<1> QED BY SpecCallbacksInv, <1>1, PTL

(* No pass looks at or makes more than its caps, for any caps and program. *)
THEOREM WorkBounded == Spec => []CallbackWorkBounded
<1>1. CallbacksInv => CallbackWorkBounded
  <2> SUFFICES ASSUME CallbacksInv PROVE CallbackWorkBounded
    OBVIOUS
  <2>1. \A p : {e \in Existing : funcs[e].by = p} = Made(p)
    BY DEF Made
  <2>2. references <= ReferenceLimit
    <3>1. refsLeft \in SUBSET Refs /\ references \in Nat
      BY TypeParts DEF CallbacksInv, AnalysisInv, DiscoveryTypeOK
    <3>2. Cardinality(refsLeft) \in Nat
      BY <3>1, FS_Subset, FS_CardinalityType
    <3> QED BY <3>1, <3>2 DEF CallbacksInv, Capped
  <2> QED BY <2>1, <2>2 DEF CallbackWorkBounded, CallbacksInv, Capped, Ours, Passes
<1> QED BY SpecCallbacksInv, <1>1, PTL

(***************************************************************************)
(* What the later activities do with the metadata.                         *)
(***************************************************************************)

(* Nothing is done on the strength of metadata that was not published.     *)
Published ==
    /\ items # {} => ~md /\ selfTyped = {} /\ \A p \in Passes : Made(p) = {}
    /\ pc \in {"removing", "late"} => md

LEMMA PublishedKept ==
    ASSUME TypeOK, Order, Published, [Next]_vars
    PROVE  Published'
<1>1. ASSUME NEW p \in Passes, AddTarget(p) PROVE Published'
  <2>1. stage = "fresh" /\ pc = p /\ UNCHANGED <<items, pc, md, selfTyped>>
    BY <1>1 DEF AddTarget
  <2>2. items = {}
    BY <2>1 DEF Order, Published, Passes
  <2> QED BY <2>1, <2>2 DEF Published
<1>2. ASSUME UNCHANGED <<items, md, selfTyped>>, pc' \in {"removing", "late"} => md,
             ~\E p \in Passes : AddTarget(p)
      PROVE  Published'
  BY <1>2, MadeShrinks DEF Published
<1>3. ASSUME NEW pass \in Passes, NEW how, Return(pass, how), pc = pass, stage # "none",
             UNCHANGED <<items, selfTyped>>
      PROVE  Published'
  <2>1. items = {}
    BY <1>3 DEF Order, Published, Passes
  <2>2. pc' \notin {"removing", "late"}
    BY <1>3 DEF Return, BeginActivity
  <2> QED BY <1>3, <2>1, <2>2 DEF Published
<1>4. CASE ~\E p \in Passes : AddTarget(p)
  <2>1. CASE \/ Skip("recover", "match") \/ Skip("match", "early")
             \/ Skip("early", "sweep") \/ Skip("cleanup", "done")
             \/ Match \/ StartDiscovery \/ EarlyWithoutMetadata
             \/ Sweep \/ SweepEnds \/ DeleteUnused \/ CleanupStarts \/ RemoveVictim
             \/ CleanupFails \/ Analyst \/ RecoverGivesUp \/ UNCHANGED vars
    <3>1. /\ UNCHANGED <<items, md, selfTyped>>
          /\ pc' \in {"removing", "late"} => md
      BY <2>1 DEF Published, Skip, BeginActivity, Match, StartDiscovery,
           EarlyWithoutMetadata, Sweep, SweepEnds, DeleteUnused, CleanupStarts, RemoveVictim,
           CleanupFails, Analyst, CreateUserFunction, Rename, Edit, Abort, RecoverGivesUp, vars
    <3> QED BY <1>2, <1>4, <3>1
  <2>2. CASE RecoverOne
    <3>1. items' \subseteq items /\ UNCHANGED <<md, selfTyped, pc>>
      BY <2>2, SinkSteps
    <3> QED BY <1>4, <3>1, MadeShrinks DEF Published
  <2>3. CASE Publish
    BY <2>3 DEF Publish, BeginActivity, Published
  <2>4. CASE TypeSelf
    <3>1. items = {} /\ items' = items /\ md' = md /\ md
      BY <2>4 DEF TypeSelf, Published
    <3> QED BY <3>1 DEF Published
  <2>5. ASSUME NEW pass \in Passes, ScanCallee(pass) \/ ScanRef(pass) \/ AbortSeen(pass),
               ~Return(pass, "aborted")
        PROVE  Published'
    <3>1. UNCHANGED <<items, md, selfTyped, pc>>
      BY <2>5 DEF ScanCallee, ScanEnds, ScanRef, AbortSeen
    <3> QED BY <1>2, <1>4, <3>1 DEF Published
  <2>6. ASSUME NEW pass \in Passes, ScanCallee(pass) \/ ScanRef(pass), Return(pass, "aborted")
        PROVE  Published'
    BY <1>3, <2>6 DEF ScanCallee, ScanRef
  <2>7. ASSUME NEW pass \in Passes, AllAdded(pass) \/ DiscoveryFails(pass) PROVE Published'
    BY <1>3, <2>7 DEF AllAdded, DiscoveryFails
  <2>8. ASSUME NEW pass \in Passes, RollBack(pass) PROVE Published'
    <3>1. CASE created = <<>>
      BY <1>3, <2>8, <3>1 DEF RollBack
    <3>2. CASE created # <<>>
      <4>1. UNCHANGED <<items, md, selfTyped, pc>>
        BY <2>8, <3>2 DEF RollBack
      <4> QED BY <1>2, <1>4, <4>1 DEF Published
    <3> QED BY <3>1, <3>2
  <2>9. ASSUME NEW pass \in Passes, LookAgain(pass) \/ AbortSeen(pass) PROVE Published'
    <3>1. UNCHANGED <<items, md, selfTyped, pc>>
      BY <2>9 DEF LookAgain, AbortSeen
    <3> QED BY <1>2, <1>4, <3>1 DEF Published
  <2> QED BY <1>4, <2>1, <2>2, <2>3, <2>4, <2>5, <2>6, <2>7, <2>8, <2>9
             DEF Next, Analysis, Failure, Cleanup, Discover, Passes
<1> QED BY <1>1, <1>4

(* A recovery that did not finish is not acted upon by any later activity. *)
THEOREM HalfUnused == Spec => []HalfRecoveryUnused
<1>1. Init => AnalysisInv /\ Published
  <2>1. CoreFunction.by = "core"
    BY DEF CoreFunction, AutoFunction
  <2>2. Init => \A p \in Passes : Made(p) = {}
    BY <2>1 DEF Init, Made, Existing, Passes
  <2> QED BY <2>2, AnalysisInvInductive DEF Init, Published
<1>2. AnalysisInv /\ Published /\ [Next]_vars => AnalysisInv' /\ Published'
  BY AnalysisInvInductive, PublishedKept DEF AnalysisInv
<1>3. AnalysisInv /\ Published => HalfRecoveryUnused
  BY DEF AnalysisInv, Order, Published, HalfRecoveryUnused, Made, Passes
<1> QED BY <1>1, <1>2, <1>3, PTL DEF Spec

(* The automatic functions over the tables, which cleanup removes: all of  *)
(* them are on its list, and once it is through there are none but those   *)
(* the last pass has made.                                                 *)
OverMeta == Overlapping \ UserFunctions

Cleared ==
    /\ pc = "removing" => OverMeta \subseteq victims
    /\ (pc = "late" \/ outcome.late \in {"created", "aborted"}) =>
           \A e \in OverMeta : funcs[e].by = "late" /\ e \notin Meta
    /\ outcome.late # "none" => pc = "done"

(* The analyst puts no automatic function where there was none, and makes  *)
(* none of another maker's.                                                *)
LEMMA EditOverMeta ==
    ASSUME TypeOK, Analyst
    PROVE  /\ OverMeta' \subseteq OverMeta
           /\ \A e \in OverMeta' : funcs'[e].by = funcs[e].by
<1>0. FuncsTypeOK
  BY TypeParts
<1>1. ASSUME NEW d \in Entries, CreateUserFunction(d) \/ Rename(d)
      PROVE  /\ OverMeta' \subseteq OverMeta
             /\ \A e \in OverMeta' : funcs'[e].by = funcs[e].by
  <2>1. PICK f \in Function :
              /\ Edit(d, f)
              /\ d \in UserFunctions => ~f.auto
              /\ d \in Existing => f.by = funcs[d].by
              /\ d \notin Existing => ~f.auto
    BY <1>0, <1>1, EditedFacts
  <2>2. \A e \in Entries : funcs'[e] = IF e = d THEN f ELSE funcs[e]
    BY <1>0, <2>1 DEF Edit, FuncsTypeOK
  <2> QED BY <2>1, <2>2 DEF OverMeta, Overlapping, UserFunctions, Existing
<1>2. CASE Abort
  BY <1>2 DEF Abort, OverMeta, Overlapping, UserFunctions, Existing
<1> QED BY <1>1, <1>2 DEF Analyst

LEMMA ClearedKept ==
    ASSUME TypeOK, Order, Once, Cleared, [Next]_vars
    PROVE  Cleared'
<1>0. /\ FuncsTypeOK /\ ThreadTypeOK /\ DiscoveryTypeOK /\ RestTypeOK
      /\ outcome \in [Passes -> Outcomes]
  BY TypeParts DEF DiscoveryTypeOK
<1>1. ASSUME UNCHANGED <<pc, outcome, victims>>, OverMeta' \subseteq OverMeta,
             \A e \in OverMeta' : funcs'[e].by = funcs[e].by
      PROVE  Cleared'
  BY <1>1 DEF Cleared
<1>2. ASSUME pc \notin {"late", "done"}, pc' \notin {"removing", "late"}, UNCHANGED outcome
      PROVE  Cleared'
  BY <1>2 DEF Cleared, Once
<1>3. ASSUME UNCHANGED <<pc, outcome>>, pc \notin {"removing", "late", "done"} PROVE Cleared'
  BY <1>3 DEF Cleared, Once
<1>4. ASSUME NEW pass \in Passes, NEW how \in Outcomes,
             pc = pass, Return(pass, how), UNCHANGED funcs
      PROVE  Cleared'
  <2>1. OverMeta' = OverMeta
    BY <1>4 DEF OverMeta, Overlapping, UserFunctions, Existing
  <2>2. CASE pass = "early"
    BY <1>0, <1>4, <2>2 DEF Return, BeginActivity, Cleared, Once, Passes
  <2>3. CASE pass = "late"
    <3>1. \A e \in OverMeta' : funcs'[e].by = "late" /\ e \notin Meta
      BY <1>4, <2>1, <2>3 DEF Cleared
    <3>2. pc' = "done"
      BY <1>4, <2>3 DEF Return
    <3> QED BY <3>1, <3>2 DEF Cleared
  <2> QED BY <2>2, <2>3 DEF Passes
<1>5. CASE \/ Skip("recover", "match") \/ Skip("match", "early")
           \/ Skip("early", "sweep") \/ Skip("cleanup", "done")
           \/ Publish \/ RecoverGivesUp \/ Match \/ EarlyWithoutMetadata
           \/ SweepEnds \/ DeleteUnused
  <2>1. /\ pc \notin {"late", "done"} /\ pc' \notin {"removing", "late"}
        /\ UNCHANGED outcome
    BY <1>5 DEF Skip, Publish, RecoverGivesUp, Match, EarlyWithoutMetadata, SweepEnds,
                DeleteUnused, BeginActivity, discovery
  <2> QED BY <1>2, <2>1
<1>6. CASE RecoverOne \/ Sweep
  <2>1. UNCHANGED <<pc, outcome>> /\ pc \notin {"removing", "late", "done"}
    BY <1>6, SinkSteps DEF Sweep, discovery
  <2> QED BY <1>3, <2>1
<1>7. ASSUME UNCHANGED <<funcs, pc, outcome, victims>> PROVE Cleared'
  BY <1>7 DEF Cleared, OverMeta, Overlapping, UserFunctions, Existing
<1>8. CASE StartDiscovery \/ UNCHANGED vars
  BY <1>7, <1>8 DEF StartDiscovery, vars, discovery
<1>9. CASE Analyst
  <2>1. UNCHANGED <<pc, outcome, victims>>
    BY <1>9 DEF Analyst, CreateUserFunction, Rename, Edit, Abort, discovery
  <2> QED BY <1>1, <1>9, <2>1, EditOverMeta
<1>10. CASE CleanupStarts
  <2>1. CASE ~md
    <3>1. pc = "cleanup" /\ pc' = "done" /\ UNCHANGED outcome
      BY <1>10, <2>1 DEF CleanupStarts, discovery
    <3> QED BY <1>2, <3>1
  <2>2. CASE md
    <3>1. /\ pc = "cleanup" /\ pc' = "removing" /\ victims' = OverMeta
          /\ UNCHANGED <<outcome, funcs>>
      BY <1>10, <2>2, ListedVictims DEF CleanupStarts, discovery, OverMeta
    <3>2. OverMeta' = OverMeta
      BY <3>1 DEF OverMeta, Overlapping, UserFunctions, Existing
    <3> QED BY <3>1, <3>2 DEF Cleared, Once
  <2> QED BY <2>1, <2>2
<1>11. CASE RemoveVictim
  <2>1. PICK d \in victims : /\ funcs' = [funcs EXCEPT ![d] = NoFunc]
                             /\ victims' = victims \ {d}
    BY <1>11 DEF RemoveVictim
  <2>2. d \in Entries
    BY <1>0 DEF RestTypeOK
  <2>3. \A e \in Entries : funcs'[e] = IF e = d THEN NoFunc ELSE funcs[e]
    BY <1>0, <2>1, <2>2 DEF FuncsTypeOK
  <2>4. OverMeta' \subseteq OverMeta \ {d}
    BY <2>3 DEF OverMeta, Overlapping, UserFunctions, Existing
  <2>5. pc = "removing" /\ UNCHANGED <<pc, outcome>>
    BY <1>11 DEF RemoveVictim, discovery
  <2> QED BY <2>1, <2>4, <2>5 DEF Cleared, Once
<1>12. CASE TypeSelf
  <2>1. /\ pc = "removing" /\ pc' = "late" /\ victims = {}
        /\ UNCHANGED <<funcs, outcome>>
    BY <1>12 DEF TypeSelf, discovery
  <2>2. OverMeta' = OverMeta
    BY <2>1 DEF OverMeta, Overlapping, UserFunctions, Existing
  <2> QED BY <2>1, <2>2 DEF Cleared, Once
<1>13. CASE CleanupFails
  <2>1. pc = "removing" /\ pc' = "done" /\ UNCHANGED outcome
    BY <1>13 DEF CleanupFails, discovery
  <2> QED BY <1>2, <2>1
<1>14. ASSUME NEW pass \in Passes, Discover(pass) \/ DiscoveryFails(pass)
       PROVE  Cleared'
  <2>1. CASE (ScanCallee(pass) \/ ScanRef(pass)) /\ Return(pass, "aborted")
    BY <1>4, <2>1 DEF ScanCallee, ScanRef, Outcomes
  <2>2. CASE (ScanCallee(pass) \/ ScanRef(pass)) /\ ~Return(pass, "aborted")
    <3>1. UNCHANGED <<funcs, pc, outcome, victims>>
      BY <2>2 DEF ScanCallee, ScanEnds, ScanRef
    <3> QED BY <1>7, <3>1
  <2>3. CASE LookAgain(pass) \/ AbortSeen(pass)
    BY <1>7, <2>3 DEF LookAgain, AbortSeen
  <2>4. CASE AllAdded(pass) \/ DiscoveryFails(pass)
    BY <1>4, <2>4 DEF AllAdded, DiscoveryFails, Outcomes
  <2>5. CASE RollBack(pass)
    <3>1. CASE created = <<>>
      BY <1>4, <2>5, <3>1 DEF RollBack, Outcomes
    <3>2. CASE created # <<>>
      <4> DEFINE last == created[Len(created)]
      <4>1. last \in Entries
        BY <1>0, <3>2 DEF DiscoveryTypeOK
      <4>2. /\ funcs' = [funcs EXCEPT ![last] = NoFunc]
            /\ UNCHANGED <<pc, outcome, victims>>
        BY <2>5, <3>2 DEF RollBack
      <4>3. \A e \in Entries : funcs'[e] = IF e = last THEN NoFunc ELSE funcs[e]
        BY <1>0, <4>1, <4>2 DEF FuncsTypeOK
      <4>4. /\ OverMeta' \subseteq OverMeta
            /\ \A e \in OverMeta' : funcs'[e].by = funcs[e].by
        BY <4>3 DEF OverMeta, Overlapping, UserFunctions, Existing
      <4> QED BY <1>1, <4>2, <4>4
    <3> QED BY <3>1, <3>2
  <2>6. CASE AddTarget(pass)
    <3>1. PICK t \in candidates :
            \/ funcs' = [funcs EXCEPT ![t] = AutoFunction(pass)]
            \/ UNCHANGED funcs
      <4>1. PICK t \in candidates :
              funcs' = [funcs EXCEPT ![t] = Added(t, pass)] \/ UNCHANGED funcs
        BY <2>6 DEF AddTarget
      <4>2. t \in Entries /\ pass \in Makers
        BY <1>0 DEF DiscoveryTypeOK, Passes, Makers
      <4> QED BY <1>0, <4>1, <4>2, AddedFacts
    <3>2. pc = pass /\ UNCHANGED <<pc, outcome, victims>>
      BY <2>6 DEF AddTarget
    <3>3. CASE UNCHANGED funcs
      BY <1>7, <3>2, <3>3
    <3>4. CASE pass = "early"
      BY <1>3, <3>2, <3>4
    <3>5. CASE pass = "late" /\ funcs' = [funcs EXCEPT ![t] = AutoFunction(pass)]
      <4>1. t \in Entries /\ t \notin Meta
        BY <1>0 DEF DiscoveryTypeOK
      <4>2. \A e \in Entries : funcs'[e] = IF e = t THEN AutoFunction("late") ELSE funcs[e]
        BY <1>0, <3>5, <4>1 DEF FuncsTypeOK
      <4>3. AutoFunction("late").by = "late"
        BY DEF AutoFunction
      <4>4. OverMeta' \subseteq OverMeta \cup {t}
        BY <4>2 DEF OverMeta, Overlapping, UserFunctions, Existing
      <4>5. \A e \in OverMeta' : e \in Entries
        BY DEF OverMeta, Overlapping, Existing
      <4> QED BY <3>2, <3>5, <4>1, <4>2, <4>3, <4>4, <4>5 DEF Cleared, Once
    <3> QED BY <3>1, <3>3, <3>4, <3>5 DEF Passes
  <2> QED BY <1>14, <2>1, <2>2, <2>3, <2>4, <2>5, <2>6 DEF Discover
<1> QED BY <1>5, <1>6, <1>8, <1>9, <1>10, <1>11, <1>12, <1>13, <1>14
           DEF Next, Analysis, Failure, Cleanup, Passes

(* After the cleanup no automatic function is left over a metadata table,  *)
(* but for a callback created afterwards that runs into one from outside:  *)
(* no edit of the analyst meanwhile, and no pass, puts one back.           *)
THEOREM TablesCleared == Spec => []MetadataCleared
<1> DEFINE Inv == AnalysisInv /\ Once /\ Cleared
<1>1. Init => Inv
  BY AnalysisInvInductive DEF Init, Once, Cleared, Passes
<1>2. Inv /\ [Next]_vars => Inv'
  BY AnalysisInvInductive, OnceKept, ClearedKept DEF AnalysisInv
<1>3. Inv => MetadataCleared
  BY DEF Cleared, MetadataCleared, OverMeta
<1> QED BY <1>1, <1>2, <1>3, PTL DEF Spec
=============================================================================
