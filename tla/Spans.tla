--------------------------------- MODULE Spans ---------------------------------
(***************************************************************************)
(* Address ranges, and the two indexes the plugin keeps of them:         *)
(* undefine_functions asks which functions a range overlaps                *)
(* (rtti/apply.py), discover_callbacks whether an address lies in one      *)
(* (integration/workflow.py).  `ranges` is the list as sorted() left it,   *)
(* of half open ranges [start, end) that may be empty and may overlap.     *)
(***************************************************************************)
EXTENDS Naturals, Sequences

AddressRange == [start : Nat, end : Nat]

Sorted(ranges) ==
    \A i, j \in 1 .. Len(ranges) : i < j => ranges[i].start <= ranges[j].start

Greater(a, b) == IF a < b THEN b ELSE a

(* bisect.bisect_left and bisect_right: how many start before the address, *)
(* and how many before it or at it.                                        *)
StartingBefore(ranges, addr) ==
    CHOOSE k \in 0 .. Len(ranges) :
        /\ \A i \in 1 .. k : ranges[i].start < addr
        /\ \A i \in k + 1 .. Len(ranges) : addr <= ranges[i].start

StartingBy(ranges, addr) == StartingBefore(ranges, addr + 1)
-----------------------------------------------------------------------------
(* _range_index: the furthest that any of the first k ranges reaches.      *)
Reach(ranges) ==
    LET reach[k \in 0 .. Len(ranges)] ==
            IF k = 0 THEN 0 ELSE Greater(reach[k - 1], ranges[k].end)
    IN reach

(* Only the last of the ranges that begin before the end is looked at.     *)
OverlapsLast(ranges, lo, hi) ==
    LET k == StartingBefore(ranges, hi)
    IN k > 0 /\ ranges[k].end > lo

(* _overlaps.                                                              *)
Overlaps(ranges, lo, hi) ==
    LET k == StartingBefore(ranges, hi)
    IN k > 0 /\ Reach(ranges)[k] > lo
-----------------------------------------------------------------------------
(* _merged_spans: one more range, not starting before those merged so far. *)
MergedWith(merged, r) ==
    IF r.end <= r.start THEN merged
    ELSE IF merged # <<>> /\ r.start <= merged[Len(merged)].end
    THEN [merged EXCEPT ![Len(merged)].end = Greater(@, r.end)]
    ELSE Append(merged, r)

Merged(ranges) ==
    LET upTo[k \in 0 .. Len(ranges)] ==
            IF k = 0 THEN <<>> ELSE MergedWith(upTo[k - 1], ranges[k])
    IN upTo[Len(ranges)]

(* _in_spans: the last merged range that begins by the address.            *)
InSpans(addr, merged) ==
    LET k == StartingBy(merged, addr)
    IN k > 0 /\ addr < merged[k].end
=============================================================================
