-------------------------------- MODULE Lists --------------------------------
(***************************************************************************)
(* Python's list comprehensions, written with a recursive function so that *)
(* proofs can unfold it (ListsProofs).                                     *)
(***************************************************************************)
EXTENDS Naturals, Sequences

(* [x for list in lists for x in list]                                     *)
Joined(lists) ==
    LET upTo[n \in 0 .. Len(lists)] ==
            IF n = 0 THEN <<>> ELSE upTo[n - 1] \o lists[n]
    IN upTo[Len(lists)]

(* [x for x in list if x in keep]                                          *)
Kept(list, keep) ==
    Joined([i \in 1 .. Len(list) |-> IF list[i] \in keep THEN <<list[i]>> ELSE <<>>])
=============================================================================
