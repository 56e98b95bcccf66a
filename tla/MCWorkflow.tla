------------------------------ MODULE MCWorkflow ------------------------------
(***************************************************************************)
(* Four functions and three metadata ranges: a long one that reaches past  *)
(* a short one beginning later, and an empty one on the seam of the        *)
(* function at 30.  The function at 10 has its tail in the long range, the *)
(* one at 20 lies in it, the one at 30 contains 10 and 40.                 *)
(***************************************************************************)
EXTENDS Workflow, TLC

Half(start, end) == [start |-> start, end |-> end]

MCRanges ==
    (10 :> {Half(10, 15), Half(20, 24)}) @@ (20 :> {Half(20, 25)}) @@
    (30 :> {Half(10, 12), Half(30, 38), Half(40, 44)}) @@ (40 :> {Half(40, 44)})

MCMetadata == <<Half(18, 26), Half(19, 20), Half(30, 30)>>

MCRefs ==
    {[caller |-> 10, callee |-> 10, target |-> 20],
     [caller |-> 40, callee |-> 10, target |-> 99],
     [caller |-> 30, callee |-> 30, target |-> 10],
     [caller |-> 30, callee |-> 30, target |-> 40]}
=============================================================================
