-------------------------- MODULE MCScanTransaction --------------------------
(***************************************************************************)
(* Two ranges.  The class record of the first reaches over a constant of   *)
(* the second; another constant overlaps nothing.                          *)
(***************************************************************************)
EXTENDS ScanTransaction

MCRecords ==
    {[kind |-> "vmt", range |-> "a", covers |-> {1, 2, 5}],
     [kind |-> "typeinfo", range |-> "a", covers |-> {3}],
     [kind |-> "vmt", range |-> "b", covers |-> {8}],
     [kind |-> "typeinfo", range |-> "b", covers |-> {9}],
     [kind |-> "string", range |-> "b", covers |-> {4}],
     [kind |-> "char", range |-> "b", covers |-> {5}],
     [kind |-> "char", range |-> "b", covers |-> {4, 6}],
     [kind |-> "char", range |-> "a", covers |-> {7}]}

MCRequests ==
    [ranges : {{"a"}, {"a", "b"}, {"b"}}, dfm : BOOLEAN]
=============================================================================
