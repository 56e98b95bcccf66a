--------------------------- MODULE BuildContract ---------------------------
(***************************************************************************)
(* What the reproducible builds promise: a library that passes for current *)
(* holds what the present code builds from the pinned input, and the       *)
(* builder only ever adds such libraries.  What happens to the builder and *)
(* to its files is an Upset.                                               *)
(***************************************************************************)
EXTENDS Integers

CONSTANTS Tags, ToolFiles, Versions, Pinned, Absent, MaxUpsets

VARIABLES
    code,       \* the builder's source files
    served,     \* per tag, the library that passes for current
    upsets

vars == <<code, served, upsets>>

Codes == [ToolFiles -> Versions]
Made(input, by) == [input |-> input, by |-> by]

Init ==
    /\ code \in Codes
    /\ served = [t \in Tags |-> Absent]
    /\ upsets = 0

Publish(t) ==
    /\ served[t] = Absent
    /\ served' = [served EXCEPT ![t] = Made(Pinned, code)]
    /\ UNCHANGED <<code, upsets>>

\* An edit may bring back what an earlier version of the code had built.
Upset ==
    /\ upsets < MaxUpsets
    /\ upsets' = upsets + 1
    /\ code' \in Codes
    /\ served' \in [Tags -> {Absent, Made(Pinned, code')}]
    /\ code' = code => \A t \in Tags : served'[t] \in {Absent, served[t]}

Next == Upset \/ \E t \in Tags : Publish(t)

Spec == Init /\ [][Next]_vars
=============================================================================
