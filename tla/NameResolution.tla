---------------------------- MODULE NameResolution ----------------------------
(***************************************************************************)
(* What the naming of shared code addresses promises, with no table: it    *)
(* remembers every claim it was told and, address by address in ascending  *)
(* order, either gives the address the name its shallowest claims agree on *)
(* or drops it because they do not.                                        *)
(*                                                                         *)
(* The README (step 6) and the docstring of rtti/apply.py's NameClaims     *)
(* state this: the shallowest class in the hierarchy is credited, and a    *)
(* genuine tie is left alone rather than guessed at.                       *)
(***************************************************************************)
EXTENDS Naturals

CONSTANTS
    Addrs,     \* the code addresses a claim can be about; 0 is no address
    Claims     \* the claims that can be made: records with the fields
               \* addr, name, depth, owner, register_cc and kind

VARIABLES
    heard,     \* every claim made so far about a real address
    phase,     \* "claiming" while claims arrive, then "resolving"
    left,      \* the claimed addresses not settled yet
    yields,    \* the claims that won, one per named address
    conflicts  \* how many addresses were dropped

vars == <<heard, phase, left, yields, conflicts>>

HeardAt(a) == {c \in heard : c.addr = a}

(* The claims about `a` that no other claim about `a` is shallower than.   *)
Shallowest(a) == {c \in HeardAt(a) : \A d \in HeardAt(a) : c.depth <= d.depth}

Agreed(a) == \A c, d \in Shallowest(a) : c.name = d.name

Init ==
    /\ heard = {}
    /\ phase = "claiming"
    /\ left = {}
    /\ yields = {}
    /\ conflicts = 0

Hear(c) ==
    /\ phase = "claiming"
    /\ heard' = IF c.addr = 0 THEN heard ELSE heard \cup {c}
    /\ UNCHANGED <<phase, left, yields, conflicts>>

StartResolving ==
    /\ phase = "claiming"
    /\ phase' = "resolving"
    /\ left' = {c.addr : c \in heard}
    /\ UNCHANGED <<heard, yields, conflicts>>

(* Any of the shallowest claims may stand for the rest: only its name is   *)
(* promised, not which class or which table put it forward first.          *)
Name(a) ==
    /\ Agreed(a)
    /\ \E c \in Shallowest(a) : yields' = yields \cup {c}
    /\ UNCHANGED conflicts

Drop(a) ==
    /\ ~Agreed(a)
    /\ conflicts' = conflicts + 1
    /\ UNCHANGED yields

Settle(a) ==
    /\ phase = "resolving"
    /\ a \in left
    /\ \A b \in left : a <= b
    /\ left' = left \ {a}
    /\ Name(a) \/ Drop(a)
    /\ UNCHANGED <<heard, phase>>

Next ==
    \/ \E c \in Claims : Hear(c)
    \/ StartResolving
    \/ \E a \in Addrs : Settle(a)

Spec == Init /\ [][Next]_vars
=============================================================================
