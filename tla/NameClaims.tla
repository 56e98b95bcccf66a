------------------------------ MODULE NameClaims ------------------------------
(***************************************************************************)
(* The NameClaims table of rtti/apply.py: which class owns a code address  *)
(* that several classes' tables hold.  One entry per address summarises    *)
(* every claim made about it; claim() updates the entry, resolved() walks  *)
(* the table in address order and yields the entries that are not tied.    *)
(*                                                                         *)
(* `heard` is not in the code: it records the claims made, so that the     *)
(* table can be compared with what it is supposed to summarise.            *)
(***************************************************************************)
EXTENDS Naturals

CONSTANTS
    Addrs,     \* the code addresses the program's tables can hold
    Claims,    \* the calls of claim() that can be made: records with fields
               \* addr, name, depth, owner, register_cc and kind
    NoClaim    \* an address self.claims has no entry for

(* What self.claims[addr] holds. The tuple's last three fields (owner,     *)
(* register_cc, kind) are those of the claim it was built from, `of`.      *)
Entry(c, tied) == [name |-> c.name, depth |-> c.depth, tied |-> tied, of |-> c]

Entries == {Entry(c, t) : c \in Claims, t \in BOOLEAN}

ASSUME NamingAssumption ==
    /\ Addrs \subseteq Nat \ {0}
    /\ \A c \in Claims : c.addr \in Addrs \cup {0} /\ c.depth \in Nat
    /\ NoClaim \notin Entries

VARIABLES
    claims,    \* self.claims: [Addrs -> an entry or NoClaim]
    heard,     \* every claim made so far about a real address
    phase,     \* "claiming" until resolved() is first advanced
    left,      \* the addresses resolved() has still to visit
    yields,    \* the claims behind the entries resolved() yielded
    conflicts  \* self.conflicts

tableVars == <<claims, heard, phase, left, yields, conflicts>>
-----------------------------------------------------------------------------
(* Plausible mistakes in claim(): the last claim at a depth wins, a tie    *)
(* survives a shallower claim, the first claim wins outright.              *)
EntryAfterLastWins(best, c) ==
    IF best # NoClaim /\ c.depth > best.depth THEN best ELSE Entry(c, FALSE)

EntryAfterTieSticks(best, c) ==
    IF best = NoClaim THEN Entry(c, FALSE)
    ELSE IF c.depth < best.depth THEN Entry(c, best.tied)
    ELSE IF c.depth = best.depth /\ c.name # best.name
         THEN Entry(best.of, TRUE)
    ELSE best

EntryAfterFirstWins(best, c) == IF best = NoClaim THEN Entry(c, FALSE) ELSE best

(* The entry for c.addr once claim(c) returns, `best` being the one there. *)
EntryAfter(best, c) ==
    IF best = NoClaim THEN Entry(c, FALSE)
    ELSE IF c.depth < best.depth THEN Entry(c, FALSE)
    ELSE IF c.depth = best.depth /\ c.name # best.name
         THEN Entry(best.of, TRUE)
    ELSE best
-----------------------------------------------------------------------------
TableInit ==
    /\ claims = [a \in Addrs |-> NoClaim]
    /\ heard = {}
    /\ phase = "claiming"
    /\ left = {}
    /\ yields = {}
    /\ conflicts = 0

(* claim(): a slot holding no address claims nothing.                      *)
Claim(c) ==
    /\ phase = "claiming"
    /\ IF c.addr = 0
       THEN UNCHANGED <<claims, heard>>
       ELSE /\ claims' = [claims EXCEPT ![c.addr] = EntryAfter(@, c)]
            /\ heard' = heard \cup {c}
    /\ UNCHANGED <<phase, left, yields, conflicts>>

(* resolved() sorts the items once, when the generator is first advanced.  *)
StartResolving ==
    /\ phase = "claiming"
    /\ phase' = "resolving"
    /\ left' = {a \in Addrs : claims[a] # NoClaim}
    /\ UNCHANGED <<claims, heard, yields, conflicts>>

(* A tie counted but yielded all the same.                                 *)
ResolveTiedToo(a) ==
    /\ phase = "resolving"
    /\ a \in left
    /\ \A b \in left : a <= b
    /\ left' = left \ {a}
    /\ yields' = yields \cup {claims[a].of}
    /\ conflicts' = conflicts + (IF claims[a].tied THEN 1 ELSE 0)
    /\ UNCHANGED <<claims, heard, phase>>

(* One turn of the generator's loop.                                       *)
Resolve(a) ==
    /\ phase = "resolving"
    /\ a \in left
    /\ \A b \in left : a <= b
    /\ left' = left \ {a}
    /\ IF claims[a].tied
       THEN conflicts' = conflicts + 1 /\ UNCHANGED yields
       ELSE yields' = yields \cup {claims[a].of} /\ UNCHANGED conflicts
    /\ UNCHANGED <<claims, heard, phase>>

TableNext ==
    \/ \E c \in Claims : Claim(c)
    \/ StartResolving
    \/ \E a \in Addrs : Resolve(a)

TableSpec == TableInit /\ [][TableNext]_tableVars
-----------------------------------------------------------------------------
HeardAt(a) == {c \in heard : c.addr = a}

(* Each entry is exactly what remembering every claim would say: none was  *)
(* shallower, it is one of them, and it is tied when two claims at its     *)
(* depth disagree about the name -- whatever order they came in.           *)
TableSummarisesClaims ==
    \A a \in Addrs :
        IF claims[a] = NoClaim THEN HeardAt(a) = {}
        ELSE LET e == claims[a]
                 atDepth == {c \in HeardAt(a) : c.depth = e.depth}
             IN /\ \A c \in HeardAt(a) : e.depth <= c.depth
                /\ e.of \in atDepth
                /\ e.name = e.of.name
                /\ e.tied <=> \E c, d \in atDepth : c.name # d.name

TableTypeOK ==
    /\ heard \subseteq {c \in Claims : c.addr # 0}
    /\ claims \in [Addrs -> {NoClaim} \cup Entries]
    /\ phase \in {"claiming", "resolving"}
    /\ left \subseteq {a \in Addrs : claims[a] # NoClaim}
    /\ yields \subseteq heard
    /\ conflicts \in Nat

(* The table implements the memory it stands for: a run of claim() and     *)
(* resolved() names, drops and counts what NameResolution would.           *)
Memory ==
    INSTANCE NameResolution WITH
        heard <- heard, phase <- phase, left <- left, yields <- yields,
        conflicts <- conflicts

ImplementsNameResolution == Memory!Spec
=============================================================================
