----------------------------- MODULE NamingProofs -----------------------------
(***************************************************************************)
(* Proofs about the names functions are given.  NameClaims, for any        *)
(* addresses and any claims, in any order: the table summarises the claims *)
(* it was given, and what it resolves is what NameResolution promises.     *)
(* Naming, for any programs whose tables are well formed, in whatever      *)
(* order their classes and table entries come.                             *)
(***************************************************************************)
EXTENDS Naming, ListsProofs

USE NamingAssumption

(* The entry claim() leaves behind is an entry again.                      *)
LEMMA EntryAfterType ==
    ASSUME NEW c \in Claims, NEW best \in {NoClaim} \cup Entries
    PROVE  EntryAfter(best, c) \in Entries
<1>1. \A d \in Claims, t \in BOOLEAN : Entry(d, t) \in Entries
  BY DEF Entries
<1>2. CASE best = NoClaim
  BY <1>1, <1>2 DEF EntryAfter
<1>3. CASE best \in Entries
  <2>1. best.of \in Claims
    BY <1>3 DEF Entries, Entry
  <2> QED BY <1>1, <1>3, <2>1 DEF EntryAfter
<1> QED BY <1>2, <1>3

(* An entry is never the mark for no entry, and its name and depth are     *)
(* those of the claim it was built from.                                   *)
LEMMA EntryFacts ==
    ASSUME NEW e \in Entries
    PROVE  /\ e # NoClaim
           /\ e.of \in Claims
           /\ e.name = e.of.name
           /\ e.depth = e.of.depth
           /\ e.depth \in Nat
           /\ e.tied \in BOOLEAN
<1>1. PICK c \in Claims, t \in BOOLEAN : e = Entry(c, t)
  BY DEF Entries
<1> QED BY <1>1 DEF Entry

(***************************************************************************)
(* TableTypeOK is inductive.                                               *)
(***************************************************************************)
LEMMA InitType == TableInit => TableTypeOK
BY DEF TableInit, TableTypeOK

(* claim() leaves every part of the table well typed.                      *)
LEMMA ClaimType ==
    ASSUME TableTypeOK, NEW c \in Claims, Claim(c)
    PROVE  TableTypeOK'
<1>1. CASE c.addr = 0
  BY <1>1 DEF TableTypeOK, Claim
<1>2. CASE c.addr # 0
  <2>1. c.addr \in Addrs
    BY <1>2
  <2>2. claims \in [Addrs -> {NoClaim} \cup Entries]
    BY DEF TableTypeOK, Entries
  <2>3. claims' = [claims EXCEPT ![c.addr] = EntryAfter(claims[c.addr], c)]
    BY <1>2 DEF Claim
  <2>4. EntryAfter(claims[c.addr], c) \in Entries
    BY <2>1, <2>2, EntryAfterType
  <2>5. claims' \in [Addrs -> {NoClaim} \cup Entries]
    BY <2>1, <2>2, <2>3, <2>4
  <2>6. \A a \in Addrs : claims[a] # NoClaim => claims'[a] # NoClaim
    BY <2>1, <2>2, <2>3, <2>4, EntryFacts
  <2>7. heard' = heard \cup {c} /\ UNCHANGED <<phase, left, yields, conflicts>>
    BY <1>2 DEF Claim
  <2> QED BY <1>2, <2>5, <2>6, <2>7 DEF TableTypeOK, Entries
<1> QED BY <1>1, <1>2

(* So does a turn of resolved(), which yields a claim that was made.       *)
LEMMA ResolveType ==
    ASSUME TableTypeOK, NEW a \in Addrs, Resolve(a), TableSummarisesClaims
    PROVE  TableTypeOK'
<1>1. claims[a] \in Entries /\ claims[a] # NoClaim
  BY EntryFacts DEF TableTypeOK, Resolve
<1>2. claims[a].of \in heard
  BY <1>1 DEF TableSummarisesClaims, HeardAt
<1>3. yields' \subseteq heard /\ conflicts' \in Nat
  BY <1>2 DEF TableTypeOK, Resolve
<1> QED BY <1>3 DEF TableTypeOK, Resolve

(***************************************************************************)
(* TableSummarisesClaims holds after every claim.  Only the claimed        *)
(* address can change; there the cases of EntryAfter are taken in turn.    *)
(***************************************************************************)
LEMMA ClaimSummary ==
    ASSUME TableTypeOK, TableSummarisesClaims, NEW c \in Claims, Claim(c)
    PROVE  TableSummarisesClaims'
<1> DEFINE Good(a, best, told) ==
      IF best = NoClaim THEN told = {}
      ELSE LET atDepth == {x \in told : x.depth = best.depth}
           IN /\ \A x \in told : best.depth <= x.depth
              /\ best.of \in atDepth
              /\ best.name = best.of.name
              /\ best.tied <=> \E x, y \in atDepth : x.name # y.name
<1>1. CASE c.addr = 0
  BY <1>1 DEF Claim, TableSummarisesClaims, HeardAt
<1>2. CASE c.addr # 0
  <2>1. c.addr \in Addrs
    BY <1>2
  <2>2. claims \in [Addrs -> {NoClaim} \cup Entries]
    BY DEF TableTypeOK
  <2> DEFINE best == claims[c.addr]
             told == HeardAt(c.addr)
             next == EntryAfter(best, c)
  <2>3. claims' = [claims EXCEPT ![c.addr] = next] /\ heard' = heard \cup {c}
    BY <1>2 DEF Claim
  <2>4. HeardAt(c.addr)' = told \cup {c}
    BY <2>3 DEF HeardAt
  <2>5. \A x \in told : x \in Claims /\ x.depth \in Nat
    BY DEF HeardAt, TableTypeOK
  <2>6. next \in Entries
    BY <2>1, <2>2, EntryAfterType
  <2>7. Good(c.addr, best, told)
    BY <2>1 DEF TableSummarisesClaims
  <2>8. Good(c.addr, next, told \cup {c})
    <3> HIDE DEF told
    <3>a. next # NoClaim /\ c.depth \in Nat
      BY <2>6, EntryFacts
    <3>1. CASE best = NoClaim
      BY <2>7, <3>1, <3>a DEF EntryAfter, Entry
    <3>2. CASE best # NoClaim
      <4>1. best \in Entries /\ best.depth \in Nat /\ best.name = best.of.name
            /\ best.depth = best.of.depth /\ best.of \in Claims
        BY <2>1, <2>2, <3>2, EntryFacts
      <4>2. CASE c.depth < best.depth
        <5>1. next = Entry(c, FALSE)
          BY <3>2, <4>2 DEF EntryAfter
        <5>2. \A x \in told : c.depth < x.depth
          BY <2>5, <2>7, <3>2, <3>a, <4>1, <4>2
        <5>3. {x \in told \cup {c} : x.depth = c.depth} = {c}
          BY <2>5, <3>a, <5>2
        <5> QED BY <2>5, <3>a, <5>1, <5>2, <5>3 DEF Entry
      <4>3. CASE c.depth = best.depth /\ c.name # best.name
        <5>0. ~(c.depth < best.depth)
          BY <4>1, <4>3
        <5>1. next = Entry(best.of, TRUE)
          BY <3>2, <4>3, <5>0, Zenon DEF EntryAfter
        <5>2. next.depth = best.depth /\ next.name = best.name
              /\ next.of = best.of /\ next.tied
          BY <4>1, <5>1 DEF Entry
        <5>3. best.of \in told /\ best.of.depth = best.depth
          BY <2>7, <3>2
        <5>4. \A x \in told \cup {c} : best.depth <= x.depth
          BY <2>5, <2>7, <3>2, <4>1, <4>3
        <5>5. \E x, y \in {z \in told \cup {c} : z.depth = best.depth} :
                 x.name # y.name
          BY <4>1, <4>3, <5>3
        <5> QED BY <3>a, <4>1, <5>2, <5>3, <5>4, <5>5
      <4>4. CASE ~(c.depth < best.depth)
                 /\ ~(c.depth = best.depth /\ c.name # best.name)
        <5>1. next = best
          BY <3>2, <4>4 DEF EntryAfter
        <5>2. best.depth <= c.depth
          BY <3>a, <4>1, <4>4
        <5>3. CASE c.depth = best.depth
          <6>1. c.name = best.name
            BY <4>4, <5>3
          <6>2. {x \in told \cup {c} : x.depth = best.depth}
                   = {x \in told : x.depth = best.depth} \cup {c}
            BY <5>3
          <6>3. best.of \in {x \in told : x.depth = best.depth}
            BY <2>7, <3>2
          <6>4. (\E x, y \in {z \in told : z.depth = best.depth} : x.name # y.name)
                <=> (\E x, y \in {z \in told : z.depth = best.depth} \cup {c} :
                        x.name # y.name)
            BY <4>1, <6>1, <6>3
          <6> QED BY <2>7, <3>2, <5>1, <5>2, <6>2, <6>3, <6>4
        <5>4. CASE c.depth # best.depth
          <6>1. {x \in told \cup {c} : x.depth = best.depth}
                   = {x \in told : x.depth = best.depth}
            BY <5>4
          <6> QED BY <2>7, <3>2, <5>1, <5>2, <6>1
        <5> QED BY <5>3, <5>4
      <4> QED BY <3>a, <4>1, <4>2, <4>3, <4>4
    <3> QED BY <3>1, <3>2
  <2>9. \A a \in Addrs \ {c.addr} :
            claims'[a] = claims[a] /\ HeardAt(a)' = HeardAt(a)
    BY <2>1, <2>2, <2>3 DEF HeardAt
  <2>10. claims'[c.addr] = next
    BY <2>1, <2>2, <2>3
  <2>11. \A a \in Addrs : Good(a, claims[a], HeardAt(a))
    BY DEF TableSummarisesClaims
  <2> HIDE DEF Good, best, told, next
  <2>12. \A a \in Addrs : Good(a, claims'[a], HeardAt(a)')
    BY <2>4, <2>8, <2>9, <2>10, <2>11
  <2> QED BY <2>12 DEF TableSummarisesClaims, Good
<1> QED BY <1>1, <1>2

(* Once the table is being read, no claim is added to it.                  *)
LEMMA OtherSummary ==
    ASSUME TableSummarisesClaims, UNCHANGED <<claims, heard>>
    PROVE  TableSummarisesClaims'
BY DEF TableSummarisesClaims, HeardAt

TableInv == TableTypeOK /\ TableSummarisesClaims

(* The two invariants together are inductive: the entries summarise only   *)
(* claims there are, and claim() is right only about well typed entries.   *)
LEMMA TableInvInductive ==
    /\ TableInit => TableInv
    /\ TableInv /\ [TableNext]_tableVars => TableInv'
<1>1. TableInit => TableInv
  BY InitType DEF TableInv, TableInit, TableSummarisesClaims, HeardAt
<1>2. ASSUME TableInv, [TableNext]_tableVars PROVE TableInv'
  <2>1. ASSUME NEW c \in Claims, Claim(c) PROVE TableInv'
    BY <1>2, <2>1, ClaimType, ClaimSummary DEF TableInv
  <2>2. CASE StartResolving
    <3>1. TableTypeOK'
      BY <1>2, <2>2 DEF TableInv, TableTypeOK, StartResolving
    <3> QED BY <1>2, <2>2, <3>1, OtherSummary DEF TableInv, StartResolving
  <2>3. ASSUME NEW a \in Addrs, Resolve(a) PROVE TableInv'
    BY <1>2, <2>3, ResolveType, OtherSummary DEF TableInv, Resolve
  <2>4. CASE UNCHANGED tableVars
    BY <1>2, <2>4, OtherSummary DEF TableInv, TableTypeOK, tableVars
  <2> QED BY <1>2, <2>1, <2>2, <2>3, <2>4 DEF TableNext
<1> QED BY <1>1, <1>2

(* The table never holds anything but entries built from real claims, and  *)
(* never yields a claim nobody made.                                       *)
THEOREM TypeCorrect == TableSpec => []TableTypeOK
<1>1. TableInv => TableTypeOK
  BY DEF TableInv
<1> QED BY <1>1, TableInvInductive, PTL DEF TableSpec

(* Whatever claims are made and in whatever order, an entry names a        *)
(* shallowest claim and is tied exactly when the shallowest disagree.      *)
THEOREM SummaryCorrect == TableSpec => []TableSummarisesClaims
<1>1. TableInv => TableSummarisesClaims
  BY DEF TableInv
<1> QED BY <1>1, TableInvInductive, PTL DEF TableSpec

(***************************************************************************)
(* The table implements NameResolution: it keeps one entry where the       *)
(* abstract specification keeps every claim, and nobody can tell.          *)
(***************************************************************************)
LEMMA ShallowestIsEntry ==
    ASSUME TableInv, NEW a \in Addrs, claims[a] # NoClaim
    PROVE  /\ claims[a].of \in Memory!Shallowest(a)
           /\ claims[a].tied <=> ~Memory!Agreed(a)
<1>1. claims[a] \in Entries /\ claims[a].depth \in Nat
      /\ claims[a].depth = claims[a].of.depth
  BY EntryFacts DEF TableInv, TableTypeOK
<1>2. \A c \in HeardAt(a) : c.depth \in Nat /\ claims[a].depth <= c.depth
  BY DEF TableInv, TableTypeOK, TableSummarisesClaims, HeardAt
<1>3. claims[a].of \in HeardAt(a)
  BY DEF TableInv, TableSummarisesClaims
<1>4. {c \in HeardAt(a) : c.depth = claims[a].depth}
        = {c \in HeardAt(a) : \A d \in HeardAt(a) : c.depth <= d.depth}
  BY <1>1, <1>2, <1>3
<1>5. Memory!Shallowest(a) = {c \in HeardAt(a) : c.depth = claims[a].depth}
  BY <1>4 DEF Memory!Shallowest, Memory!HeardAt, HeardAt
<1>6. claims[a].tied <=>
        \E c, d \in {x \in HeardAt(a) : x.depth = claims[a].depth} : c.name # d.name
  BY DEF TableInv, TableSummarisesClaims
<1> QED BY <1>1, <1>3, <1>5, <1>6 DEF Memory!Agreed

(* A turn of resolved() settles one address, by naming or by dropping it.  *)
LEMMA ResolveSettles ==
    ASSUME TableInv, NEW a \in Addrs, Resolve(a)
    PROVE  Memory!Settle(a)
<1>1. claims[a] # NoClaim
  BY DEF TableInv, TableTypeOK, Resolve
<1>2. Memory!Name(a) \/ Memory!Drop(a)
  BY <1>1, ShallowestIsEntry DEF Resolve, Memory!Name, Memory!Drop
<1> QED BY <1>2 DEF Resolve, Memory!Settle

(* The addresses the table has are the addresses anything was heard about. *)
LEMMA StartMatches ==
    ASSUME TableInv, StartResolving
    PROVE  Memory!StartResolving
<1>1. ASSUME NEW a \in Addrs PROVE claims[a] # NoClaim <=> \E c \in heard : c.addr = a
  BY DEF TableInv, TableSummarisesClaims, HeardAt
<1>2. \A c \in heard : c.addr \in Addrs
  BY DEF TableInv, TableTypeOK
<1>3. {a \in Addrs : claims[a] # NoClaim} = {c.addr : c \in heard}
  BY <1>1, <1>2
<1> QED BY <1>3 DEF StartResolving, Memory!StartResolving

(* A table given any claims in any order names, drops and counts exactly   *)
(* what remembering every claim would.                                     *)
THEOREM TableRefinesMemory == TableSpec => ImplementsNameResolution
<1>1. TableInit => Memory!Init
  BY DEF TableInit, Memory!Init
<1>2. TableInv /\ [TableNext]_tableVars => [Memory!Next]_(Memory!vars)
  <2> SUFFICES ASSUME TableInv, [TableNext]_tableVars
               PROVE  [Memory!Next]_(Memory!vars)
    OBVIOUS
  <2>1. ASSUME NEW c \in Claims, Claim(c) PROVE Memory!Hear(c)
    BY <2>1 DEF Claim, Memory!Hear
  <2>2. CASE StartResolving
    BY <2>2, StartMatches DEF Memory!Next
  <2>3. ASSUME NEW a \in Addrs, Resolve(a) PROVE Memory!Next
    BY <2>3, ResolveSettles DEF Memory!Next
  <2>4. CASE UNCHANGED tableVars
    BY <2>4 DEF tableVars, Memory!vars
  <2> QED BY <2>1, <2>2, <2>3, <2>4 DEF TableNext, Memory!Next
<1> QED BY <1>1, <1>2, TableInvInductive, PTL
        DEF TableSpec, ImplementsNameResolution, Memory!Spec

-----------------------------------------------------------------------------
(***************************************************************************)
(* Every claim the program makes is made, and no other.                    *)
(***************************************************************************)

Pending == UNION ToSet(groups)
Unvisited == UNION {UNION ToSet(ClassClaims(prog, v)) : v \in todo}
UnreadForms == IF formsDone THEN {} ELSE FormClaims(prog)
Remaining == (Pending \cup Unvisited) \cup UnreadForms

Working ==
    /\ prog \in Programs
    /\ todo \subseteq DOMAIN prog.vmts
    /\ groups \in Seq(SUBSET AllClaims(prog))
    /\ formsDone \in BOOLEAN
    /\ formsDone => todo = {}
    /\ phase = "resolving" => todo = {} /\ groups = <<>> /\ formsDone

Real(C) == {c \in C : c.addr # 0}

Accounted == Real(AllClaims(prog)) = heard \cup Real(Remaining)

(* What was named is what the settled entries of the table say.            *)
NamedSoFar ==
    /\ phase = "claiming" => named = {}
    /\ \A n \in named : \E a \in Addrs :
          /\ claims[a] # NoClaim /\ ~claims[a].tied
          /\ n \in NameFunction(claims[a].of)
    /\ phase = "resolving" =>
          \A a \in Addrs \ left :
              claims[a] # NoClaim /\ ~claims[a].tied => NameFunction(claims[a].of) \subseteq named

(* What was yielded is the claims behind settled entries.                  *)
YieldedSoFar ==
    /\ phase = "claiming" => yields = {}
    /\ \A c \in yields : \E a \in Addrs :
          claims[a] # NoClaim /\ ~claims[a].tied /\ c = claims[a].of

NamingInv == TableInv /\ YieldedSoFar /\ Working /\ Accounted /\ NamedSoFar

(* Leaving out the empty groups leaves out no claim.                       *)
LEMMA NonEmptyKeepsClaims ==
    ASSUME NEW S, NEW gs \in Seq(SUBSET S)
    PROVE  /\ NonEmpty(gs) \in Seq(SUBSET S)
           /\ UNION ToSet(NonEmpty(gs)) = UNION ToSet(gs)
<1>1. /\ NonEmpty(gs) \in Seq(SUBSET S)
      /\ ToSet(NonEmpty(gs)) = ToSet(gs) \cap (ToSet(gs) \ {{}})
  BY KeptMembers DEF NonEmpty
<1> QED BY <1>1

LEMMA OneGroup ==
    ASSUME NEW S, NEW g \in S
    PROVE  <<g>> \in Seq(S) /\ ToSet(<<g>>) = {g}
<1>1. <<g>> \in Seq(S)
  OBVIOUS
<1>2. DOMAIN <<g>> = {1} /\ <<g>>[1] = g
  OBVIOUS
<1> QED BY <1>1, <1>2 DEF ToSet

(***************************************************************************)
(* A class's chain holds the classes it descends from, each once: the      *)
(* least set with the class and every known parent.                        *)
(***************************************************************************)

Parent(p, v) == p.vmts[v].parent

(* A set of classes no parent leads out of.                                *)
ClosedUp(p, C) == \A x \in C : Parent(p, x) \in DOMAIN p.vmts => Parent(p, x) \in C

(* The walk's way up from v.                                               *)
Walks(p, v) ==
    {s \in Seq(DOMAIN p.vmts) :
        /\ v \in ToSet(s)
        /\ IsFiniteSet(ToSet(s)) /\ Cardinality(ToSet(s)) = Len(s)
        /\ \A x \in ToSet(s) : x = Head(s) \/ Parent(p, x) \in ToSet(s)
        /\ \A C \in SUBSET DOMAIN p.vmts : v \in C /\ ClosedUp(p, C) => ToSet(s) \subseteq C}

Longer(p, below) ==
    LET up == Parent(p, Head(below))
    IN IF up \in DOMAIN p.vmts \ ToSet(below) THEN <<up>> \o below ELSE below

LEMMA WalkStarts ==
    ASSUME NEW p, NEW v \in DOMAIN p.vmts
    PROVE  <<v>> \in Walks(p, v) /\ Len(<<v>>) = 1
<1> DEFINE s == <<v>>
<1>1. s \in Seq(DOMAIN p.vmts) /\ ToSet(s) = {v}
  BY OneGroup
<1>2. Len(s) = 1 /\ Head(s) = v
  OBVIOUS
<1>3. IsFiniteSet({v}) /\ Cardinality({v}) = 1
  BY FS_Singleton
<1> HIDE DEF s
<1>4. s \in Walks(p, v)
  BY <1>1, <1>2, <1>3 DEF Walks
<1> QED BY <1>2, <1>4 DEF s

LEMMA WalkGrows ==
    ASSUME NEW p, NEW v \in DOMAIN p.vmts, NEW s \in Walks(p, v)
    PROVE  /\ Longer(p, s) \in Walks(p, v)
           /\ Parent(p, Head(s)) \in DOMAIN p.vmts \ ToSet(s) => Len(Longer(p, s)) = Len(s) + 1
           /\ Parent(p, Head(s)) \notin DOMAIN p.vmts \ ToSet(s) => Longer(p, s) = s
<1> DEFINE V == DOMAIN p.vmts
           up == Parent(p, Head(s))
<1>1. CASE up \notin V \ ToSet(s)
  BY <1>1 DEF Longer
<1>2. CASE up \in V \ ToSet(s)
  <2> DEFINE t == <<up>> \o s
  <2>1. s \in Seq(V) /\ s # <<>> /\ Head(s) \in ToSet(s) /\ Len(s) \in Nat
    <3>1. s \in Seq(V) /\ v \in ToSet(s)
      BY DEF Walks
    <3>2. s # <<>>
      BY <3>1 DEF ToSet
    <3> QED BY <3>1, <3>2, MembersHeadTail
  <2>2. Longer(p, s) = t
    BY <1>2 DEF Longer
  <2>3. up \in V
    BY <1>2
  <2>4. t \in Seq(V) /\ ToSet(t) = {up} \cup ToSet(s)
    <3> HIDE DEF V, up
    <3> QED BY <2>1, <2>3, OneInFront
  <2>5. Len(t) = Len(s) + 1 /\ Head(t) = up
    <3> HIDE DEF V, up
    <3> QED BY <2>1, <2>3, OneInFront
  <2> HIDE DEF t
  <2>7. IsFiniteSet(ToSet(t)) /\ Cardinality(ToSet(t)) = Len(t)
    <3>1. IsFiniteSet(ToSet(s)) /\ Cardinality(ToSet(s)) = Len(s)
      BY DEF Walks
    <3>2. /\ IsFiniteSet(ToSet(s) \cup {up})
          /\ Cardinality(ToSet(s) \cup {up}) = Cardinality(ToSet(s)) + 1
      BY <1>2, <3>1, FS_AddElement
    <3>3. ToSet(t) = ToSet(s) \cup {up}
      BY <2>4
    <3> QED BY <2>5, <3>1, <3>2, <3>3
  <2>8. \A x \in ToSet(t) : x = Head(t) \/ Parent(p, x) \in ToSet(t)
    BY <2>4, <2>5 DEF Walks
  <2>9. ASSUME NEW C \in SUBSET V, v \in C, ClosedUp(p, C) PROVE ToSet(t) \subseteq C
    <3>1. ToSet(s) \subseteq C
      BY <2>9 DEF Walks
    <3>2. up \in C
      BY <1>2, <2>1, <2>9, <3>1 DEF ClosedUp
    <3> QED BY <2>4, <3>1, <3>2
  <2>10. v \in ToSet(t)
    BY <2>4 DEF Walks
  <2>11. t \in Walks(p, v)
    BY <2>4, <2>7, <2>8, <2>9, <2>10 DEF Walks
  <2> QED BY <1>2, <2>2, <2>5, <2>11
<1> QED BY <1>1, <1>2

(* The walk goes on for as long as there is an unseen parent, so it is     *)
(* over once it has had a turn for every class.                            *)
LEMMA ChainFacts ==
    ASSUME NEW p, IsFiniteSet(DOMAIN p.vmts), NEW v \in DOMAIN p.vmts
    PROVE  /\ Chain(p, v) \in Walks(p, v)
           /\ ClosedUp(p, ToSet(Chain(p, v)))
<1> DEFINE V == DOMAIN p.vmts
           N == Cardinality(V)
           Walk(f) == f = [n \in 1 .. N |-> IF n = 1 THEN <<v>> ELSE Longer(p, f[n - 1])]
           F == CHOOSE f : Walk(f)
           W == Walks(p, v)
           Over(s) == Parent(p, Head(s)) \notin V \ ToSet(s)
<1>1. N \in Nat /\ 1 <= N
  BY FS_CardinalityType, FS_EmptySet
<1>2. Chain(p, v) = F[N]
  BY DEF Chain, Longer, Parent
<1>3. Walk(F)
  <2> DEFINE base == <<v>>
             step == [s \in W |-> Longer(p, s)]
  <2>1. base \in W /\ step \in [W -> W]
    BY WalkStarts, WalkGrows
  <2> HIDE DEF base, step, N, W
  <2>2. PICK f \in [1 .. N -> W] : Stepwise(f, 1, N, base, step)
    <3>1. 1 \in Nat /\ N \in Nat /\ 1 <= N
      BY <1>1
    <3> QED BY <2>1, <3>1, StepsExist
  <2>3. \A n \in 1 .. N : n # 1 => n - 1 \in 1 .. N
    BY <1>1
  <2>4. \A n \in 1 .. N : n # 1 => step[f[n - 1]] = Longer(p, f[n - 1])
    BY <2>3 DEF step
  <2>5. \A n \in 1 .. N : f[n] = IF n = 1 THEN <<v>> ELSE Longer(p, f[n - 1])
    BY <2>2, <2>4 DEF base, Stepwise
  <2>6. Walk(f)
    BY <2>5
  <2> HIDE DEF Walk
  <2> QED BY <2>6
<1> HIDE DEF F, N
<1> DEFINE G == {n \in 1 .. N : F[n] \in W /\ (Len(F[n]) = n \/ Over(F[n]))}
<1>4. 1 \in G
  <2>1. F[1] = <<v>>
    BY <1>1, <1>3
  <2>2. 1 \in 1 .. N
    BY <1>1
  <2> QED BY <2>1, <2>2, WalkStarts
<1>5. ASSUME NEW n \in 1 .. N, n + 1 \in 1 .. N, n \in G PROVE n + 1 \in G
  <2> DEFINE s == F[n]
             t == Longer(p, s)
  <2>1. (n + 1) - 1 = n /\ n + 1 # 1
    OBVIOUS
  <2>2. F[n + 1] = t
    BY <1>3, <1>5, <2>1
  <2>3. s \in W /\ (Len(s) = n \/ Over(s))
    BY <1>5
  <2> HIDE DEF s
  <2>4. /\ t \in W
        /\ ~Over(s) => Len(t) = Len(s) + 1
        /\ Over(s) => t = s
    BY <2>3, WalkGrows
  <2> HIDE DEF t, W, Over
  <2>5. Len(t) = n + 1 \/ Over(t)
    BY <2>3, <2>4
  <2> QED BY <1>5, <2>2, <2>4, <2>5
<1>6. N \in G
  <2>1. \A n \in 1 .. N : n + 1 \in 1 .. N /\ n \in G => n + 1 \in G
    BY <1>5
  <2>2. N \in 1 .. N /\ 1 \in Nat
    BY <1>1
  <2> HIDE DEF G
  <2> QED BY <1>1, <1>4, <2>1, <2>2, IntervalInduction
<1> DEFINE c == F[N]
<1>7. c \in W /\ (Len(c) = N \/ Over(c))
  BY <1>6
<1> HIDE DEF c, G
<1>8. ToSet(c) \in SUBSET V
  BY <1>7 DEF Walks, ToSet
<1>9. Over(c)
  <2> SUFFICES ASSUME Len(c) = N PROVE Over(c)
    BY <1>7
  <2>1. Cardinality(ToSet(c)) = Cardinality(V)
    BY <1>7 DEF Walks, N
  <2>2. ToSet(c) = V
    BY <1>8, <2>1, FS_Subset
  <2> QED BY <2>2
<1>10. ClosedUp(p, ToSet(c))
  <2> SUFFICES ASSUME NEW x \in ToSet(c), Parent(p, x) \in V PROVE Parent(p, x) \in ToSet(c)
    BY DEF ClosedUp
  <2>1. CASE x = Head(c)
    BY <1>9, <2>1
  <2>2. CASE x # Head(c)
    BY <1>7, <2>2 DEF Walks
  <2> QED BY <2>1, <2>2
<1> QED BY <1>2, <1>7, <1>10 DEF c

LEMMA ChainMembers ==
    ASSUME NEW p, IsFiniteSet(DOMAIN p.vmts), NEW v \in DOMAIN p.vmts
    PROVE  /\ Chain(p, v) \in Seq(DOMAIN p.vmts)
           /\ ToSet(Chain(p, v)) \subseteq DOMAIN p.vmts
           /\ v \in ToSet(Chain(p, v))
           /\ IsFiniteSet(ToSet(Chain(p, v)))
           /\ Depth(p, v) = Cardinality(ToSet(Chain(p, v)))
           /\ Depth(p, v) \in Nat \ {0}
<1> DEFINE c == Chain(p, v)
<1>1. c \in Walks(p, v)
  BY ChainFacts
<1> HIDE DEF c
<1>2. /\ c \in Seq(DOMAIN p.vmts) /\ v \in ToSet(c)
      /\ IsFiniteSet(ToSet(c)) /\ Cardinality(ToSet(c)) = Len(c)
  BY <1>1 DEF Walks
<1>3. ToSet(c) \subseteq DOMAIN p.vmts
  BY <1>2 DEF ToSet
<1>4. Len(c) \in Nat /\ Len(c) # 0
  BY <1>2, FS_EmptySet
<1> QED BY <1>2, <1>3, <1>4 DEF c, Depth

(* An ancestor is less deep, unless the two are each other's ancestors.    *)
LEMMA AncestorsShallower ==
    ASSUME NEW p, IsFiniteSet(DOMAIN p.vmts), NEW v \in DOMAIN p.vmts,
           NEW u \in ToSet(Chain(p, v))
    PROVE  /\ Depth(p, u) <= Depth(p, v)
           /\ v \in ToSet(Chain(p, u)) \/ Depth(p, u) < Depth(p, v)
<1> DEFINE A == ToSet(Chain(p, v))
           B == ToSet(Chain(p, u))
<1>1. /\ u \in DOMAIN p.vmts /\ A \subseteq DOMAIN p.vmts /\ v \in A
      /\ IsFiniteSet(A) /\ Depth(p, v) = Cardinality(A) /\ Depth(p, v) \in Nat
  BY ChainMembers
<1>2. Depth(p, u) = Cardinality(B) /\ Depth(p, u) \in Nat
  BY <1>1, ChainMembers
<1>3. ClosedUp(p, A)
  BY ChainFacts
<1>4. B \in SUBSET A
  <2>1. Chain(p, u) \in Walks(p, u)
    BY <1>1, ChainFacts
  <2> QED BY <1>1, <1>3, <2>1 DEF Walks
<1> HIDE DEF A, B
<1>5. Cardinality(B) <= Cardinality(A) /\ (Cardinality(A) = Cardinality(B) => A = B)
  BY <1>1, <1>4, FS_Subset
<1>6. v \in B \/ A # B
  BY <1>1
<1> QED BY <1>1, <1>2, <1>5, <1>6 DEF B

LEMMA HierarchyMembers ==
    ASSUME NEW p, IsFiniteSet(DOMAIN p.vmts), NEW v \in DOMAIN p.vmts
    PROVE  Hierarchy(p, v) \subseteq DOMAIN p.vmts
<1> DEFINE V == DOMAIN p.vmts
           N == Cardinality(V)
           above == ToSet(Chain(p, v))
           more(S) == S \cup {d \in V \ above : p.vmts[d].parent \in S}
           Down(f) == f = [n \in 0 .. N |-> IF n = 0 THEN {v} ELSE more(f[n - 1])]
           F == CHOOSE f : Down(f)
<1>1. N \in Nat /\ above \subseteq V
  BY FS_CardinalityType, ChainMembers
<1>2. Hierarchy(p, v) = above \cup F[N]
  BY DEF Hierarchy
<1>3. Down(F)
  <2> DEFINE base == {v}
             step == [S \in SUBSET V |-> more(S)]
  <2>1. base \in SUBSET V /\ step \in [SUBSET V -> SUBSET V]
    OBVIOUS
  <2> HIDE DEF base, step, N, V
  <2>2. PICK f \in [0 .. N -> SUBSET V] : Stepwise(f, 0, N, base, step)
    <3>1. 0 \in Nat /\ N \in Nat /\ 0 <= N
      BY <1>1
    <3> QED BY <2>1, <3>1, StepsExist
  <2>3. \A n \in 0 .. N : n # 0 => n - 1 \in 0 .. N
    BY <1>1
  <2> HIDE DEF more
  <2>4. \A n \in 0 .. N : n # 0 => step[f[n - 1]] = more(f[n - 1])
    BY <2>3 DEF step
  <2>5. \A n \in 0 .. N : f[n] = IF n = 0 THEN {v} ELSE more(f[n - 1])
    BY <2>2, <2>4 DEF base, Stepwise
  <2>6. Down(f)
    BY <2>5
  <2> HIDE DEF Down
  <2> QED BY <2>6
<1> HIDE DEF F, N
<1> DEFINE G == {n \in 0 .. N : F[n] \subseteq V}
<1>4. 0 \in G
  BY <1>1, <1>3
<1>5. ASSUME NEW n \in 0 .. N, n + 1 \in 0 .. N, n \in G PROVE n + 1 \in G
  <2>1. (n + 1) - 1 = n /\ n + 1 # 0
    OBVIOUS
  <2>2. F[n + 1] = more(F[n])
    BY <1>3, <1>5, <2>1
  <2> QED BY <1>5, <2>2
<1>6. N \in G
  <2>1. \A n \in 0 .. N : n + 1 \in 0 .. N /\ n \in G => n + 1 \in G
    BY <1>5
  <2>2. N \in 0 .. N /\ 0 \in Nat /\ 0 <= N
    BY <1>1
  <2> HIDE DEF G
  <2> QED BY <1>1, <1>4, <2>1, <2>2, IntervalInduction
<1> QED BY <1>1, <1>2, <1>6

(***************************************************************************)
(* What a claim says of the class that makes it.                           *)
(***************************************************************************)

(* Something the class or one of its ancestors calls y.                    *)
Publishes(p, v, y) ==
    \E u \in ToSet(Chain(p, v)) :
        \E m \in p.vmts[u].methods \cup p.vmts[u].methods_ex : m.name = y

(* The name is the class's, and a member of one part is one of the class's *)
(* branch or TObject's.                                                    *)
NamedFor(p, v, name) ==
    /\ name[1] = p.vmts[v].name
    /\ \A y : name[2] = <<y>> => y \in ToSet(StdMethods) \/ Publishes(p, v, y)

Founded(p, c) ==
    /\ c.owner \in DOMAIN p.vmts
    /\ c.register_cc \in BOOLEAN
    /\ c.register_cc => c.depth = Depth(p, c.owner)
    /\ ~c.register_cc => c.depth = Depth(p, c.owner) + ThunkDepth
    /\ NamedFor(p, c.owner, c.name)

(* A claim of a method the class or an ancestor publishes.                 *)
LEMMA PublishedClaim ==
    ASSUME NEW p, NEW v \in DOMAIN p.vmts, NEW addr, NEW y, NEW kind,
           y \in ToSet(StdMethods) \/ Publishes(p, v, y)
    PROVE  Founded(p, ClaimOf(p, v, addr, <<y>>, Depth(p, v), TRUE, kind))
<1> DEFINE c == ClaimOf(p, v, addr, <<y>>, Depth(p, v), TRUE, kind)
<1>1. /\ c.owner = v /\ c.register_cc = TRUE /\ c.depth = Depth(p, v)
      /\ c.name[1] = p.vmts[v].name /\ c.name[2] = <<y>>
  BY DEF ClaimOf
<1>2. \A z : <<y>> = <<z>> => y = z
  OBVIOUS
<1> HIDE DEF c
<1>3. NamedFor(p, c.owner, c.name)
  BY <1>1, <1>2 DEF NamedFor
<1>4. Founded(p, c)
  BY <1>1, <1>3 DEF Founded
<1> QED BY <1>4 DEF c

(* A claim with a name no method has.                                      *)
LEMMA CoinedClaim ==
    ASSUME NEW p, NEW v \in DOMAIN p.vmts, NEW addr, NEW y, NEW z, NEW kind
    PROVE  Founded(p, ClaimOf(p, v, addr, <<y, z>>, Depth(p, v), TRUE, kind))
<1> DEFINE c == ClaimOf(p, v, addr, <<y, z>>, Depth(p, v), TRUE, kind)
<1>1. /\ c.owner = v /\ c.register_cc = TRUE /\ c.depth = Depth(p, v)
      /\ c.name[1] = p.vmts[v].name /\ c.name[2] = <<y, z>>
  BY DEF ClaimOf
<1>2. \A x : <<y, z>> # <<x>>
  OBVIOUS
<1> HIDE DEF c
<1>3. NamedFor(p, c.owner, c.name)
  BY <1>1, <1>2 DEF NamedFor
<1>4. Founded(p, c)
  BY <1>1, <1>3 DEF Founded
<1> QED BY <1>4 DEF c

LEMMA ThunkClaim ==
    ASSUME NEW p, NEW v \in DOMAIN p.vmts, NEW e,
           NEW c \in ThunkClaims(p, v, e, Depth(p, v) + ThunkDepth)
    PROVE  Founded(p, c)
<1>1. PICK i \in ThunksFrom(p, e.vtable) :
          c = ClaimOf(p, v, Word(p, e.vtable + i), ThunkName(e, i),
                      Depth(p, v) + ThunkDepth, FALSE, MK_METHOD)
  BY DEF ThunkClaims
<1>2. /\ c.owner = v /\ c.register_cc = FALSE /\ c.depth = Depth(p, v) + ThunkDepth
      /\ c.name[1] = p.vmts[v].name /\ c.name[2] = ThunkName(e, i)
  BY <1>1 DEF ClaimOf
<1>3. \A x : ThunkName(e, i) # <<x>>
  BY DEF ThunkName
<1>4. NamedFor(p, c.owner, c.name)
  BY <1>2, <1>3 DEF NamedFor
<1> QED BY <1>2, <1>4 DEF Founded

(* Of the declarers of an index the last one is chosen, and there is one.  *)
LEMMA DeclaredByOne ==
    ASSUME NEW p, NEW S, NEW classes \in Seq(S), NEW key
    PROVE  \A i \in DOMAIN DeclaredAmong(p, classes, key) :
           \E u \in ToSet(classes) : \E m \in p.vmts[u].methods_ex :
              m.name = DeclaredAmong(p, classes, key)[i]
<1> TAKE i \in DOMAIN DeclaredAmong(p, classes, key)
<1> DEFINE own(c) == {m \in p.vmts[c].methods_ex : m[key]}
           at == {k \in 1 .. Len(classes) : \E m \in own(classes[k]) : m.virtual_index = i}
           n == CHOOSE x \in at : \A y \in at : x >= y
<1>1. \E c \in ToSet(classes) : \E m \in own(c) : m.virtual_index = i
  BY DEF DeclaredAmong
<1>2. at # {} /\ at \subseteq 1 .. Len(classes)
  <2>1. ToSet(classes) = {classes[k] : k \in 1 .. Len(classes)}
    BY DEF ToSet
  <2> QED BY <1>1, <2>1
<1>3. n \in at
  <2> DEFINE f == [k \in at |-> k]
  <2>1. IsFiniteSet(at) /\ \A k \in at : f[k] \in Nat
    <3>1. Len(classes) \in Int /\ 1 \in Int
      OBVIOUS
    <3>2. IsFiniteSet(1 .. Len(classes)) /\ at \in SUBSET (1 .. Len(classes))
      BY <1>2, <3>1, FS_Interval
    <3> HIDE DEF at
    <3>3. IsFiniteSet(at)
      BY <3>2, FS_Subset
    <3> QED BY <3>2, <3>3
  <2> HIDE DEF at
  <2>2. PICK x \in at : \A y \in at : f[y] <= f[x]
    <3> HIDE DEF f
    <3> QED BY <1>2, <2>1, GreatestExists
  <2>3. \A y \in at : x >= y
    BY <1>2, <2>2
  <2> QED BY <2>3
<1>4. SelectLastInSeq(classes, LAMBDA c : \E m \in own(c) : m.virtual_index = i) = n
  BY <1>2 DEF SelectLastInSeq, Max
<1> DEFINE u == classes[n]
           m == CHOOSE x \in own(u) : x.virtual_index = i
<1>5. DeclaredAmong(p, classes, key)[i] = m.name
  BY <1>4 DEF DeclaredAmong
<1>6. n \in 1 .. Len(classes) /\ \E x \in own(u) : x.virtual_index = i
  BY <1>3
<1>7. u \in ToSet(classes)
  <2> HIDE DEF n
  <2> QED BY <1>6 DEF ToSet
<1>8. m \in p.vmts[u].methods_ex
  <2> HIDE DEF u
  <2> QED BY <1>6
<1> HIDE DEF m, u
<1> QED BY <1>5, <1>7, <1>8

LEMMA OwnPublishes ==
    ASSUME NEW p, IsFiniteSet(DOMAIN p.vmts), NEW v \in DOMAIN p.vmts,
           NEW m \in p.vmts[v].methods \cup p.vmts[v].methods_ex
    PROVE  Publishes(p, v, m.name)
BY ChainMembers DEF Publishes

LEMMA DeclaredPublishes ==
    ASSUME NEW p, IsFiniteSet(DOMAIN p.vmts), NEW v \in DOMAIN p.vmts, NEW key,
           NEW i \in DOMAIN DeclaredIndices(p, v, key)
    PROVE  Publishes(p, v, DeclaredIndices(p, v, key)[i])
<1>1. Chain(p, v) \in Seq(DOMAIN p.vmts)
  BY ChainMembers
<1>2. i \in DOMAIN DeclaredAmong(p, Chain(p, v), key)
  BY DEF DeclaredIndices
<1>3. \A j \in DOMAIN DeclaredAmong(p, Chain(p, v), key) :
         \E u \in ToSet(Chain(p, v)) : \E m \in p.vmts[u].methods_ex :
             m.name = DeclaredAmong(p, Chain(p, v), key)[j]
  <2>1. \A S : \A classes \in Seq(S) : \A j \in DOMAIN DeclaredAmong(p, classes, key) :
            \E u \in ToSet(classes) : \E m \in p.vmts[u].methods_ex :
                m.name = DeclaredAmong(p, classes, key)[j]
    BY DeclaredByOne
  <2> QED BY <1>1, <2>1, Zenon
<1> QED BY <1>2, <1>3 DEF Publishes, DeclaredIndices

(* Every claim of a class is founded on what its branch says.              *)
LEMMA ClassClaimsFounded ==
    ASSUME NEW p, IsFiniteSet(DOMAIN p.vmts), NEW v \in DOMAIN p.vmts, StdMethods \in Seq(STRING),
           NEW c \in UNION ToSet(ClassClaims(p, v))
    PROVE  Founded(p, c)
<1>1. CASE c \in ClassicClaims(p, v)
  <2>1. PICK m \in p.vmts[v].methods : c = ClaimOf(p, v, m.addr, <<m.name>>, Depth(p, v), TRUE, MK_METHOD)
    BY <1>1 DEF ClassicClaims, MethodClaim
  <2> QED BY <2>1, OwnPublishes, PublishedClaim
<1>2. CASE c \in ExtendedClaims(p, v)
  <2>1. PICK m \in p.vmts[v].methods_ex :
            c = ClaimOf(p, v, m.addr, <<m.name>>, Depth(p, v), TRUE, m.method_kind)
    BY <1>2 DEF ExtendedClaims
  <2> QED BY <2>1, OwnPublishes, PublishedClaim
<1>3. CASE c \in DynamicClaims(p, v)
  <2> DEFINE declared == DeclaredDynamicNames(p, v)
  <2>1. PICK d \in p.vmts[v].dynamic :
            c = MethodClaim(p, v, d.addr, IF d.id \in DOMAIN declared THEN <<declared[d.id]>>
                                          ELSE <<"DynMethod", d.id>>)
    BY <1>3 DEF DynamicClaims
  <2>2. CASE d.id \in DOMAIN declared
    <3>1. Publishes(p, v, declared[d.id])
      BY <2>2, DeclaredPublishes DEF DeclaredDynamicNames
    <3> HIDE DEF declared
    <3>2. c = ClaimOf(p, v, d.addr, <<declared[d.id]>>, Depth(p, v), TRUE, MK_METHOD)
      BY <2>1, <2>2 DEF MethodClaim
    <3> QED BY <3>1, <3>2, PublishedClaim
  <2>3. CASE d.id \notin DOMAIN declared
    <3> HIDE DEF declared
    <3>1. c = ClaimOf(p, v, d.addr, <<"DynMethod", d.id>>, Depth(p, v), TRUE, MK_METHOD)
      BY <2>1, <2>3 DEF MethodClaim
    <3> QED BY <3>1, CoinedClaim
  <2> QED BY <2>2, <2>3
<1>4. CASE c \in StdClaims(p, v)
  <2>1. PICK i \in 1 .. Len(StdMethods) :
            c = ClaimOf(p, v, Word(p, v - i), <<StdMethods[Len(StdMethods) + 1 - i]>>,
                        Depth(p, v), TRUE, MK_METHOD)
    BY <1>4 DEF StdClaims, MethodClaim
  <2> DEFINE y == StdMethods[Len(StdMethods) + 1 - i]
  <2>2. Len(StdMethods) \in Nat /\ DOMAIN StdMethods = 1 .. Len(StdMethods)
    OBVIOUS
  <2>3. Len(StdMethods) + 1 - i \in DOMAIN StdMethods
    BY <2>2
  <2>4. y \in ToSet(StdMethods)
    BY <2>3 DEF ToSet
  <2> HIDE DEF y
  <2>5. c = ClaimOf(p, v, Word(p, v - i), <<y>>, Depth(p, v), TRUE, MK_METHOD)
    BY <2>1 DEF y
  <2> QED BY <2>4, <2>5, PublishedClaim
<1>5. CASE c \in SlotClaims(p, v)
  <2> DEFINE slots == DeclaredSlotNames(p, v)
  <2>1. PICK i \in DOMAIN slots : c = MethodClaim(p, v, Word(p, v + i), <<slots[i]>>)
    BY <1>5 DEF SlotClaims
  <2>2. Publishes(p, v, slots[i])
    BY <2>1, DeclaredPublishes DEF DeclaredSlotNames
  <2> HIDE DEF slots
  <2>3. c = ClaimOf(p, v, Word(p, v + i), <<slots[i]>>, Depth(p, v), TRUE, MK_METHOD)
    BY <2>1 DEF MethodClaim
  <2> QED BY <2>2, <2>3, PublishedClaim
<1>6. CASE c \in InterfaceClaims(p, v)
  <2>1. PICK e \in p.vmts[v].interfaces : c \in ThunkClaims(p, v, e, Depth(p, v) + ThunkDepth)
    BY <1>6 DEF InterfaceClaims
  <2> QED BY <2>1, ThunkClaim
<1>7. CASE c \in PropertyClaims(p, v)
  <2>1. CASE \E x \in p.vmts[v].props : c = MethodClaim(p, v, x.value, <<x.verb, x.prop>>)
    <3>1. PICK x \in p.vmts[v].props : c = MethodClaim(p, v, x.value, <<x.verb, x.prop>>)
      BY <2>1
    <3>2. c = ClaimOf(p, v, x.value, <<x.verb, x.prop>>, Depth(p, v), TRUE, MK_METHOD)
      BY <3>1 DEF MethodClaim
    <3> QED BY <3>2, CoinedClaim
  <2>2. CASE \E x \in p.vmts[v].props : c \in VirtualClaims(p, v, x)
    <3>1. PICK x \in p.vmts[v].props, d \in Hierarchy(p, v) :
              c = MethodClaim(p, d, Word(p, d + x.value), <<x.verb, x.prop>>)
      BY <2>2 DEF VirtualClaims
    <3>2. d \in DOMAIN p.vmts
      BY HierarchyMembers
    <3> QED BY <3>1, <3>2, CoinedClaim DEF MethodClaim
  <2> QED BY <1>7, <2>1, <2>2 DEF PropertyClaims
<1>8. \/ c \in ClassicClaims(p, v) \/ c \in ExtendedClaims(p, v) \/ c \in DynamicClaims(p, v)
      \/ c \in StdClaims(p, v) \/ c \in SlotClaims(p, v) \/ c \in InterfaceClaims(p, v)
      \/ c \in PropertyClaims(p, v)
  <2> DEFINE C == ClassClaims(p, v)
  <2>1. /\ DOMAIN C = 1 .. 7
        /\ C[1] = ClassicClaims(p, v) /\ C[2] = ExtendedClaims(p, v) /\ C[3] = DynamicClaims(p, v)
        /\ C[4] = StdClaims(p, v) /\ C[5] = SlotClaims(p, v) /\ C[6] = InterfaceClaims(p, v)
        /\ C[7] = PropertyClaims(p, v)
    BY DEF ClassClaims
  <2> HIDE DEF C
  <2>2. PICK i \in 1 .. 7 : c \in C[i]
    BY <2>1 DEF ToSet, C
  <2>3. i = 1 \/ i = 2 \/ i = 3 \/ i = 4 \/ i = 5 \/ i = 6 \/ i = 7
    OBVIOUS
  <2> QED BY <2>1, <2>2, <2>3
<1> QED BY <1>1, <1>2, <1>3, <1>4, <1>5, <1>6, <1>7, <1>8

LEMMA FormClaimsFounded ==
    ASSUME NEW p, IsFiniteSet(DOMAIN p.vmts), NEW c \in FormClaims(p)
    PROVE  Founded(p, c)
<1> DEFINE bound(s, v) == {MethodClaim(p, v, MethodTable(p, v)[h], <<h>>) :
                              h \in s.handlers \cap DOMAIN MethodTable(p, v)}
<1>0. c \in UNION {UNION {bound(s, v) : v \in FormClasses(p, s)} : s \in p.streams}
  BY Zenon DEF FormClaims
<1>1. PICK s \in p.streams : c \in UNION {bound(s, v) : v \in FormClasses(p, s)}
  <2> HIDE DEF bound
  <2> QED BY <1>0
<1>2. PICK v \in FormClasses(p, s) : c \in bound(s, v)
  <2> HIDE DEF bound
  <2> QED BY <1>1
<1>3. PICK h \in DOMAIN MethodTable(p, v) : c = MethodClaim(p, v, MethodTable(p, v)[h], <<h>>)
  BY <1>2
<1>4. v \in DOMAIN p.vmts
  BY DEF FormClasses
<1>5. Publishes(p, v, h)
  <2> DEFINE names(u) == {m.name : m \in {e \in p.vmts[u].methods : e.addr # 0}} \cup
                         {m.name : m \in {e \in p.vmts[u].methods_ex : e.addr # 0}}
  <2>1. DOMAIN MethodTable(p, v) = UNION {names(u) : u \in ToSet(Chain(p, v))}
    BY Zenon DEF MethodTable
  <2> QED BY <1>3, <2>1 DEF Publishes
<1>6. c = ClaimOf(p, v, MethodTable(p, v)[h], <<h>>, Depth(p, v), TRUE, MK_METHOD)
  BY <1>3 DEF MethodClaim
<1> QED BY <1>4, <1>5, <1>6, PublishedClaim

LEMMA AllFounded ==
    ASSUME NEW p \in Programs, NEW c \in AllClaims(p)
    PROVE  Founded(p, c)
<1>1. IsFiniteSet(DOMAIN p.vmts) /\ StdMethods \in Seq(STRING)
  BY ProgramsAssumption
<1>2. CASE c \in FormClaims(p)
  BY <1>1, <1>2, FormClaimsFounded
<1>3. ASSUME NEW v \in DOMAIN p.vmts, c \in UNION ToSet(ClassClaims(p, v)) PROVE Founded(p, c)
  BY <1>1, <1>3, ClassClaimsFounded
<1> QED BY <1>2, <1>3 DEF AllClaims

(* Making a claim takes it from the first group, and no other claim.       *)
LEMMA OneClaimLess ==
    ASSUME NEW S, NEW gs \in Seq(SUBSET S), gs # <<>>, NEW c
    PROVE  LET less == NonEmpty(<<Head(gs) \ {c}>> \o Tail(gs))
           IN  /\ Head(gs) \subseteq S
               /\ less \in Seq(SUBSET S)
               /\ c \in Head(gs) => UNION ToSet(gs) = (UNION ToSet(less)) \cup {c}
<1> DEFINE g == Head(gs) \ {c}
           T == SUBSET S
           first == <<g>>
           rest == Tail(gs)
           less == NonEmpty(first \o rest)
<1>1. Head(gs) \in T /\ rest \in Seq(T) /\ ToSet(gs) = {Head(gs)} \cup ToSet(rest)
  BY MembersHeadTail
<1>2. g \in T
  BY <1>1
<1>3. first \in Seq(T) /\ ToSet(first) = {g}
  <2> HIDE DEF g, T
  <2> QED BY <1>2, OneGroup
<1>4. first \o rest \in Seq(T) /\ ToSet(first \o rest) = ToSet(first) \cup ToSet(rest)
  <2> HIDE DEF T, first, rest
  <2> QED BY <1>1, <1>3, MembersConcat
<1>5. less \in Seq(T) /\ UNION ToSet(less) = UNION ToSet(first \o rest)
  <2> HIDE DEF first, rest
  <2> QED BY <1>4, NonEmptyKeepsClaims
<1>6. UNION ToSet(gs) = Head(gs) \cup UNION ToSet(rest)
  <2> HIDE DEF rest
  <2> QED BY <1>1
<1>7. UNION ToSet(less) = g \cup UNION ToSet(rest)
  <2> HIDE DEF less, first, rest, g
  <2> QED BY <1>3, <1>4, <1>5
<1>8. c \in Head(gs) => UNION ToSet(gs) = (UNION ToSet(less)) \cup {c}
  <2> HIDE DEF less, rest
  <2> QED BY <1>6, <1>7
<1>9. Head(gs) \subseteq S
  BY <1>1
<1> HIDE DEF less
<1>10. less = NonEmpty(<<Head(gs) \ {c}>> \o Tail(gs))
  BY DEF less
<1> QED BY <1>5, <1>8, <1>9, <1>10

(* Names are given by resolved() only.                                     *)
LEMMA NamedSoFarKept ==
    ASSUME NamedSoFar, UNCHANGED <<claims, phase, left, prog, named>>
    PROVE  NamedSoFar'
<1>1. \A c : NameFunction(c)' = NameFunction(c)
  BY DEF NameFunction
<1> QED BY <1>1 DEF NamedSoFar

LEMMA ClassClaimsAreClaims ==
    ASSUME NEW p, NEW v \in DOMAIN p.vmts
    PROVE  ClassClaims(p, v) \in Seq(SUBSET AllClaims(p))
<1> DEFINE C == ClassClaims(p, v)
<1>1. UNION ToSet(C) \subseteq AllClaims(p)
  BY DEF AllClaims
<1>2. C \in Seq(SUBSET AllClaims(p))
  <2>1. Len(C) = 7 /\ DOMAIN C = 1..7 /\ C = [i \in 1..7 |-> C[i]]
    BY DEF ClassClaims
  <2> HIDE DEF C
  <2>2. \A i \in 1..7 : C[i] \subseteq AllClaims(p)
    BY <1>1, <2>1 DEF ToSet
  <2> QED BY <2>1, <2>2
<1> QED BY <1>2

(* Each step is one of the table's, or leaves the table alone.             *)
LEMMA StepOfTable ==
    ASSUME NamingInv, [Next]_vars
    PROVE  [TableNext]_tableVars
<1>1. ASSUME MakeClaim PROVE TableNext
  <2>1. PICK c \in Head(groups) : Claim(c)
    BY <1>1 DEF MakeClaim
  <2>2. Head(groups) \in SUBSET AllClaims(prog)
    BY <1>1, MembersHeadTail DEF NamingInv, Working, MakeClaim
  <2>3. c \in Claims
    BY <2>1, <2>2, ProgramsAssumption DEF NamingInv, Working
  <2> QED BY <2>1, <2>3 DEF TableNext
<1>2. ASSUME NEW a \in left, ResolveNext(a) PROVE TableNext
  BY <1>2 DEF NamingInv, TableInv, TableTypeOK, ResolveNext, TableNext
<1> QED BY <1>1, <1>2 DEF Next, VisitClass, ClaimForms, FinishClaiming, TableNext, vars

LEMMA YieldedSoFarKept ==
    ASSUME TableInv, YieldedSoFar, [TableNext]_tableVars
    PROVE  YieldedSoFar'
<1>1. ASSUME NEW c \in Claims, Claim(c) PROVE YieldedSoFar'
  BY <1>1 DEF YieldedSoFar, Claim
<1>2. CASE StartResolving
  BY <1>2 DEF YieldedSoFar, StartResolving
<1>3. ASSUME NEW a \in Addrs, Resolve(a) PROVE YieldedSoFar'
  <2>1. claims[a] # NoClaim /\ UNCHANGED claims /\ phase' = "resolving"
    BY <1>3 DEF TableInv, TableTypeOK, Resolve
  <2>2. CASE claims[a].tied
    BY <1>3, <2>1, <2>2 DEF YieldedSoFar, Resolve
  <2>3. CASE ~claims[a].tied
    <3>1. yields' = yields \cup {claims[a].of}
      BY <1>3, <2>3 DEF Resolve
    <3> QED BY <2>1, <2>3, <3>1 DEF YieldedSoFar
  <2> QED BY <2>2, <2>3
<1>4. CASE UNCHANGED tableVars
  BY <1>4 DEF YieldedSoFar, tableVars
<1> QED BY <1>1, <1>2, <1>3, <1>4 DEF TableNext

LEMMA VisitKeepsInv ==
    ASSUME NamingInv, NEW v \in todo, VisitClass(v)
    PROVE  (Working /\ Accounted /\ NamedSoFar)'
<1>1. /\ todo' = todo \ {v} /\ groups = <<>> /\ groups' = NonEmpty(ClassClaims(prog, v))
      /\ UNCHANGED <<claims, heard, phase, left, prog, formsDone, named>>
      /\ todo \subseteq DOMAIN prog.vmts
  BY DEF NamingInv, Working, VisitClass, tableVars
<1>2. ClassClaims(prog, v) \in Seq(SUBSET AllClaims(prog))
  BY <1>1, ClassClaimsAreClaims
<1>3. groups' \in Seq(SUBSET AllClaims(prog)) /\ Pending' = UNION ToSet(ClassClaims(prog, v))
  BY <1>1, <1>2, NonEmptyKeepsClaims DEF Pending
<1>4. Working'
  BY <1>1, <1>3 DEF NamingInv, Working
<1>5. Pending = {}
  BY <1>1 DEF Pending, ToSet
<1>6. Remaining' = Remaining
  <2>1. Unvisited = Unvisited' \cup UNION ToSet(ClassClaims(prog, v))
    BY <1>1 DEF Unvisited
  <2>2. UnreadForms' = UnreadForms
    BY <1>1 DEF UnreadForms
  <2> QED BY <1>3, <1>5, <2>1, <2>2 DEF Remaining
<1>7. Accounted'
  BY <1>1, <1>6 DEF NamingInv, Accounted
<1>8. NamedSoFar'
  BY <1>1, NamedSoFarKept DEF NamingInv
<1> QED BY <1>4, <1>7, <1>8

LEMMA FormsKeepInv ==
    ASSUME NamingInv, ClaimForms
    PROVE  (Working /\ Accounted /\ NamedSoFar)'
<1>1. /\ todo = {} /\ groups = <<>> /\ ~formsDone /\ formsDone' = TRUE
      /\ groups' = NonEmpty(<<FormClaims(prog)>>)
      /\ UNCHANGED <<claims, heard, phase, left, prog, todo, named>>
  BY DEF ClaimForms, tableVars
<1>2. <<FormClaims(prog)>> \in Seq(SUBSET AllClaims(prog))
      /\ UNION ToSet(<<FormClaims(prog)>>) = FormClaims(prog)
  BY DEF AllClaims, ToSet
<1>3. groups' \in Seq(SUBSET AllClaims(prog)) /\ Pending' = FormClaims(prog)
  BY <1>1, <1>2, NonEmptyKeepsClaims DEF Pending
<1>4. Working'
  BY <1>1, <1>3 DEF NamingInv, Working
<1>5. Remaining' = Remaining
  <2>1. Pending = {} /\ Unvisited = {} /\ Unvisited' = {}
    BY <1>1 DEF Pending, Unvisited, ToSet
  <2> QED BY <1>1, <1>3, <2>1 DEF Remaining, UnreadForms
<1>6. Accounted'
  BY <1>1, <1>5 DEF NamingInv, Accounted
<1>7. NamedSoFar'
  BY <1>1, NamedSoFarKept DEF NamingInv
<1> QED BY <1>4, <1>6, <1>7

LEMMA ClaimKeepsInv ==
    ASSUME NamingInv, MakeClaim
    PROVE  (Working /\ Accounted /\ NamedSoFar)'
<1>1. PICK c \in Head(groups) :
          Claim(c) /\ groups' = NonEmpty(<<Head(groups) \ {c}>> \o Tail(groups))
  BY DEF MakeClaim
<1>2. /\ groups # <<>> /\ phase = "claiming" /\ phase' = "claiming"
      /\ UNCHANGED <<prog, todo, formsDone, named>>
      /\ groups \in Seq(SUBSET AllClaims(prog))
  BY <1>1 DEF NamingInv, Working, MakeClaim, Claim
<1>3. groups' \in Seq(SUBSET AllClaims(prog)) /\ Pending = Pending' \cup {c}
  <2> DEFINE less == NonEmpty(<<Head(groups) \ {c}>> \o Tail(groups))
  <2>1. /\ less \in Seq(SUBSET AllClaims(prog))
        /\ UNION ToSet(groups) = (UNION ToSet(less)) \cup {c}
    BY <1>1, <1>2, OneClaimLess
  <2>2. groups' = less
    BY <1>1
  <2> HIDE DEF less
  <2> QED BY <2>1, <2>2 DEF Pending
<1>7. Working'
  BY <1>2, <1>3 DEF NamingInv, Working
<1>8. Remaining = Remaining' \cup {c}
  <2>2. Unvisited' = Unvisited /\ UnreadForms' = UnreadForms
    BY <1>2 DEF Unvisited, UnreadForms
  <2> QED BY <1>3, <2>2 DEF Remaining
<1>9. heard' = IF c.addr = 0 THEN heard ELSE heard \cup {c}
  BY <1>1 DEF Claim
<1>10. Accounted'
  BY <1>2, <1>8, <1>9 DEF NamingInv, Accounted, Real
<1>11. NamedSoFar'
  BY <1>2 DEF NamingInv, NamedSoFar
<1> QED BY <1>7, <1>10, <1>11

LEMMA FinishKeepsInv ==
    ASSUME NamingInv, FinishClaiming
    PROVE  (Working /\ Accounted /\ NamedSoFar)'
<1>1. /\ formsDone /\ groups = <<>> /\ phase = "claiming" /\ phase' = "resolving"
      /\ left' = {a \in Addrs : claims[a] # NoClaim}
      /\ UNCHANGED <<claims, heard, prog, todo, groups, formsDone, named>>
  BY DEF FinishClaiming, StartResolving
<1>2. Working'
  BY <1>1 DEF NamingInv, Working
<1>3. Accounted'
  BY <1>1 DEF NamingInv, Accounted, Remaining, Pending, Unvisited, UnreadForms
<1>4. NamedSoFar'
  BY <1>1 DEF NamingInv, NamedSoFar
<1> QED BY <1>2, <1>3, <1>4

LEMMA ResolveKeepsInv ==
    ASSUME NamingInv, NEW a \in left, ResolveNext(a)
    PROVE  (Working /\ Accounted /\ NamedSoFar)'
<1>1. /\ phase = "resolving" /\ left' = left \ {a}
      /\ named' = named \cup (IF claims[a].tied THEN {} ELSE NameFunction(claims[a].of))
      /\ UNCHANGED <<claims, heard, phase, prog, todo, groups, formsDone>>
  BY DEF ResolveNext, Resolve
<1>2. a \in Addrs /\ claims[a] # NoClaim
  BY DEF NamingInv, TableInv, TableTypeOK
<1>3. Working' /\ Accounted'
  BY <1>1 DEF NamingInv, Working, Accounted, Remaining, Pending, Unvisited, UnreadForms
<1>4. \A c : NameFunction(c)' = NameFunction(c)
  BY <1>1 DEF NameFunction
<1>5. \A n \in named' : \E b \in Addrs :
          /\ claims[b] # NoClaim /\ ~claims[b].tied
          /\ n \in NameFunction(claims[b].of)
  <2> TAKE n \in named'
  <2>1. CASE n \in named
    BY <2>1 DEF NamingInv, NamedSoFar
  <2>2. CASE n \notin named
    BY <1>1, <1>2, <2>2
  <2> QED BY <2>1, <2>2
<1>6. \A b \in Addrs \ left' :
          claims[b] # NoClaim /\ ~claims[b].tied => NameFunction(claims[b].of) \subseteq named'
  <2> TAKE b \in Addrs \ left'
  <2>1. CASE b = a
    BY <1>1, <2>1
  <2>2. CASE b # a
    BY <1>1, <2>2 DEF NamingInv, NamedSoFar
  <2> QED BY <2>1, <2>2
<1>7. NamedSoFar'
  BY <1>1, <1>4, <1>5, <1>6 DEF NamedSoFar
<1> QED BY <1>3, <1>7

LEMMA NamingInvariant == Spec => []NamingInv
<1>1. Init => NamingInv
  <2> SUFFICES ASSUME Init PROVE NamingInv
    OBVIOUS
  <2>1. TableInv
    BY TableInvInductive DEF Init
  <2>2. Working
    <3>1. <<>> \in Seq(SUBSET AllClaims(prog))
      OBVIOUS
    <3> QED BY <3>1 DEF Init, TableInit, Working
  <2>3. Remaining = AllClaims(prog)
    <3>1. Pending = {}
      BY DEF Init, Pending, ToSet
    <3> QED BY <3>1 DEF Init, Remaining, Unvisited, UnreadForms, AllClaims
  <2>4. Accounted
    BY <2>3 DEF Init, TableInit, Accounted, Real
  <2>5. NamedSoFar
    BY DEF Init, TableInit, NamedSoFar
  <2>6. YieldedSoFar
    BY DEF Init, TableInit, YieldedSoFar
  <2> QED BY <2>1, <2>2, <2>4, <2>5, <2>6 DEF NamingInv
<1>2. NamingInv /\ [Next]_vars => NamingInv'
  <2> SUFFICES ASSUME NamingInv, [Next]_vars PROVE NamingInv'
    OBVIOUS
  <2>1. TableInv' /\ YieldedSoFar'
    BY StepOfTable, TableInvInductive, YieldedSoFarKept DEF NamingInv
  <2>2. CASE \E v \in todo : VisitClass(v)
    BY <2>1, <2>2, VisitKeepsInv DEF NamingInv
  <2>3. CASE ClaimForms
    BY <2>1, <2>3, FormsKeepInv DEF NamingInv
  <2>4. CASE MakeClaim
    BY <2>1, <2>4, ClaimKeepsInv DEF NamingInv
  <2>5. CASE FinishClaiming
    BY <2>1, <2>5, FinishKeepsInv DEF NamingInv
  <2>6. CASE \E a \in left : ResolveNext(a)
    BY <2>1, <2>6, ResolveKeepsInv DEF NamingInv
  <2>7. CASE UNCHANGED vars
    <3>1. NamedSoFar'
      BY <2>7, NamedSoFarKept DEF vars, tableVars, NamingInv
    <3> QED BY <2>1, <2>7, <3>1 DEF vars, tableVars, NamingInv, Working, Accounted, Remaining,
                                    Pending, Unvisited, UnreadForms
  <2> QED BY <2>2, <2>3, <2>4, <2>5, <2>6, <2>7 DEF Next
<1> QED BY <1>1, <1>2, PTL DEF Spec

(* When resolved() is read everything has been claimed, so the table       *)
(* speaks for all the program's claims.                                    *)
LEMMA ResolvingKnowsAll ==
    ASSUME NamingInv, phase = "resolving"
    PROVE  heard = Real(AllClaims(prog))
<1>1. Remaining = {}
  BY DEF NamingInv, Working, Remaining, Pending, Unvisited, UnreadForms, ToSet
<1> QED BY <1>1 DEF NamingInv, Accounted, Real

(* The names given are those of settled, untied entries, and the claim     *)
(* behind one is among the shallowest of all the claims at its address.    *)
LEMMA NamedAfterShallowest ==
    ASSUME NamingInv, NEW n \in named
    PROVE  \E c \in Real(AllClaims(prog)) :
              /\ n \in NameFunction(c) /\ n.addr = c.addr
              /\ n.name = c.name /\ n.register_cc = c.register_cc
              /\ c.addr \in prog.code \ prog.kept
              /\ \A d \in AllClaims(prog) : d.addr = c.addr => c.depth <= d.depth
<1>1. phase = "resolving"
  BY DEF NamingInv, NamedSoFar, TableInv, TableTypeOK
<1>2. PICK a \in Addrs : claims[a] # NoClaim /\ n \in NameFunction(claims[a].of)
  BY DEF NamingInv, NamedSoFar
<1> DEFINE c == claims[a].of
<1>3. claims[a] \in Entries /\ claims[a].depth = c.depth
  BY <1>2, EntryFacts DEF NamingInv, TableInv, TableTypeOK
<1>4. /\ \A d \in HeardAt(a) : claims[a].depth <= d.depth
      /\ c \in HeardAt(a)
  BY <1>2 DEF NamingInv, TableInv, TableSummarisesClaims
<1>5. c \in Real(AllClaims(prog)) /\ c.addr = a
  BY <1>1, <1>4, ResolvingKnowsAll DEF HeardAt
<1>6. \A d \in AllClaims(prog) : d.addr = c.addr => c.depth <= d.depth
  BY <1>1, <1>3, <1>4, <1>5, ResolvingKnowsAll DEF HeardAt, Real
<1> HIDE DEF c
<1>7. /\ n.addr = c.addr /\ n.name = c.name /\ n.register_cc = c.register_cc
      /\ c.addr \in prog.code \ prog.kept /\ n \in NameFunction(c)
  BY <1>2 DEF NameFunction, c
<1> QED BY <1>5, <1>6, <1>7

(* And what was yielded is a shallowest claim the others agree with.       *)
LEMMA YieldedShallowest ==
    ASSUME NamingInv, NEW c \in yields
    PROVE  /\ c \in AllClaims(prog)
           /\ \A d \in AllClaims(prog) : d.addr = c.addr =>
                  c.depth <= d.depth /\ (c.depth = d.depth => c.name = d.name)
<1>1. phase = "resolving"
  BY DEF NamingInv, YieldedSoFar, TableInv, TableTypeOK
<1>2. PICK a \in Addrs : claims[a] # NoClaim /\ ~claims[a].tied /\ c = claims[a].of
  BY DEF NamingInv, YieldedSoFar
<1>3. claims[a] \in Entries /\ claims[a].depth = c.depth
  BY <1>2, EntryFacts DEF NamingInv, TableInv, TableTypeOK
<1>4. /\ c \in HeardAt(a)
      /\ \A d \in HeardAt(a) : c.depth <= d.depth /\ (d.depth = c.depth => c.name = d.name)
  BY <1>2, <1>3 DEF NamingInv, TableInv, TableSummarisesClaims
<1>5. \A d \in AllClaims(prog) : d.addr = c.addr => d \in HeardAt(a)
  BY <1>1, <1>4, ResolvingKnowsAll DEF HeardAt, Real
<1>6. c \in AllClaims(prog)
  BY <1>1, <1>4, ResolvingKnowsAll DEF HeardAt, Real
<1> QED BY <1>4, <1>5, <1>6

(* Once done, every address is named after its shallowest claims if they   *)
(* agree and not at all if they do not: the order of the classes and of    *)
(* their tables' entries decides nothing.                                  *)
THEOREM OrderDecidesNothing == Spec => []NamesIndependentOfOrder
<1>1. NamingInv => NamesIndependentOfOrder
  <2> DEFINE about(a) == {c \in AllClaims(prog) : c.addr = a}
  <2> DEFINE best(a) == {c \in about(a) : \A d \in about(a) : c.depth <= d.depth}
  <2> DEFINE namesAt(a) == {n.name : n \in {m \in named : m.addr = a}}
  <2> SUFFICES ASSUME NamingInv, phase = "resolving", left = {}, NEW a \in prog.code \ prog.kept
               PROVE  namesAt(a) = IF \A c, d \in best(a) : c.name = d.name
                                   THEN {c.name : c \in best(a)} ELSE {}
    BY DEF NamesIndependentOfOrder, Done
  <2>1. a # 0
    BY ProgramsAssumption DEF NamingInv, Working
  <2>2. heard = Real(AllClaims(prog))
    BY ResolvingKnowsAll
  <2>3. about(a) = {c \in heard : c.addr = a}
    BY <2>1, <2>2 DEF Real
  <2>4. ASSUME NEW n \in named, n.addr = a
        PROVE  /\ a \in Addrs /\ claims[a] # NoClaim /\ ~claims[a].tied
               /\ n.name = claims[a].of.name
    <3>1. PICK b \in Addrs : /\ claims[b] # NoClaim /\ ~claims[b].tied
                             /\ n \in NameFunction(claims[b].of)
      BY DEF NamingInv, NamedSoFar
    <3>2. n.addr = claims[b].of.addr /\ n.name = claims[b].of.name
      BY <3>1 DEF NameFunction
    <3>3. claims[b].of.addr = b
      BY <3>1 DEF NamingInv, TableInv, TableSummarisesClaims, HeardAt
    <3> QED BY <2>4, <3>1, <3>2, <3>3
  <2>5. CASE about(a) = {}
    <3>1. ~(a \in Addrs /\ claims[a] # NoClaim)
      BY <2>3, <2>5 DEF NamingInv, TableInv, TableSummarisesClaims, HeardAt
    <3>2. namesAt(a) = {}
      BY <2>4, <3>1
    <3> QED BY <2>5, <3>2
  <2>6. CASE about(a) # {}
    <3>1. a \in Addrs
      BY <2>3, <2>6 DEF NamingInv, TableInv, TableTypeOK
    <3>2. claims[a] # NoClaim /\ HeardAt(a) = about(a)
      BY <2>3, <2>6, <3>1 DEF NamingInv, TableInv, TableSummarisesClaims, HeardAt
    <3>3. claims[a] \in Entries
      BY <3>1, <3>2 DEF NamingInv, TableInv, TableTypeOK
    <3> DEFINE e == claims[a]
    <3>4. /\ e.of \in HeardAt(a) /\ e.of.depth = e.depth /\ e.depth \in Nat
          /\ \A c \in HeardAt(a) : e.depth <= c.depth
          /\ e.tied <=> \E c, d \in {x \in HeardAt(a) : x.depth = e.depth} : c.name # d.name
      BY <3>1, <3>2, <3>3, EntryFacts DEF NamingInv, TableInv, TableSummarisesClaims
    <3>5. \A c \in HeardAt(a) : c.depth \in Nat
      BY DEF NamingInv, TableInv, TableTypeOK, HeardAt
    <3> HIDE DEF e, about
    <3>6. best(a) = {x \in HeardAt(a) : x.depth = e.depth}
      BY <3>2, <3>4, <3>5
    <3>7. e.of \in best(a)
      BY <3>4, <3>6
    <3> HIDE DEF best
    <3>8. e.tied => namesAt(a) = {}
      BY <2>4 DEF e
    <3>9. ~e.tied => namesAt(a) = {e.of.name}
      <4> SUFFICES ASSUME ~e.tied PROVE namesAt(a) = {e.of.name}
        OBVIOUS
      <4>1. NameFunction(e.of) \subseteq named
        BY <3>1, <3>2 DEF NamingInv, NamedSoFar, e
      <4>2. e.of.addr = a
        BY <3>4 DEF HeardAt
      <4>3. \E n \in NameFunction(e.of) : n.addr = a /\ n.name = e.of.name
        BY <4>2 DEF NameFunction
      <4>4. e.of.name \in namesAt(a)
        BY <4>1, <4>3
      <4>5. \A x \in namesAt(a) : x = e.of.name
        BY <2>4 DEF e
      <4> QED BY <4>4, <4>5
    <3>10. CASE e.tied
      BY <3>4, <3>6, <3>8, <3>10
    <3>11. CASE ~e.tied
      <4>1. \A c, d \in best(a) : c.name = d.name
        BY <3>4, <3>6, <3>11
      <4>2. {c.name : c \in best(a)} = {e.of.name}
        BY <3>7, <4>1
      <4> QED BY <3>9, <3>11, <4>1, <4>2
    <3>12. e.tied \in BOOLEAN
      BY <3>3, EntryFacts DEF e
    <3> QED BY <3>10, <3>11, <3>12
  <2> QED BY <2>5, <2>6
<1> QED BY <1>1, NamingInvariant, PTL

(* No class's own table says anything of a function that is named as a     *)
(* thunk: the claim would be shallower, as every hierarchy is.             *)
THEOREM ThunksYieldToMethods == Spec => []ThunksYield
<1>1. NamingInv => ThunksYield
  <2> SUFFICES ASSUME NamingInv, NEW n \in named, ~n.register_cc,
                      NEW d \in AllClaims(prog), d.addr = n.addr, d.register_cc
               PROVE  FALSE
    BY DEF ThunksYield
  <2>1. prog \in Programs
    BY DEF NamingInv, Working
  <2>2. PICK c \in AllClaims(prog) : ~c.register_cc /\ c.depth <= d.depth
    BY NamedAfterShallowest DEF Real
  <2>3. /\ c.owner \in DOMAIN prog.vmts /\ c.depth = Depth(prog, c.owner) + ThunkDepth
        /\ d.owner \in DOMAIN prog.vmts /\ d.depth = Depth(prog, d.owner)
    BY <2>1, <2>2, AllFounded DEF Founded
  <2>4. Depth(prog, c.owner) \in Nat \ {0} /\ Depth(prog, d.owner) \in Nat
    BY <2>1, <2>3, ProgramsAssumption, ChainMembers
  <2>5. Depth(prog, d.owner) <= ThunkDepth
    BY <2>1, <2>3, ProgramsAssumption
  <2> QED BY <2>2, <2>3, <2>4, <2>5 DEF ThunkDepth
<1> QED BY <1>1, NamingInvariant, PTL

(* The classes an inherited method could be mistaken for a method of claim *)
(* it at a greater depth than the ancestor does; or at the same, if the    *)
(* header makes the two each other's ancestors, and under another name.    *)
THEOREM AncestorsKeepMethods == Spec => []InheritedStaysWithAncestor
<1>1. NamingInv => InheritedStaysWithAncestor
  <2> SUFFICES ASSUME NamingInv, NEW c \in yields, NEW d \in AllClaims(prog),
                      d.addr = c.addr, d.register_cc,
                      d.owner \in ToSet(Chain(prog, c.owner)) \ {c.owner}
               PROVE  FALSE
    BY DEF InheritedStaysWithAncestor
  <2>1. prog \in Programs /\ IsFiniteSet(DOMAIN prog.vmts)
    BY ProgramsAssumption DEF NamingInv, Working
  <2>2. /\ c \in AllClaims(prog) /\ c.depth <= d.depth
        /\ c.depth = d.depth => c.name = d.name
    BY YieldedShallowest
  <2>3. Founded(prog, c) /\ Founded(prog, d)
    BY <2>1, <2>2, AllFounded
  <2>4. c.owner \in DOMAIN prog.vmts /\ d.owner \in DOMAIN prog.vmts
    BY <2>3 DEF Founded
  <2>5. Depth(prog, c.owner) \in Nat /\ Depth(prog, d.owner) \in Nat
    BY <2>1, <2>4, ChainMembers
  <2>6. /\ Depth(prog, d.owner) <= Depth(prog, c.owner)
        /\ \/ c.owner \in ToSet(Chain(prog, d.owner))
           \/ Depth(prog, d.owner) < Depth(prog, c.owner)
    BY <2>1, <2>4, AncestorsShallower
  <2>7. d.depth = Depth(prog, d.owner) /\ Depth(prog, c.owner) <= c.depth
    BY <2>3, <2>5 DEF Founded, ThunkDepth
  <2>8. c.depth \in Nat
    BY <2>3, <2>5 DEF Founded, ThunkDepth
  <2>9. c.depth = d.depth /\ c.owner \in ToSet(Chain(prog, d.owner))
    BY <2>2, <2>5, <2>6, <2>7, <2>8
  <2>10. prog.vmts[c.owner].name = prog.vmts[d.owner].name
    BY <2>2, <2>3, <2>9 DEF Founded, NamedFor
  <2> QED BY <2>1, <2>4, <2>9, <2>10, ProgramsAssumption
<1> QED BY <1>1, NamingInvariant, PTL

(* A class's slots are named by what it or its ancestors publish.          *)
THEOREM SlotNamesInherited == Spec => []SlotNamesFlowDown
<1>1. NamingInv => SlotNamesFlowDown
  <2> SUFFICES ASSUME NamingInv, NEW c \in yields
               PROVE  \A y : y \notin ToSet(StdMethods) /\ c.name[2] = <<y>>
                             => Publishes(prog, c.owner, y)
    BY DEF SlotNamesFlowDown, Publishes
  <2>1. prog \in Programs /\ c \in AllClaims(prog)
    BY YieldedShallowest DEF NamingInv, Working
  <2> QED BY <2>1, AllFounded DEF Founded, NamedFor
<1> QED BY <1>1, NamingInvariant, PTL

(* Naming drives the table as NameClaims expects, so all that is proved of *)
(* the table holds of the claims the programs make.                        *)
THEOREM NamingUsesTable == Spec => TableSpec
<1>1. Init => TableInit
  BY DEF Init
<1>2. NamingInv /\ [Next]_vars => [TableNext]_tableVars
  BY StepOfTable
<1> QED BY <1>1, <1>2, NamingInvariant, PTL DEF Spec, TableSpec

THEOREM NamingSummarises == Spec => []TableSummarisesClaims
BY NamingUsesTable, SummaryCorrect, PTL

THEOREM NamingImplements == Spec => ImplementsNameResolution
BY NamingUsesTable, TableRefinesMemory, PTL
=============================================================================
