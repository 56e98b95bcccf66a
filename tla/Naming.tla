-------------------------------- MODULE Naming --------------------------------
(***************************************************************************)
(* How rtti/apply.py decides what every function of a Delphi program is    *)
(* called: _name_functions offers NameClaims one claim for everything the  *)
(* class tables say about a code address, then names what survives.        *)
(*                                                                         *)
(* A program is a record that stands for the parsed metadata and for the   *)
(* words of the image that are read while claiming:                        *)
(*   vmts   class address -> [name, parent, ceiling, methods, methods_ex,  *)
(*          dynamic, interfaces, props], as rtti/parser.py left them       *)
(*   mem    word address -> value; a word it does not have reads as 0      *)
(*   code   the values that are addresses of code                          *)
(*   streams  the form streams: [cls, handlers], the class's name and the  *)
(*          methods its events name                                        *)
(*   kept   the functions the analyst has named                            *)
(* Offsets and addresses count in pointers.  A name is the tuple of the    *)
(* parts the code joins with "." and "_".                                  *)
(***************************************************************************)
EXTENDS NameClaims, Integers, SequencesExt, Lists

CONSTANTS
    Programs,    \* the programs naming is run on
    StdMethods,  \* TObject's virtual methods, last one at slot -1
    HeaderSize   \* the slots below the class pointer, StdMethods included

VARIABLES
    prog,        \* the program being named
    todo,        \* the classes _name_functions has not visited
    groups,      \* the current class's claims still to make, in code order
    formsDone,   \* _claim_dfm has run
    named        \* what the sink was told: [addr, name, self, register_cc]

vars == <<tableVars, prog, todo, groups, formsDone, named>>

(* TVmtMethodExEntry's member kinds; an ordinary method is the default.    *)
MK_STATIC == 1
MK_METHOD == 2
MK_CLASS_METHOD == 3

IUNKNOWN_SLOTS == <<"QueryInterface", "_AddRef", "_Release">>

(* How much deeper than any method a thunk is claimed.                     *)
ThunkDepth == 1000
-----------------------------------------------------------------------------
(* Reading the program.                                                    *)

Word(p, w) == IF w \in DOMAIN p.mem THEN p.mem[w] ELSE 0

(* class_chain(): the class and its ancestors, root first. It stops at a   *)
(* parent that is not a known class, or that has been seen.                *)
Chain(p, v) ==
    LET walk[n \in 1..Cardinality(DOMAIN p.vmts)] ==
            IF n = 1 THEN <<v>>
            ELSE LET below == walk[n - 1]
                     up == p.vmts[Head(below)].parent
                 IN IF up \in DOMAIN p.vmts \ ToSet(below)
                    THEN <<up>> \o below ELSE below
    IN walk[Cardinality(DOMAIN p.vmts)]

Depth(p, v) == Len(Chain(p, v))

(* hierarchy(): the chain, and every descendant reached outside it.        *)
Hierarchy(p, v) ==
    LET above == ToSet(Chain(p, v))
        down[n \in 0..Cardinality(DOMAIN p.vmts)] ==
            IF n = 0 THEN {v}
            ELSE down[n - 1] \cup
                 {d \in DOMAIN p.vmts \ above : p.vmts[d].parent \in down[n - 1]}
    IN above \cup down[Cardinality(DOMAIN p.vmts)]

(* vtable_end: the first word at or after the class pointer that is not a  *)
(* code address, or where the nearest table the header points at starts.   *)
VtableEnd(p, v) ==
    CHOOSE w \in v..(v + Cardinality(DOMAIN p.mem)) :
        /\ w = p.vmts[v].ceiling \/ Word(p, w) \notin p.code
        /\ \A u \in v..(w - 1) : u # p.vmts[v].ceiling /\ Word(p, u) \in p.code

(* What the extended entries flagged `key` call each index, the nearest    *)
(* declarer among `classes` deciding.                                      *)
DeclaredAmong(p, classes, key) ==
    LET own(c) == {m \in p.vmts[c].methods_ex : m[key]}
        indices == {m.virtual_index : m \in UNION {own(c) : c \in ToSet(classes)}}
        nearest(i) == SelectLastInSeq(classes,
                          LAMBDA c : \E m \in own(c) : m.virtual_index = i)
    IN [i \in indices |->
            (CHOOSE m \in own(classes[nearest(i)]) : m.virtual_index = i).name]

(* Names taken from descendants as well.                                   *)
DeclaredIndicesOfBranch(p, v, key) ==
    DeclaredAmong(p, Chain(p, v) \o
                     SetToSeq(Hierarchy(p, v) \ ToSet(Chain(p, v))), key)

(* _declared_indices(): names flow down the class's chain.                 *)
DeclaredIndices(p, v, key) == DeclaredAmong(p, Chain(p, v), key)

DeclaredSlotNames(p, v) == DeclaredIndices(p, v, "virtual")

DeclaredDynamicNames(p, v) == DeclaredIndices(p, v, "dynamic")

(* _abstract_stubs(): what the slots of abstract methods hold.             *)
AbstractStubs(p) ==
    LET stubsOf(v) == {Word(p, v + m.virtual_index) :
                          m \in {e \in p.vmts[v].methods_ex : e.abstract}}
    IN UNION {stubsOf(v) : v \in DOMAIN p.vmts} \ {0}
-----------------------------------------------------------------------------
(* The claims, one operator per loop of _name_functions.                   *)

ClaimOf(p, v, addr, member, depth, register_cc, kind) ==
    [addr |-> addr, name |-> <<p.vmts[v].name, member>>, depth |-> depth,
     owner |-> v, register_cc |-> register_cc, kind |-> kind]

MethodClaim(p, v, addr, member) ==
    ClaimOf(p, v, addr, member, Depth(p, v), TRUE, MK_METHOD)

ClassicClaims(p, v) ==
    {MethodClaim(p, v, m.addr, <<m.name>>) : m \in p.vmts[v].methods}

ExtendedClaims(p, v) ==
    {ClaimOf(p, v, m.addr, <<m.name>>, Depth(p, v), TRUE, m.method_kind) :
        m \in p.vmts[v].methods_ex}

DynamicClaims(p, v) ==
    LET declared == DeclaredDynamicNames(p, v)
    IN {MethodClaim(p, v, d.addr,
            IF d.id \in DOMAIN declared THEN <<declared[d.id]>>
            ELSE <<"DynMethod", d.id>>) : d \in p.vmts[v].dynamic}

StdClaims(p, v) ==
    {MethodClaim(p, v, Word(p, v - i), <<StdMethods[Len(StdMethods) + 1 - i]>>) :
        i \in 1..Len(StdMethods)}

(* _claim_slot() for every index the class's chain declares.               *)
SlotClaims(p, v) ==
    LET slots == DeclaredSlotNames(p, v)
        usable == {i \in DOMAIN slots :
                     /\ i >= -Len(StdMethods)
                     /\ i >= 0 => v + i < VtableEnd(p, v)
                     /\ Word(p, v + i) \in p.code \ AbstractStubs(p)}
    IN {MethodClaim(p, v, Word(p, v + i), <<slots[i]>>) : i \in usable}

(* The thunks of the vtable at `start`: the walk stops at a word that is   *)
(* not a code address.                                                     *)
ThunksFrom(p, start) ==
    {i \in 0..255 : \A j \in 0..i : Word(p, start + j) \in p.code}

ThunkName(e, i) ==
    IF i < Len(IUNKNOWN_SLOTS) THEN <<e.iname, IUNKNOWN_SLOTS[i + 1]>>
    ELSE <<e.iname, "vtbl", i>>

ThunkClaims(p, v, e, depth) ==
    {ClaimOf(p, v, Word(p, e.vtable + i), ThunkName(e, i), depth,
             FALSE, MK_METHOD) : i \in ThunksFrom(p, e.vtable)}

(* Thunks claimed as if the interface named them as well as a class would. *)
InterfaceClaimsAsMethods(p, v) ==
    UNION {ThunkClaims(p, v, e, Depth(p, v)) :
              e \in {x \in p.vmts[v].interfaces : x.vtable # 0}}

(* _claim_interfaces(): no table names a thunk, so any other claim wins.   *)
InterfaceClaims(p, v) ==
    UNION {ThunkClaims(p, v, e, Depth(p, v) + ThunkDepth) :
              e \in {x \in p.vmts[v].interfaces : x.vtable # 0}}

(* _claim_virtual(): the slot of a published property, in every class of   *)
(* the branch that has it.                                                 *)
VirtualClaims(p, v, x) ==
    {MethodClaim(p, c, Word(p, c + x.value), <<x.verb, x.prop>>) :
        c \in {d \in Hierarchy(p, v) :
                 /\ x.value >= 0 => d + x.value < VtableEnd(p, d)
                 /\ x.value >= -HeaderSize}}

PropertyClaims(p, v) ==
    {MethodClaim(p, v, x.value, <<x.verb, x.prop>>) :
        x \in {y \in p.vmts[v].props : y.kind = "static"}}
    \cup UNION {VirtualClaims(p, v, x) :
        x \in {y \in p.vmts[v].props : y.kind = "virtual"}}

(* method_table(): what the chain publishes, the nearest class deciding    *)
(* and the extended table over the classic one.                            *)
MethodTable(p, v) ==
    LET Called(table, name) == {m \in table : m.name = name /\ m.addr # 0}
        Own(c, name) == LET ex == Called(p.vmts[c].methods_ex, name)
                        IN IF ex # {} THEN ex ELSE Called(p.vmts[c].methods, name)
        names(c) == {m.name : m \in {e \in p.vmts[c].methods : e.addr # 0}} \cup
                    {m.name : m \in {e \in p.vmts[c].methods_ex : e.addr # 0}}
        chain == Chain(p, v)
    IN [name \in UNION {names(c) : c \in ToSet(chain)} |->
            LET c == chain[SelectLastInSeq(chain, LAMBDA d : name \in names(d))]
            IN (CHOOSE m \in Own(c, name) : TRUE).addr]

(* _resolve_form(): of several classes of the name, the one that publishes *)
(* most of the handlers, and none when two do.                             *)
FormClasses(p, s) ==
    LET named_so == {v \in DOMAIN p.vmts : p.vmts[v].name = s.cls}
        score(v) == Cardinality(s.handlers \cap DOMAIN MethodTable(p, v))
        best == {v \in named_so : \A u \in named_so : score(u) <= score(v)}
    IN IF Cardinality(best) = 1 THEN best ELSE {}

(* bind(), and what _claim_dfm makes of it *)
FormClaims(p) ==
    LET bound(s, v) == {MethodClaim(p, v, MethodTable(p, v)[h], <<h>>) :
                           h \in s.handlers \cap DOMAIN MethodTable(p, v)}
    IN UNION {UNION {bound(s, v) : v \in FormClasses(p, s)} : s \in p.streams}

(* Everything one class claims, in the order of the loop's body.           *)
ClassClaims(p, v) ==
    <<ClassicClaims(p, v), ExtendedClaims(p, v), DynamicClaims(p, v),
      StdClaims(p, v), SlotClaims(p, v), InterfaceClaims(p, v),
      PropertyClaims(p, v)>>

AllClaims(p) ==
    FormClaims(p) \cup
    UNION {UNION ToSet(ClassClaims(p, v)) : v \in DOMAIN p.vmts}

(* No hierarchy is as deep as a thunk's claim is made out to be, and       *)
(* classes that are each other's ancestors, as only a misread header makes *)
(* them, are not called the same.                                          *)
ASSUME ProgramsAssumption ==
    /\ StdMethods \in Seq(STRING)
    /\ \A p \in Programs :
        /\ AllClaims(p) \subseteq Claims
        /\ 0 \notin p.code
        /\ IsFiniteSet(DOMAIN p.vmts)
        /\ \A v \in DOMAIN p.vmts :
            /\ Depth(p, v) <= ThunkDepth
            /\ \A u \in ToSet(Chain(p, v)) \ {v} :
                v \in ToSet(Chain(p, u)) => p.vmts[u].name # p.vmts[v].name
-----------------------------------------------------------------------------
Init ==
    /\ TableInit
    /\ prog \in Programs
    /\ todo = DOMAIN prog.vmts
    /\ groups = <<>>
    /\ formsDone = FALSE
    /\ named = {}

NonEmpty(gs) == Kept(gs, ToSet(gs) \ {{}})

(* The next class of `for vmt in self.md.vmts.values()`: the scan found    *)
(* the classes where the linker put them, so in any order.                 *)
VisitClass(v) ==
    /\ v \in todo
    /\ groups = <<>>
    /\ todo' = todo \ {v}
    /\ groups' = NonEmpty(ClassClaims(prog, v))
    /\ UNCHANGED <<tableVars, prog, formsDone, named>>

ClaimForms ==
    /\ todo = {}
    /\ groups = <<>>
    /\ ~formsDone
    /\ formsDone' = TRUE
    /\ groups' = NonEmpty(<<FormClaims(prog)>>)
    /\ UNCHANGED <<tableVars, prog, todo, named>>

(* One call of claim(). The order within one table is the table's own, so  *)
(* any order; between the tables it is the code's.                         *)
MakeClaim ==
    /\ groups # <<>>
    /\ \E c \in Head(groups) :
        /\ Claim(c)
        /\ groups' = NonEmpty(<<Head(groups) \ {c}>> \o Tail(groups))
    /\ UNCHANGED <<prog, todo, formsDone, named>>

FinishClaiming ==
    /\ formsDone
    /\ groups = <<>>
    /\ StartResolving
    /\ UNCHANGED <<prog, todo, groups, formsDone, named>>

(* What arrives in the convention's first register, by the claim's kind.   *)
SelfOf(kind) ==
    CASE kind = MK_STATIC -> "none"
      [] kind = MK_CLASS_METHOD -> "metaclass"
      [] OTHER -> "instance"

(* _name_function(): code only; the sink respects the analyst's names.     *)
NameFunction(c) ==
    IF c.addr \notin prog.code \ prog.kept THEN {}
    ELSE {[addr |-> c.addr, name |-> c.name, self |-> SelfOf(c.kind),
           register_cc |-> c.register_cc]}

(* One turn of `for ... in claims.resolved()`.                             *)
ResolveNext(a) ==
    /\ Resolve(a)
    /\ named' = named \cup
           (IF claims[a].tied THEN {} ELSE NameFunction(claims[a].of))
    /\ UNCHANGED <<prog, todo, groups, formsDone>>

Next ==
    \/ \E v \in todo : VisitClass(v)
    \/ ClaimForms
    \/ MakeClaim
    \/ FinishClaiming
    \/ \E a \in left : ResolveNext(a)

Spec == Init /\ [][Next]_vars
-----------------------------------------------------------------------------
Done == phase = "resolving" /\ left = {}

(* The names depend on what the tables say and not on the order the        *)
(* classes were laid out in: once done, an address has a name exactly when *)
(* the shallowest of all the claims the program makes about it agree, and  *)
(* it is theirs. A function the analyst named is left alone.               *)
NamesIndependentOfOrder ==
    LET all == AllClaims(prog)
    IN Done =>
        \A a \in prog.code \ prog.kept :
            LET about == {c \in all : c.addr = a}
                best == {c \in about : \A d \in about : c.depth <= d.depth}
            IN {n.name : n \in {m \in named : m.addr = a}}
                 = IF \A c, d \in best : c.name = d.name
                   THEN {c.name : c \in best} ELSE {}

(* A descendant never takes an inherited method from its ancestor: a class *)
(* that is credited with an address has no ancestor that claims it from a  *)
(* method table, a slot or a property.                                     *)
InheritedStaysWithAncestor ==
    LET all == AllClaims(prog)
    IN \A c \in yields :
        ~\E d \in all :
            /\ d.addr = c.addr
            /\ d.register_cc
            /\ d.owner \in ToSet(Chain(prog, c.owner)) \ {c.owner}

(* A thunk is named after its interface, and left without the register     *)
(* convention, only where no class's own table says anything of it.        *)
ThunksYield ==
    LET all == AllClaims(prog)
    IN \A n \in named :
        ~n.register_cc =>
            ~\E d \in all : d.addr = n.addr /\ d.register_cc

(* A slot's name flows from a class to its descendants only: whatever name *)
(* an address was given from a slot was published by the class credited    *)
(* with it or by one of its ancestors. (TObject's own methods have their   *)
(* names from nobody's tables.)                                            *)
SlotNamesFlowDown ==
    \A c \in yields :
        \A m \in UNION {prog.vmts[u].methods_ex : u \in DOMAIN prog.vmts} :
            /\ m.virtual
            /\ m.name \notin ToSet(StdMethods)
            /\ c.name[2] = <<m.name>>
            => \E u \in ToSet(Chain(prog, c.owner)) :
                   \E n \in prog.vmts[u].methods \cup prog.vmts[u].methods_ex :
                       n.name = m.name
-----------------------------------------------------------------------------
(* What the docstrings say, and the code does not do.                      *)

(* _abstract_stubs: naming an abstract slot's routine from a slot would    *)
(* hand it to one arbitrary class's method, so no class names it.          *)
AbstractStubUnnamed ==
    \A n \in named : n.addr \notin AbstractStubs(prog)

(* _parse_intf_table: the next interface vtable's address is the boundary  *)
(* of this one. Each table's first thunk then has one claim, and a name.   *)
FirstThunksNamed ==
    Done =>
        \A v \in DOMAIN prog.vmts : \A e \in prog.vmts[v].interfaces :
            LET a == Word(prog, e.vtable)
            IN (a \in prog.code \ prog.kept
                /\ ~\E c \in AllClaims(prog) : c.addr = a /\ c.register_cc)
               => \E n \in named : n.addr = a
=============================================================================
