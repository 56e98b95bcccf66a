------------------------------- MODULE MCNaming -------------------------------
(***************************************************************************)
(* Small programs for Naming: three classes whose vtables share code, with *)
(* the third class's place in the hierarchy, and what it publishes, left   *)
(* open.  Word addresses are below 100, code addresses above.              *)
(***************************************************************************)
EXTENDS Naming, TLC

Words(segments) ==
    [w \in UNION {s.at..(s.at + Len(s.words) - 1) : s \in segments} |->
        LET s == CHOOSE t \in segments : w \in t.at..(t.at + Len(t.words) - 1)
        IN s.words[w - s.at + 1]]

Ex(addr, name, kind, index, virtual, dynamic, abstract) ==
    [addr |-> addr, name |-> name, method_kind |-> kind, virtual_index |-> index,
     virtual |-> virtual, dynamic |-> dynamic, abstract |-> abstract]

Virtual(addr, name, index) == Ex(addr, name, MK_METHOD, index, TRUE, FALSE, FALSE)

Prop(verb, prop, kind, value) ==
    [verb |-> verb, prop |-> prop, kind |-> kind, value |-> value]

Class(name, parent, methods, methods_ex, dynamic, interfaces, props) ==
    [name |-> name, parent |-> parent, ceiling |-> 0, methods |-> methods,
     methods_ex |-> methods_ex, dynamic |-> dynamic,
     interfaces |-> interfaces, props |-> props]

(* TBase's header is at 8 and 9, its vtable at 10; TChild's at 18..20 and  *)
(* TOther's at 28..30. 101 is TObject's Destroy, 103 @AbstractError, 90 a  *)
(* data word. Two interface vtables of TChild's lie one behind the other.  *)
Image(otherSlots) ==
    Words({[at |-> 8, words |-> <<90, 101, 102, 103>>],
           [at |-> 18, words |-> <<90, 101, 112, 113, 114>>],
           [at |-> 28, words |-> <<90, 101>> \o otherSlots],
           [at |-> 40, words |-> <<131, 132>>],
           [at |-> 42, words |-> <<133>>]})

Code == 101..140

TBase == Class("TBase", 0, {}, {Virtual(102, "Paint", 0)}, {}, {}, {})

TChild == Class("TChild", 10, {[addr |-> 115, name |-> "Click"]},
                {Ex(115, "Click", MK_METHOD, -9, FALSE, FALSE, FALSE)},
                {[id |-> 5, addr |-> 116]}, {},
                {Prop("get", "Color", "virtual", 1)})

Program(base, child, other, otherSlots, streams, kept) ==
    [vmts |-> (10 :> base) @@ (20 :> child) @@ (30 :> other),
     mem |-> Image(otherSlots), code |-> Code, streams |-> streams, kept |-> kept]

(* TOther is a root, a descendant of either, of an unknown class or of     *)
(* itself, and its slots are its own, inherited or another tree's.         *)
Layouts ==
    {Program(TBase, TChild,
             Class("TOther", parent, {}, {Virtual(122, "Extra", 2)}, {}, {}, {}),
             slots, {}, kept) :
        parent \in {0, 10, 20, 30, 99},
        slots \in {<<102, 123, 122>>, <<112, 113, 122>>}, kept \in {{}, {112}}}

(* A class that handles a message its ancestor declared by name, thunks,   *)
(* and an accessor that is also a thunk.                                   *)
WithTables(child, other, size, streams) ==
    Program([TBase EXCEPT !.methods = {[addr |-> 119, name |-> "Show"]},
                          !.methods_ex =
                 @ \cup {Ex(117, "Resize", MK_METHOD, 5, FALSE, TRUE, FALSE)},
                          !.interfaces = {[iname |-> "IA", vtable |-> 40]}],
            [child EXCEPT !.props = {Prop("set", "Size", "static", size),
                                     Prop("get", "Head", "virtual", -2)}],
            other, <<123>>, streams, {})
Tables == {WithTables(TChild, Class("TOther", 0, {}, {}, {}, {}, {}), size, {}) :
              size \in {118, 131, 115}}

(* A form's handlers are its own, inherited, or those of another class of  *)
(* its name; the two may publish as many of them.                          *)
Form(shows, other, handlers) ==
    WithTables([TChild EXCEPT !.methods_ex = @ \cup shows],
               Class(other, 0, {[addr |-> 120, name |-> "Press"]}, {}, {}, {}, {}),
               118, {[cls |-> "TChild", handlers |-> handlers]})
Forms ==
    {Form({}, "TOther", {"Click", "Show"}),
     Form({Ex(121, "Show", MK_METHOD, -9, FALSE, FALSE, FALSE)}, "TOther", {"Show"}),
     Form({}, "TChild", {"Press"}), Form({}, "TChild", {"Click", "Press"})}

PassPrograms == Layouts \cup Tables \cup Forms

(* A property is read through an abstract method's slot.                   *)
StubPrograms ==
    {Program([TBase EXCEPT !.methods_ex =
                 @ \cup {Ex(105, "GetColor", MK_METHOD, 1, TRUE, FALSE, TRUE)}],
             TChild, Class("TOther", 0, {}, {}, {}, {}, {}), <<123>>, {}, {})}

(* A class implements two interfaces.                                      *)
ThunkPrograms ==
    {Program(TBase, [TChild EXCEPT !.interfaces =
                {[iname |-> "IA", vtable |-> 40], [iname |-> "IB", vtable |-> 42]}],
             Class("TOther", 0, {}, {}, {}, {}, {}), <<123>>, {}, {})}

MCStdMethods == <<"Destroy">>

MCClaims == UNION {AllClaims(p) : p \in Programs}
MCAddrs == {c.addr : c \in MCClaims} \ {0}
=============================================================================
