----------------------------- MODULE WrittenForms ---------------------------
(***************************************************************************)
(* What a scan makes of forms that were written as Delphi writes them.  A  *)
(* form is a record of what it holds with, beside it, what the writer      *)
(* (TWriter, as src/rtti/dfm.py describes it) makes of that: its bytes.    *)
(* Controls, and values in values, are such records in their turn.         *)
(***************************************************************************)
EXTENDS ImageScanner

CONSTANTS Values,       \* values a property may have
          Controls,     \* objects that may be written, in a form or as one
          Forms         \* the forms among them

(* -------------------------------------------------------- what is written *)
Str(chars) == <<Len(chars)>> \o chars
Long(chars, width) == <<(Len(chars) \div width) % Base, (Len(chars) \div width) \div Base>> \o chars
Listed(parts) == Joined([i \in 1 .. Len(parts) |-> parts[i].bytes]) \o <<0>>

Identifier(chars) == chars \in Seq(Ident) /\ chars # <<>>
Kind(v) == VALUE_TYPES[v.code + 1]
Integers8To32 == {v.bytes : v \in {w \in Values : Kind(w) \in INT_TAGS}}

(* A value: its tag, then what is particular to the tag.                   *)
LISTS == {"vaSet", "vaList", "vaCollection"}
STRS == {"vaString", "vaIdent"}
LONGS == {"vaBinary", "vaLString", "vaUTF8String", "vaWString"}
CharSize(kind) == IF kind = "vaWString" THEN 2 ELSE 1
Payload(v) ==
  CASE Kind(v) \in LISTS -> Listed(v.parts)
    [] Kind(v) \in STRS -> Str(v.chars)
    [] Kind(v) \in LONGS -> Long(v.chars, CharSize(Kind(v)))
    [] OTHER -> v.chars

(* A property: its name and its value. *)
AreProps(props) ==
  /\ Len(props) \in 0 .. MaxItems - 1
  /\ \A i \in 1 .. Len(props) : /\ Identifier(props[i].name)
                                /\ props[i].value \in Values
                                /\ props[i].bytes = Str(props[i].name) \o props[i].value.bytes

(* What stands in each kind of list: names, values other than the one that *)
(* ends the list, and items with an index or without.                      *)
IsPart(kind, x) ==
  /\ kind = "vaSet" => Identifier(x.name) /\ x.bytes = Str(x.name)
  /\ kind = "vaList" => x \in Values /\ Kind(x) # "vaNull"
  /\ kind = "vaCollection" => /\ x.index \in {<<>>} \union Integers8To32
                              /\ AreProps(x.props)
                              /\ x.bytes = x.index \o <<1>> \o Listed(x.props)

IsValue(v) ==
  /\ v.code \in 0 .. Len(VALUE_TYPES) - 1
  /\ v.chars \in Seq(Nat) /\ v.bytes \in Seq(Nat)
  /\ v.bytes = <<v.code>> \o Payload(v)
  /\ Kind(v) \in DOMAIN FixedSize => Len(v.chars) = FixedSize[Kind(v)]
  /\ Kind(v) \in LONGS => Len(v.chars) <= MaxBlob /\ Len(v.chars) % CharSize(Kind(v)) = 0
  /\ Kind(v) \in LISTS => /\ Len(v.parts) \in 0 .. MaxItems - 1
                          /\ \A i \in 1 .. Len(v.parts) : IsPart(Kind(v), v.parts[i])

(* What a property assigns to an event, if it is one.                      *)
Assignment == [control : Seq(Nat), event : Seq(Nat), handler : Seq(Nat)]
Assigned(control, prop) ==
  IF Len(prop.name) > 1 /\ prop.name[1] = On /\ Kind(prop.value) = "vaIdent"
  THEN <<[control |-> control, event |-> prop.name, handler |-> prop.value.chars]>>
  ELSE <<>>

(* An object: flags, perhaps with an index, the names of its class and its *)
(* own, its properties, and the objects inside.                            *)
Written(o) ==
  (IF o.flags = 0 THEN <<>> ELSE <<Prefix + o.flags>> \o o.index)
  \o Str(o.cls) \o Str(o.name) \o Listed(o.props) \o Listed(o.children)

(* The names of all objects in it, and what all assign to events.          *)
NamesIn(o) == <<o.name>> \o Joined([i \in 1 .. Len(o.children) |-> o.children[i].names])
Assignments(o) ==
  Joined([i \in 1 .. Len(o.props) |-> Assigned(o.name, o.props[i])])
  \o Joined([i \in 1 .. Len(o.children) |-> o.children[i].events])

IsControl(o) ==
  /\ o.flags \in 0 .. 7
  /\ o.index \in IF (o.flags \div 2) % 2 = 1 THEN Integers8To32 ELSE {<<>>}
  /\ Identifier(o.cls) /\ Len(o.cls) < Prefix
  /\ o.name \in Seq(Ident)
  /\ AreProps(o.props)
  /\ Len(o.children) \in 0 .. MaxItems - 1 /\ o.height \in Nat
  /\ \A i \in 1 .. Len(o.children) : /\ o.children[i] \in Controls
                                     /\ o.children[i].height < o.height
  /\ o.bytes \in Seq(Nat) /\ o.names \in Seq(Seq(Nat)) /\ o.events \in Seq(Assignment)
  /\ o.bytes = Written(o) /\ o.names = NamesIn(o) /\ o.events = Assignments(o)

(* A form is written with no more objects, and none deeper, than are read. *)
ASSUME WriterAssumption ==
  /\ \A v \in Values : IsValue(v)
  /\ \A o \in Controls : IsControl(o)
  /\ \A f \in Forms : f \in Controls /\ f.height <= MaxDepth /\ Len(f.names) <= MaxItems

(* ------------------------------------------------------------ the property *)
WrittenAt(a, bytes) == \A i \in 1 .. Len(bytes) : Byte(a + i - 1) = bytes[i]

(* A finished scan has every form written in the image, wherever the seams *)
(* between blocks fell, with all its events and up to its own end: nothing *)
(* in a form is taken for longer or shorter than it was written. The only  *)
(* form missed is one whose signature lies inside another form, as in the  *)
(* bytes of a picture (read_value, _read_object, find_streams).            *)
StreamsComplete ==
  LET found == ToSet(streams)
  IN pass = "done" =>
       \A a \in {x \in CodeStart .. DataEnd - Len(MAGIC) : HasMagic(x)}, f \in Forms :
         WrittenAt(a + Len(MAGIC), f.bytes) =>
           \/ [addr |-> a + Len(MAGIC), end |-> a + Len(MAGIC) + Len(f.bytes),
               events |-> f.events] \in found
           \/ \E s \in found : s.addr <= a /\ a < s.end
=============================================================================
