---------------------------- MODULE FormStreams ----------------------------
(***************************************************************************)
(* Form streams (src/rtti/dfm.py): the objects a form was written as, one  *)
(* inside the other, each with its properties and their tagged values.     *)
(* Where a construct ends is an address, None when the bytes are not one.  *)
(* Of what a stream says, the events are kept: [control, event, handler].  *)
(***************************************************************************)
EXTENDS ImageReader, Lists

CONSTANTS MaxItems,             \* MAX_ITEMS
          MaxDepth,             \* MAX_DEPTH
          MaxBlob,              \* MAX_BLOB
          Prefix,               \* the least prefix byte, the rest are flags
          On                    \* the byte EVENT_PREFIX is scaled to

ASSUME FormsAssumption == {MaxItems, MaxDepth, MaxBlob, Prefix, On} \subseteq Nat

MAGIC == <<84, 80, 70, 48>>

VALUE_TYPES == <<"vaNull", "vaList", "vaInt8", "vaInt16", "vaInt32",
  "vaExtended", "vaString", "vaIdent", "vaFalse", "vaTrue", "vaBinary", "vaSet",
  "vaLString", "vaNil", "vaCollection", "vaSingle", "vaCurrency", "vaDate",
  "vaWString", "vaInt64", "vaUTF8String", "vaDouble">>
Tag(a) == IF Byte(a) + 1 \in DOMAIN VALUE_TYPES THEN VALUE_TYPES[Byte(a) + 1] ELSE "none"

(* Bytes of the values of a fixed size, scaled. *)
FixedSize == [vaNull |-> 0, vaFalse |-> 0, vaTrue |-> 0, vaNil |-> 0,
              vaInt8 |-> 1, vaInt16 |-> 1, vaInt32 |-> 2, vaSingle |-> 2,
              vaExtended |-> 5, vaCurrency |-> 4, vaDate |-> 4,
              vaInt64 |-> 4, vaDouble |-> 4]
INT_TAGS == {"vaInt8", "vaInt16", "vaInt32"}

Chars(a) == [i \in 1 .. Byte(a) |-> image[a + i]]
Past(a, n) == IF Readable(a, n) THEN a + n ELSE None

(* The count taken for one of bytes. *)
LongEndInBytes(a, width) ==
  LET n == Word(a) IN IF n # None /\ n * width <= MaxBlob THEN Past(a + Width, n) ELSE None
(* _longstr and _binary: a count of characters, then the characters.       *)
LongEnd(a, width) ==
  LET n == Word(a)
  IN IF n # None /\ n * width <= MaxBlob THEN Past(a + Width, n * width) ELSE None

(* Items up to a byte of 0, which must come within MaxItems turns: where   *)
(* each begins, endOf being the function from there to its end, and how    *)
(* many there are.                                                         *)
Items(a, endOf) ==
  LET items[i \in 0 .. MaxItems] ==
        IF i = 0 THEN a
        ELSE LET p == items[i - 1]
             IN IF Byte(p) \in {None, 0} THEN None ELSE endOf[p]
  IN items
Closed(items) == {i \in 0 .. MaxItems - 1 : Byte(items[i]) = 0}
ItemCount(items) == CHOOSE i \in Closed(items) : TRUE
ItemsEnd(a, endOf) ==
  LET items == Items(a, endOf)
  IN IF Closed(items) = {} THEN None ELSE items[ItemCount(items)] + 1

(* _read_props, _read_prop and _collection, given where each value ends.   *)
PropEnds(valueEnd) ==
  [p \in Nat |-> IF NameEnd(p) = None THEN None ELSE valueEnd[NameEnd(p)]]
PropsEndBy(a, valueEnd) == ItemsEnd(a, PropEnds(valueEnd))

(* An item of a collection: an index, perhaps, then a list of properties.  *)
CollectionItemEnd(a, valueEnd) ==
  LET q == IF Tag(a) \in INT_TAGS THEN valueEnd[a] ELSE a
  IN IF q = None \/ Tag(q) # "vaList" THEN None ELSE PropsEndBy(q + 1, valueEnd)

(* read_value *)
ValueEndBy(a, valueEnd) ==
  LET tag == Tag(a)
  IN CASE tag \in DOMAIN FixedSize -> Past(a + 1, FixedSize[tag])
       [] tag \in {"vaString", "vaIdent"} -> StrEnd(a + 1)
       [] tag \in {"vaBinary", "vaLString", "vaUTF8String"} -> LongEnd(a + 1, 1)
       [] tag = "vaWString" -> LongEnd(a + 1, 2)
       [] tag = "vaSet" -> ItemsEnd(a + 1, [p \in Nat |-> NameEnd(p)])
       [] tag = "vaList" -> ItemsEnd(a + 1, valueEnd)
       [] tag = "vaCollection" ->
            ItemsEnd(a + 1, [p \in Nat |-> CollectionItemEnd(p, valueEnd)])
       [] OTHER -> None
ValueEnd[a \in Nat] == ValueEndBy(a, ValueEnd)

PropsEnd(a) == PropsEndBy(a, ValueEnd)

(* Prop.is_event *)
IsEvent(a) ==
  /\ Byte(a) > 1 /\ image[a + 1] = On
  /\ Tag(StrEnd(a)) = "vaIdent"

(* What the properties at a assign to events. *)
EventOf(control, p) ==
  IF ~IsEvent(p) THEN <<>>
  ELSE <<[control |-> control, event |-> Chars(p), handler |-> Chars(StrEnd(p) + 1)]>>
Events(control, a) ==
  LET items == Items(a, PropEnds(ValueEnd))
  IN Joined([i \in 1 .. ItemCount(items) |-> EventOf(control, items[i - 1])])

(* _read_object up to its properties: where the names of its class and of  *)
(* the object begin, and its properties.                                   *)
ClassAt(a) ==
  IF Byte(a) \notin Prefix .. Prefix + 15 THEN a
  ELSE IF ((Byte(a) - Prefix) \div 2) % 2 = 0 THEN a + 1
  ELSE IF Tag(a + 1) \in INT_TAGS THEN ValueEnd[a + 1] ELSE None
NameAt(a) == NameEnd(ClassAt(a))
PropsAt(a) == IF IsName(NameAt(a), 0) THEN StrEnd(NameAt(a)) ELSE None

(* The rest of it, given what is read of children. `budget` is the number  *)
(* of objects the stream may still have; an object that cannot be read     *)
(* leaves none.                                                            *)
NotAnObject == [end |-> None, events |-> <<>>, budget |-> 0]
Before(events, rest) == [rest EXCEPT !.events = events \o @]
ReadObjectBy(a, depth, budget, children) ==
  IF depth > MaxDepth \/ budget = 0 \/ PropsEnd(PropsAt(a)) = None THEN NotAnObject
  ELSE Before(Events(Chars(NameAt(a)), PropsAt(a)),
              children[<<PropsEnd(PropsAt(a)), depth + 1, budget - 1, MaxItems>>])

(* Objects up to a byte of 0, which must come within `turns`.              *)
ChildrenBy(a, depth, budget, turns, children) ==
  LET child == ReadObjectBy(a, depth, budget, children)
  IN IF turns = 0 \/ Byte(a) = None THEN NotAnObject
     ELSE IF Byte(a) = 0 THEN [end |-> a + 1, events |-> <<>>, budget |-> budget]
     ELSE IF child.end = None THEN NotAnObject
     ELSE Before(child.events, children[<<child.end, depth, child.budget, turns - 1>>])
ReadChildren[c \in Nat \X Nat \X Nat \X Nat] ==
  ChildrenBy(c[1], c[2], c[3], c[4], ReadChildren)

ReadObject(a, depth, budget) == ReadObjectBy(a, depth, budget, ReadChildren)

HasMagic(a) == Readable(a, Len(MAGIC)) /\ \A i \in 1 .. Len(MAGIC) : image[a + i - 1] = MAGIC[i]

(* parse_stream *)
NoStream == [addr |-> None, end |-> None, events |-> <<>>]
StreamOf(a, root) ==
  IF ~HasMagic(a) \/ root.end = None THEN NoStream
  ELSE [addr |-> a + Len(MAGIC), end |-> root.end, events |-> root.events]
ParseStream(a) == StreamOf(a, ReadObject(a + Len(MAGIC), 0, MaxItems))

(* find_streams: what a block adds whose signatures are at `hits`, in the  *)
(* order of their addresses; below the watermark none.                     *)
Extend(known, a, stream) ==
  IF (\E s \in ToSet(known) : a < s.end) \/ stream = NoStream THEN known
  ELSE Append(known, stream)
FindIn(found, hits, from, to) ==
  LET known[a \in from .. to] ==
        IF a = from THEN found
        ELSE IF a - 1 \in hits THEN Extend(known[a - 1], a - 1, ParseStream(a - 1))
        ELSE known[a - 1]
  IN known[to]
=============================================================================
