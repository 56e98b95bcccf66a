----------------------------- MODULE VmtTables -----------------------------
(***************************************************************************)
(* A class header and the tables it points at, as parse_vmt reads them     *)
(* from bytes nobody vouches for.  Every table is taken whole or not at    *)
(* all, and each leaves the byte ranges it occupies ("regions"), which     *)
(* the caller declares as data.  Names, type references, GUIDs and calling *)
(* conventions are read past, not kept.                                    *)
(***************************************************************************)
EXTENDS ImageReader

CONSTANTS MaxAttr,        \* MAX_ATTR_DATA
          MaxInstance,    \* MAX_INSTANCE_SIZE
          RecordKind, EnumKind, ClassKind, PlainKind

TypeKinds == {RecordKind, EnumKind, ClassKind, PlainKind}

ASSUME TablesAssumption ==
  /\ {MaxAttr, MaxInstance} \subseteq Nat
  /\ TypeKinds \subseteq 0 .. Base - 1

ManagedKinds == {RecordKind, PlainKind}

(* ---------------------------------------------------------- the layouts *)
D3Slots == <<"vmtSelfPtr", "vmtIntfTable", "vmtInitTable", "vmtFieldTable",
             "vmtMethodTable", "vmtDynamicTable", "vmtClassName",
             "vmtInstanceSize", "vmtParent">>
D2Slots == SubSeq(D3Slots, 3, Len(D3Slots))
TableSlots == {"vmtIntfTable", "vmtInitTable", "vmtFieldTable", "vmtMethodTable",
               "vmtDynamicTable", "vmtClassName"}

Delphi2 == [slots |-> D2Slots, virtuals |-> 1, wide |-> FALSE]
Delphi3 == [slots |-> D3Slots, virtuals |-> 1, wide |-> FALSE]
Delphi2009 == [slots |-> D3Slots, virtuals |-> 2, wide |-> TRUE]
Variants == <<Delphi2, Delphi3, Delphi2009>>

Has(l, s) == s \in ToSet(l.slots)
HasSelfPtr(l) == Has(l, "vmtSelfPtr")
HeaderSize(l) == (Len(l.slots) + l.virtuals) * Width
SlotOffset(l, s) == (SelectInSeq(l.slots, LAMBDA t : t = s) - 1) * Width - HeaderSize(l)
Slot(l, a, s) == IF Has(l, s) THEN Word(a + SlotOffset(l, s)) ELSE None

(* ------------------------------------------------- headers by their shape *)
ShapedLikeClass(l, a) ==
  /\ Mapped(Slot(l, a, "vmtClassName"))
  /\ IsName(Slot(l, a, "vmtClassName"), 2)
  /\ Slot(l, a, "vmtInstanceSize") \in Width .. MaxInstance

(* _class_head: the slots corroborate one another. *)
ClassHead(l, a) ==
  LET parent == Slot(l, a, "vmtParent")
  IN /\ ShapedLikeClass(l, a)
     /\ \A i \in 1 .. l.virtuals : Code(Word(a - i * Width))
     /\ parent \notin {None, 0} =>
          /\ Mapped(parent)
          /\ ShapedLikeClass(l, parent)
          /\ Slot(l, parent, "vmtInstanceSize") <= Slot(l, a, "vmtInstanceSize")

IsVmt(l, a) ==
  IF HasSelfPtr(l)
  THEN /\ Slot(l, a, "vmtSelfPtr") = a
       /\ Mapped(Slot(l, a, "vmtClassName"))
       /\ IsName(Slot(l, a, "vmtClassName"), 1)
  ELSE ClassHead(l, a)

(* -------------------------------------------------------------- the tables *)
Nothing == [entries |-> <<>>, regions |-> {}]
Found(starts, more) == [entries |-> Front(starts), regions |-> more]

(* _attrdata_end: a length that counts itself, all of it readable. *)
AttrEnd(a) ==
  IF Byte(a) \in 1 .. MaxAttr /\ Readable(a, Byte(a)) THEN a + Byte(a) ELSE None

(* A parameter: flags, type, offset (one byte here), a name and attributes. *)
ParamEnd(a) ==
  IF Byte(a) = None \/ StrEnd(a + 1) = None THEN None ELSE AttrEnd(StrEnd(a + 1))

(* parse_method_entry and the tests its callers make of the result: length, *)
(* code address, name and then nothing more, or a byte that counts the      *)
(* parameters, those, and attributes that end where the length says.        *)
MethodEnd(a) ==
  LET end == a + Byte(a)
      after == StrEnd(a + 1 + Width)
      params == Walk(after + 1, Byte(after), [q \in Int |-> ParamEnd(q)])
  IN IF /\ Byte(a) >= 2 + Width
        /\ IsName(a + 1 + Width, 1)
        /\ Code(Word(a + 1))
        /\ \/ after = end
           \/ /\ after < end
              /\ Byte(after) # None
              /\ params # <<>>
              /\ AttrEnd(Last(params)) = end
     THEN end ELSE None

(* The extended table behind the classic one: pointers to entries, flags   *)
(* (is the method dispatched at all) and a slot, which must agree.         *)
NoSlotIndex(l) == Base - (l.virtuals + 1)
ExMethodEnd(l, a) ==
  LET entry == Word(a)
      dispatched == Byte(a + Width) # 0
      index == Byte(a + Width + 1)
  IN IF /\ Mapped(entry)
        /\ MethodEnd(entry) # None
        /\ Readable(a + Width, 2)
        /\ dispatched # (index = NoSlotIndex(l))
     THEN a + Width + 2 ELSE None

MethodTableEx(l, p) ==
  LET starts == Walk(p + 1, Byte(p), [q \in Int |-> ExMethodEnd(l, q)])
  IN IF Byte(p) \notin 1 .. MaxCount \/ starts = <<>> THEN Nothing
     ELSE Found(starts, {<<p, Last(starts)>>} \union
                        {<<Word(e), MethodEnd(Word(e))>> : e \in ToSet(Front(starts))})

MethodTable(l, a) ==
  LET p == Slot(l, a, "vmtMethodTable")
      starts == Walk(p + 1, Byte(p), [q \in Int |-> MethodEnd(q)])
      ex == MethodTableEx(l, Last(starts))
  IN IF ~Mapped(p) \/ Byte(p) \notin 0 .. MaxCount \/ starts = <<>> THEN Nothing
     ELSE Found(starts, {<<p, Last(starts)>>} \union ex.regions)

(* A count, that many ids, then that many handlers. *)
DynamicTable(l, a) ==
  LET p == Slot(l, a, "vmtDynamicTable")
      n == Byte(p)
      HandlerEnd == [h \in Int |-> IF Code(Word(h)) THEN h + Width ELSE None]
      starts == Walk(p + 1 + n, n, HandlerEnd)
  IN IF ~Mapped(p) \/ n \notin 0 .. MaxCount \/ ~Readable(p + 1, n) \/ starts = <<>>
     THEN Nothing
     ELSE Found(starts, {<<p, Last(starts)>>})

(* A count, the address of the class table, then offset, index and name.   *)
FieldEnd(a) == IF Readable(a, Width + 1) THEN NameEnd(a + Width + 1) ELSE None
FieldTable(l, a) ==
  LET p == Slot(l, a, "vmtFieldTable")
      ctab == Word(p + 1)
      ctabEnd == ctab + 1 + Width * Byte(ctab)
      starts == Walk(p + 1 + Width, Byte(p), [q \in Int |-> FieldEnd(q)])
  IN IF ~Mapped(p) \/ Byte(p) \notin 0 .. MaxCount \/ ctab = None \/ starts = <<>>
     THEN Nothing
     ELSE Found(starts,
            {<<p, Last(starts)>>} \union
            IF Mapped(ctab) /\ Byte(ctab) \in 0 .. MaxCount /\ Readable(ctab, ctabEnd - ctab)
            THEN {<<ctab, ctabEnd>>} ELSE {})

(* The managed fields, under either of the two shapes a record comes in:   *)
(* references and offsets, the offsets ascending and inside the instance.  *)
ManagedEnd(l, size, first, a) ==
  LET ref == Word(a)
      ti == IF HasSelfPtr(l) THEN Word(ref) ELSE ref
      off == Word(a + Width)
  IN IF /\ Mapped(ref) /\ Mapped(ti)
        /\ Byte(ti) \in ManagedKinds
        /\ StrEnd(ti + 1) \notin {None, ti + 2}
        /\ \A x \in ti + 2 .. StrEnd(ti + 1) - 1 : image[x] \in Text
        /\ off \in Width .. size - 1
        /\ a = first \/ Word(a - Width) < off
     THEN a + 2 * Width ELSE None

InitTable(l, a) ==
  LET p == Slot(l, a, "vmtInitTable")
      size == Slot(l, a, "vmtInstanceSize")
      Fields(head) ==
        LET base == StrEnd(p + 1) + head
            first == base + 2 * Width
            EndOf == [e \in Int |-> ManagedEnd(l, size, first, e)]
        IN IF Word(base) = None \/ Word(base + Width) \notin 1 .. MaxCount THEN <<>>
           ELSE Walk(first, Word(base + Width), EndOf)
      starts == IF Fields(0) # <<>> THEN Fields(0) ELSE Fields(1)
  IN IF ~Mapped(p) \/ Byte(p) # RecordKind \/ StrEnd(p + 1) = None \/ starts = <<>>
     THEN Nothing
     ELSE Found(starts, {<<p, Last(starts)>>})

(* The thunks of one interface: code addresses, as far as there are any.   *)
IntfSlotsUnbounded(starts, vtable) == CodeWords(vtable, MaxCount)
(* The thunks of one interface: code addresses, as far as the next vtable. *)
IntfSlots(starts, vtable) ==
  LET above == {s \in starts : s > vtable}
      next == CHOOSE s \in above : \A t \in above : s <= t
      room == (next - vtable) \div Width
  IN CodeWords(vtable, IF above = {} \/ room > MaxCount THEN MaxCount ELSE room)

(* An entry: a GUID, the vtable and a getter. *)
IntfEnd(a) == IF Readable(a, 1 + 2 * Width) THEN a + 1 + 2 * Width ELSE None
IntfTable(l, a) ==
  LET p == Slot(l, a, "vmtIntfTable")
      starts == Walk(p + Width, Word(p), [e \in Int |-> IntfEnd(e)])
      vtables == {v \in {Word(e + 1) : e \in ToSet(Front(starts))} : Mapped(v)}
      walked == {v \in vtables : IntfSlots(vtables, v) > 0}
      ends == {<<v, v + Width * IntfSlots(vtables, v)>> : v \in walked}
  IN IF ~Mapped(p) \/ Word(p) \notin 1 .. MaxCount \/ starts = <<>>
     THEN [entries |-> <<>>, regions |-> {}, vtables |-> {}]
     ELSE [entries |-> Front(starts), regions |-> {<<p, Last(starts)>>} \union ends,
           vtables |-> ends]

(* _parse_vtable: code addresses from the class pointer on, to the nearest *)
(* table of the class.                                                     *)
VtableEnd(l, a) ==
  LET tables == {p \in {Slot(l, a, s) : s \in TableSlots} : p >= a}
      ceiling == CHOOSE p \in tables : \A q \in tables : p <= q
      room == (ceiling - a + Width - 1) \div Width
  IN a + Width * CodeWords(a, IF tables = {} \/ room > MaxCount THEN MaxCount ELSE room)

Tables(l, a) == [intf |-> IntfTable(l, a), init |-> InitTable(l, a),
                 field |-> FieldTable(l, a), method |-> MethodTable(l, a),
                 dynamic |-> DynamicTable(l, a)]
Regions(l, a) ==
  LET t == Tables(l, a)
      name == Slot(l, a, "vmtClassName")
  IN {<<name, StrEnd(name)>>} \union UNION {t[k].regions : k \in DOMAIN t}

(* ----------------------------------------------------------- type records *)
(* _unitname: taken only where there is one. *)
UnitEnd(p) == IF IsName(p, 1) THEN StrEnd(p) ELSE p

(* What follows the name, by kind.  Fields of fixed size, two bytes here,  *)
(* are stepped over, read or not.                                          *)
EnumEnd(p) ==
  LET names == Walk(p + 2, Byte(p + 1) - Byte(p) + 1, [q \in Int |-> NameEnd(q)])
  IN IF ~Readable(p, 2) \/ Byte(p + 1) - Byte(p) \notin 0 .. MaxCount THEN UnitEnd(p + 2)
     ELSE IF names = <<>> THEN None ELSE UnitEnd(Last(names))

ClassInfoEnd(p) ==
  LET props == UnitEnd(p + Width)
  IN IF Byte(props) \notin 0 .. MaxCount THEN props + 1
     ELSE WalkEnd(props + 1, Byte(props), [q \in Int |-> NameEnd(q + Width)])

RecordInfoEnd(p) ==
  p + 2 * Width + (IF Word(p + Width) \in 0 .. MaxCount THEN 2 * Width * Word(p + Width) ELSE 0)

(* Where the TTypeInfo at a ends, or None: a kind, a name, then by kind.   *)
TypeInfoEnd(a) ==
  LET p == StrEnd(a + 1)
  IN IF Byte(a) \notin TypeKinds \/ ~IsName(a + 1, 1) THEN None
     ELSE CASE Byte(a) = PlainKind -> p
            [] Byte(a) = EnumKind -> EnumEnd(p)
            [] Byte(a) = ClassKind -> ClassInfoEnd(p)
            [] OTHER -> RecordInfoEnd(p)
=============================================================================
