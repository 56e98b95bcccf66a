--------------------------- MODULE MCImageScanner --------------------------
(***************************************************************************)
(* Images for ImageScanner: classes laid out as the compiler does, with    *)
(* every single byte overwritten and every truncation, and constants and   *)
(* forms of every shape at every distance from a seam.                     *)
(***************************************************************************)
EXTENDS WrittenForms

W(x) == <<x % Base, x \div Base>>
Words(ws) == FlattenSeq([i \in DOMAIN ws |-> W(ws[i])])
Rep(b, n) == [i \in 1 .. n |-> b]
T == 120                                    \* an identifier's character
Laid(start, bytes) == [a \in start .. start + Len(bytes) - 1 |-> bytes[a - start + 1]]
Here == -1                                  \* stands for the address behind its cell
Placed(f) == [a \in DOMAIN f |-> IF f[a] = Here THEN a + Width ELSE f[a]]
Image(code, data) ==
  Placed(Laid(CodeStart, code \o Rep(1, CodeEnd - CodeStart - Len(code)) \o data))

(* Delphi 3 classes: method tables, classic and extended; two interfaces   *)
(* whose vtables lie side by side; no virtual method but a dynamic table,  *)
(* fields and managed fields.                                              *)
WithMethods ==
  Words(<<24, 0, 0, 0, 26, 0, 45, 6, 0, 30>>) \o W(30) \o
  <<1, 10>> \o W(30) \o <<1, T, 1, 0, 0, 1, 1>> \o
  <<1>> \o W(42) \o <<1, 0>> \o <<5>> \o W(30) \o <<1, T>>
WithInterfaces ==
  Words(<<30, 30, 30>>) \o W(2) \o <<9>> \o W(4) \o W(0) \o <<9>> \o W(8) \o W(0) \o
  Words(<<42, 10, 0, 0, 0, 0, 44, 6, 0, 30>>) \o W(30) \o <<1, T>>
WithFields ==
  Words(<<24, 0, 39, 28, 0, 24, 34, 6, 0, 30>>) \o
  <<1, 7>> \o W(30) \o <<1>> \o W(36) \o W(3) \o <<116, 1, T>> \o
  <<1>> \o W(33) \o <<119, 0>> \o Words(<<6, 1, 37, 4>>)
(* Delphi 2: a class at 20 and its descendant at 36, no self-pointers.     *)
Hierarchy ==
  Words(<<0, 0, 0, 0, 36, 6, 0, 30>>) \o Words(<<39, 0, 0, 0, 36, 8, 20, 30>>) \o
  <<2, T, T>> \o <<119, 0>> \o Words(<<8, 1, 49, 4>>) \o <<116, 1, T>>

Programs == {Image(p, Rep(1, DataEnd - CodeEnd)) :
               p \in {WithMethods, WithInterfaces, WithFields, Hierarchy}}
Bytes == {0, 1, 2, 5, 10, 24, 30, 42, 45, T, Base - 1}
Overwritten == {[p EXCEPT ![a] = b] : p \in Programs, a \in CodeStart .. CodeEnd - 1, b \in Bytes}
Truncated == {[a \in DOMAIN p \ (n .. CodeEnd - 1) |-> p[a]] :
                p \in Programs, n \in CodeStart .. CodeEnd - 1}

(* A class of a dialect that has wide strings, then constants.             *)
Class2009 == Words(<<26, 0, 0, 0, 0, 0, 26, 6, 0, 30, 30>>) \o <<1, T>>
Narrow(n) == Rep(T + 1, n) \o <<0>>
Wide(n) == FlattenSeq([i \in 1 .. n |-> <<T + 1, 0>>]) \o <<0, 0>>
Ansi == <<Base - 1, Base - 1, 1, 0, T + 2, 0>>
Unicode == <<Utf16, 2, Base - 1, Base - 1, 1, 0, T, 0, 0, 0>>
Cell(record) == <<Here, 0>> \o record
Records == {Cell(<<116, 1, T>>), Cell(<<118, 1, T, 0, 1, 1, T, 1, T, 1, T>>),
            Cell(<<117, 1, T, 0, 0, 1, T, 1, 0, 0, 1, T>>),
            Cell(<<119, 1, T, 4, 0, 1, 0, 24, 0, 2, 0>>)}
Pieces == {Narrow(1), Narrow(3), Narrow(4), Wide(2), Wide(4), Ansi, Unicode} \union Records
Soup(shift, one, two, x, y, z) ==
  LET code == Class2009 \o Rep(z, shift) \o one \o Rep(1, Len(one) % 2) \o two
      first == CodeStart + Len(Class2009) + shift
      second == first + Len(one) + (Len(one) % 2)
  IN Image(code, W(IF x THEN first ELSE 1) \o <<1>> \o W(IF y THEN second ELSE 1))
Soups ==
  {Soup(s[1], s[2], s[3], s[4], s[5], s[6]) :
     s \in {t \in (0 .. 5) \X Pieces \X Pieces \X BOOLEAN \X BOOLEAN \X {1, T} :
              t[1] + Len(t[2]) + 1 + Len(t[3]) <= CodeEnd - CodeStart - Len(Class2009)}}

(* A wide constant that begins with the last character of a narrow one,    *)
(* with pointers to both, to either and to none.                           *)
Overlap == Rep(T + 1, 3) \o <<0, T + 1, 0, 0, 0>>
Overlapping ==
  LET first(shift) == CodeStart + Len(Class2009) + shift
  IN {Image(Class2009 \o Rep(1, s[1]) \o Overlap,
            W(IF s[2] THEN first(s[1]) ELSE 1) \o <<1>> \o W(IF s[3] THEN first(s[1]) + 2 ELSE 1)) :
        s \in (0 .. 5) \X BOOLEAN \X BOOLEAN}

(* A managed field behind the unreadable last byte of the code section.    *)
AcrossSections ==
  LET code == Words(<<24, 0, 49, 28, 0, 24, 34, 6, 0, 30>>) \o
              <<1, 7>> \o W(30) \o <<1>> \o W(36) \o W(3) \o <<116, 1, T>> \o
              <<1>> \o W(33) \o Rep(1, 10) \o <<119, 0>>
      whole == Image(code, Words(<<6, 1, 37, 4>>))
  IN [a \in DOMAIN whole \ {CodeEnd - 1} |-> whole[a]]

(* Forms: a value of every encoding before an event, one of them a blob    *)
(* that holds a form; controls inside, with flags and without a name.      *)
Value(code, chars, parts) ==
  LET v == [code |-> code, chars |-> chars, parts |-> parts]
  IN [code |-> code, chars |-> chars, parts |-> parts, bytes |-> <<code>> \o Payload(v)]
Name(chars) == [name |-> chars, bytes |-> Str(chars)]
Prop(name, value) == [name |-> name, value |-> value, bytes |-> Str(name) \o value.bytes]
Item(index, props) ==
  [index |-> index, props |-> props, bytes |-> index \o <<1>> \o Listed(props)]
Object(flags, name, props, children) ==
  LET o == [flags |-> flags, index |-> IF (flags \div 2) % 2 = 1 THEN <<2, 3>> ELSE <<>>,
            cls |-> <<T>>, name |-> name, props |-> props, children |-> children]
  IN o @@ [height |-> Max({0} \union {children[i].height + 1 : i \in DOMAIN children}),
           bytes |-> Written(o), names |-> NamesIn(o), events |-> Assignments(o)]

False == Value(8, <<>>, <<>>)
True == Value(9, <<>>, <<>>)
Int8(n) == Value(2, <<n>>, <<>>)
Handler == Value(7, <<T>>, <<>>)
Event == Prop(<<On, T>>, Handler)
Plain == Object(0, <<>>, <<>>, <<>>)
Single == Value(1, <<>>, <<False>>)
Encoded ==
  {False, Int8(5), Value(4, <<1, 1>>, <<>>), Value(5, <<1, 0, 1, 0, 1>>, <<>>),
   Value(6, <<1, 2>>, <<>>), Value(7, <<On>>, <<>>),
   Value(11, <<>>, <<Name(<<T>>), Name(<<On>>)>>), Value(18, <<T, 0, T, 0>>, <<>>),
   Value(12, <<1, 1, 1>>, <<>>), Value(1, <<>>, <<Int8(5), True, Single>>),
   Value(14, <<>>, <<Item(<<>>, <<Prop(<<T>>, True)>>), Item(Int8(1).bytes, <<>>)>>),
   Value(10, MAGIC \o Plain.bytes, <<>>)}
Inside == {<<>>, <<Object(3, <<On>>, <<Event>>, <<>>)>>,
           <<Object(4, <<>>, <<>>, <<>>), Object(0, <<T>>, <<>>, <<>>)>>}
MCForms ==
  {Plain} \union
  {Object(0, <<T, On>>, <<Prop(<<T>>, v), Event>>, c) : v \in Encoded, c \in Inside}
MCValues == Encoded \union {True, Int8(1), Int8(3), Handler, Single}
MCControls == MCForms \union UNION {ToSet(c) : c \in Inside}

(* Too many properties, too many objects, too deep. *)
Excessive ==
  {Object(0, <<>>, <<Prop(<<T>>, False), Event, Event, Event>>, <<>>),
   Object(0, <<>>, <<>>, <<Plain, Object(0, <<>>, <<>>, <<Plain>>), Plain>>),
   Object(0, <<>>, <<>>, <<Object(0, <<>>, <<>>, <<Object(0, <<>>, <<>>, <<Plain>>)>>)>>)}
FormImage(shift, form) ==
  LET one == Rep(1, shift) \o MAGIC \o form.bytes
      all == IF Len(one) + 9 > DataEnd - CodeStart THEN one ELSE one \o MAGIC \o Plain.bytes
  IN Laid(CodeStart, all \o Rep(0, DataEnd - CodeStart - Len(all)))
Small == FormImage(8, Object(0, <<>>, <<Event>>, <<Object(3, <<>>, <<Prop(<<T>>, Value(18, <<T, 0>>, <<>>))>>, <<>>)>>))
FormImages ==
  {FormImage(p[1], p[2]) : p \in {q \in {0, 6, 7, 8, 9} \X (MCForms \union Excessive) :
                                    q[1] + 4 + Len(q[2].bytes) <= DataEnd - CodeStart}} \union
  {[Small EXCEPT ![a] = b] : a \in CodeStart .. CodeEnd - 1, b \in Bytes \union {Prefix, On}} \union
  {[a \in DOMAIN Small \ (n .. DataEnd - 1) |-> Small[a]] : n \in CodeStart .. DataEnd - 1}

MCImages == Programs \union Overwritten \union Truncated \union Soups \union Overlapping
            \union FormImages \union {AcrossSections}
=============================================================================
