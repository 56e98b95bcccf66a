---------------------------- MODULE ImageReader ----------------------------
(***************************************************************************)
(* The bytes of an image as the scanners read them (Reader in              *)
(* src/rtti/parser.py).  Sizes are scaled: a u8 or a u16 is one byte, a    *)
(* u32 or a pointer is two, little-endian, and a byte has Base values.     *)
(* An address is valid when it belongs to a section; it is readable only   *)
(* when the file has a byte for it, which the end of a section often has   *)
(* not.  A failed read is None.                                            *)
(***************************************************************************)
EXTENDS Integers, FiniteSets, SequencesExt

CONSTANTS Base,                   \* the number of values of a byte
          CodeStart, CodeEnd,     \* the code section is [CodeStart, CodeEnd)
          DataEnd,                \* the data section is [CodeEnd, DataEnd)
          Text,                   \* bytes a constant without a header may hold
          Latin,                  \* bytes a string constant may hold
          Ident,                  \* bytes an identifier may hold
          MaxCount                \* the cap on the count of any table

ASSUME ReaderAssumption ==
  /\ {Base, CodeStart, CodeEnd, DataEnd, MaxCount} \subseteq Nat
  /\ 0 < CodeStart /\ CodeStart < CodeEnd /\ CodeEnd <= DataEnd /\ DataEnd <= Base
  /\ Ident \subseteq Text /\ Text \subseteq Latin
  /\ Latin \subseteq DataEnd .. Base - 1

VARIABLE image          \* the readable addresses, each with its byte

None == -1
Width == 2

Mapped(a) == a \in CodeStart .. DataEnd - 1
Code(a) == a \in CodeStart .. CodeEnd - 1

Readable(a, n) == a .. a + n - 1 \subseteq DOMAIN image
Byte(a) == IF a \in DOMAIN image THEN image[a] ELSE None
Word(a) == IF Readable(a, Width) THEN image[a] + Base * image[a + 1] ELSE None

(* shortstr: a length byte and that many characters; the address past them. *)
StrEnd(a) == LET n == Byte(a) IN IF n # None /\ Readable(a + 1, n) THEN a + 1 + n ELSE None

(* is_identifier of the ShortString at a. *)
IsName(a, min) ==
  /\ StrEnd(a) # None
  /\ Byte(a) >= min
  /\ \A x \in a + 1 .. StrEnd(a) - 1 : image[x] \in Ident

NameEnd(a) == IF IsName(a, 1) THEN StrEnd(a) ELSE None

(* Where each of n records starting at p begins, and where the last ends:  *)
(* the empty sequence when one of them is not what it should be.  EndOf is *)
(* the function from where a record begins to where it ends.               *)
Walk(p, n, EndOf) ==
  LET ends[i \in 0 .. n] ==
        IF i = 0 THEN p
        ELSE LET q == ends[i - 1] IN IF q = None THEN None ELSE EndOf[q]
  IN IF ends[n] = None THEN <<>> ELSE [i \in 1 .. n + 1 |-> ends[i - 1]]

(* The same walk when it keeps what it read before the first bad record.   *)
WalkEnd(p, n, EndOf) ==
  FoldLeft(LAMBDA q, i : IF EndOf[q] = None THEN q ELSE EndOf[q], p, [i \in 1 .. n |-> i])

(* How many code addresses lie one after another at a, `most` at most.     *)
CodeWords(a, most) ==
  CHOOSE k \in 0 .. most :
    /\ \A j \in 0 .. k - 1 : Code(Word(a + Width * j))
    /\ k = most \/ ~Code(Word(a + Width * k))
=============================================================================
