----------------------------- MODULE ParserProofs -----------------------------
(***************************************************************************)
(* Proofs about the two parsers of files nobody vouches for.  Of           *)
(* ImageScanner, for any image, any size of blocks and any number of       *)
(* steps: a scan finds what a look at every address would, the constants   *)
(* without a header and the form streams among it, takes only what can be  *)
(* read, and reads back every form that was written as Delphi writes them. *)
(* Of MapDebugInfo, for any files, any view and any limit: what is         *)
(* contributed is what the whole file says, and a file that is turned down *)
(* or cancelled contributes nothing.                                       *)
(***************************************************************************)
EXTENDS WrittenForms, MapDebugInfo, ListsProofs

Section == CodeStart .. CodeEnd - 1

LEMMA Bounds ==
  /\ CodeStart \in Nat /\ CodeEnd \in Nat /\ DataEnd \in Nat /\ Base \in Nat
  /\ 0 < CodeStart /\ CodeStart < CodeEnd /\ Chunk \in Nat /\ Chunk >= 2 /\ Chunk % 2 = 0
  /\ Steps \in Nat /\ Steps >= 1
  /\ CodeStart \in Section
BY ReaderAssumption, ScannerAssumption DEF Width, Section

(* Blocks leave out no address. *)
LEMMA InSomeBlock ==
  ASSUME NEW start \in Nat, NEW end \in Nat, NEW a \in start .. end - 1
  PROVE  \E b \in Blocks(start, end) : b <= a /\ a < b + Chunk
<1>1. Chunk \in Nat /\ Chunk >= 1
  BY Bounds
<1> DEFINE r == (a - start) % Chunk
           q == (a - start) \div Chunk
<1>2. r \in 0 .. Chunk - 1 /\ q \in Nat /\ a - start = Chunk * q + r
  BY <1>1
<1> HIDE DEF r, q
<1>3. a - r - start = Chunk * q /\ a - r \in Int
  BY <1>1, <1>2
<1>4. Chunk * q \in Nat
  BY <1>1, <1>2
<1>5. (Chunk * q) % Chunk = 0
  BY <1>1, <1>2
<1>6. a - r \in start .. end - 1 /\ (a - r - start) % Chunk = 0
  BY <1>2, <1>3, <1>4, <1>5
<1>7. a - r <= a /\ a < (a - r) + Chunk
  BY <1>1, <1>2
<1> QED BY <1>6, <1>7 DEF Blocks

LEMMA LeastIs ==
  ASSUME NEW a \in Int, NEW b \in Int
  PROVE  /\ Least(a, b) \in Int /\ Least(a, b) <= a /\ Least(a, b) <= b
         /\ Least(a, b) = a \/ Least(a, b) = b
         /\ Greatest(a, b) \in Int /\ a <= Greatest(a, b) /\ b <= Greatest(a, b)
         /\ Greatest(a, b) = a \/ Greatest(a, b) = b
BY DEF Least, Greatest

(* At every byte: what a block holds in full and what runs past it are all *)
(* its addresses.                                                          *)
LEMMA WholeBlock ==
  ASSUME NEW base \in Nat, NEW stop \in Nat, base < stop, NEW from \in Nat
  PROVE  InArrays(base, stop, 1) \union InTail(base, stop, from, 1) = base .. stop - 1
<1>1. ASSUME NEW a \in base .. stop - 2
      PROVE  a \in InArrays(base, stop, 1)
  <2> DEFINE o == (a - base) % 2
             k == (a - base) \div 2
  <2>1. o \in 0 .. 1 /\ k \in Nat /\ a = base + o + 2 * k
    OBVIOUS
  <2>2. k \in 0 .. (stop - base - o) \div 2 - 1
    <3> HIDE DEF o, k
    <3> QED BY <2>1
  <2>3. o \in {x \in 0 .. 2 - 1 : x % 1 = 0}
    BY <2>1
  <2> HIDE DEF o, k
  <2> DEFINE array(x) == {base + x + 2 * j : j \in 0 .. (stop - base - x) \div 2 - 1}
  <2>4. a \in array(o)
    BY <2>1, <2>2
  <2>5. InArrays(base, stop, 1) = UNION {array(x) : x \in {y \in 0 .. 2 - 1 : y % 1 = 0}}
    BY DEF InArrays, Width
  <2> HIDE DEF array
  <2> QED BY <2>3, <2>4, <2>5
<1>2. ASSUME NEW a \in InArrays(base, stop, 1)
      PROVE  a \in base .. stop - 1
  <2>1. PICK o \in 0 .. 1 : \E k \in 0 .. (stop - base - o) \div 2 - 1 : a = base + o + 2 * k
    BY <1>2 DEF InArrays, Width
  <2>2. PICK k \in 0 .. (stop - base - o) \div 2 - 1 : a = base + o + 2 * k
    BY <2>1
  <2> QED BY <2>2
<1>3. InTail(base, stop, from, 1) = {stop - 1}
  <2>1. (stop - Width + 1) + ((from - (stop - Width + 1)) % 1) = stop - 1
    BY DEF Width
  <2>2. Greatest(base, stop - 1) = stop - 1
    BY DEF Greatest
  <2>3. InTail(base, stop, from, 1) = {a \in stop - 1 .. stop - 1 : (a - (stop - 1)) % 1 = 0}
    BY <2>1, <2>2 DEF InTail
  <2> QED BY <2>3
<1> QED BY <1>1, <1>2, <1>3

(* Whatever the blocks and whatever of them can be read, a search at every *)
(* byte sees every pointer that begins in its range.                       *)
LEMMA SelfPointersAll ==
  ASSUME NEW start \in Nat, NEW end \in Nat, start < end, NEW deltas
  PROVE  SelfPointers(start, end, deltas, 1) = {a \in start .. end - 1 : Points(a, deltas)}
<1> DEFINE InBlock(base, stop) ==
             IF Readable(base, stop - base)
             THEN InArrays(base, stop, 1) \union InTail(base, stop, start, 1)
             ELSE {a \in base .. stop - 1 : (a - base) % 1 = 0}
           of(b) == {a \in InBlock(b, Least(b + Chunk, end)) : Points(a, deltas)}
<1>1. SelfPointers(start, end, deltas, 1) = UNION {of(b) : b \in Blocks(start, end)}
  BY DEF SelfPointers
<1>2. ASSUME NEW b \in Blocks(start, end)
      PROVE  /\ b \in Nat /\ b >= start /\ Least(b + Chunk, end) <= end
             /\ of(b) = {a \in b .. Least(b + Chunk, end) - 1 : Points(a, deltas)}
  <2> DEFINE stop == Least(b + Chunk, end)
  <2>1. b \in Nat /\ b >= start /\ b < end
    BY DEF Blocks
  <2>2. Chunk \in Nat /\ Chunk >= 2
    BY Bounds
  <2>3. stop \in Nat /\ b < stop /\ stop <= end
    <3>1. b + Chunk \in Int /\ end \in Int
      BY <2>1, <2>2
    <3>2. /\ stop \in Int /\ stop <= b + Chunk /\ stop <= end
          /\ stop = b + Chunk \/ stop = end
      BY <3>1, LeastIs
    <3> HIDE DEF stop
    <3> QED BY <2>1, <2>2, <3>2
  <2>4. InBlock(b, stop) = b .. stop - 1
    <3> HIDE DEF stop
    <3>1. InArrays(b, stop, 1) \union InTail(b, stop, start, 1) = b .. stop - 1
      BY <2>1, <2>3, WholeBlock
    <3>2. {a \in b .. stop - 1 : (a - b) % 1 = 0} = b .. stop - 1
      BY <2>1, <2>3
    <3> QED BY <3>1, <3>2
  <2> HIDE DEF InBlock
  <2> QED BY <2>1, <2>3, <2>4
<1> HIDE DEF of, InBlock
<1>3. ASSUME NEW a \in start .. end - 1, Points(a, deltas)
      PROVE  \E b \in Blocks(start, end) : a \in of(b)
  <2>1. PICK b \in Blocks(start, end) : b <= a /\ a < b + Chunk
    BY InSomeBlock
  <2>2. b \in Nat /\ Chunk \in Nat
    BY <1>2, <2>1, Bounds
  <2>3. a \in b .. Least(b + Chunk, end) - 1
    <3>1. b + Chunk \in Int /\ end \in Int
      BY <2>2
    <3>2. /\ Least(b + Chunk, end) \in Int
          /\ Least(b + Chunk, end) = b + Chunk \/ Least(b + Chunk, end) = end
      BY <3>1, LeastIs
    <3> QED BY <2>1, <2>2, <3>2
  <2> QED BY <1>2, <1>3, <2>1, <2>3
<1>4. ASSUME NEW b \in Blocks(start, end), NEW a \in of(b)
      PROVE  a \in start .. end - 1 /\ Points(a, deltas)
  <2>1. /\ b \in Nat /\ b >= start /\ Least(b + Chunk, end) <= end
        /\ a \in b .. Least(b + Chunk, end) - 1 /\ Points(a, deltas)
    BY <1>2, <1>4
  <2>2. Least(b + Chunk, end) \in Int
    BY <2>1, Bounds, LeastIs
  <2> QED BY <2>1, <2>2
<1> QED BY <1>1, <1>3, <1>4

-----------------------------------------------------------------------------
(* The dialects: where the header's slots are.                             *)
LEMMA LayoutFacts ==
  ASSUME NEW l \in ToSet(Variants)
  PROVE  /\ l \in {Delphi2, Delphi3, Delphi2009}
         /\ HeaderSize(l) \in Nat /\ HeaderSize(l) > Width
         /\ HasSelfPtr(l) => SlotOffset(l, "vmtSelfPtr") = -HeaderSize(l)
         /\ \A s : SlotOffset(l, s) \in Int
<1>1. l \in {Delphi2, Delphi3, Delphi2009}
  BY DEF Variants, ToSet
<1>2. Len(D3Slots) = 9 /\ D3Slots[1] = "vmtSelfPtr" /\ DOMAIN D3Slots = 1 .. 9
  BY DEF D3Slots
<1>3. Len(D2Slots) = 7 /\ DOMAIN D2Slots = 1 .. 7
  BY <1>2 DEF D2Slots
<1>4. /\ Len(l.slots) \in {7, 9}
      /\ l.virtuals = 1 \/ l.virtuals = 2
      /\ l.slots = D3Slots \/ l.slots = D2Slots
  <2>1. CASE l = Delphi2
    BY <1>3, <2>1 DEF Delphi2
  <2>2. CASE l = Delphi3
    BY <1>2, <2>2 DEF Delphi3
  <2>3. CASE l = Delphi2009
    BY <1>2, <2>3 DEF Delphi2009
  <2> QED BY <1>1, <2>1, <2>2, <2>3
<1>5. HeaderSize(l) \in Nat /\ HeaderSize(l) > Width
  <2> DEFINE n == Len(l.slots)
  <2>1. n \in Nat /\ n >= 7
    <3>1. n \in {7, 9}
      BY <1>4
    <3> HIDE DEF n
    <3> QED BY <3>1
  <2>2. l.virtuals \in Nat
    BY <1>4
  <2> QED BY <2>1, <2>2 DEF HeaderSize, Width
<1> DEFINE I(s) == {i \in 1 .. Len(l.slots) : l.slots[i] = s}
           slot(s) == IF I(s) # {} THEN Min(I(s)) ELSE 0
<1>6. ASSUME NEW s
      PROVE  /\ SlotOffset(l, s) = (slot(s) - 1) * Width - HeaderSize(l)
             /\ I(s) \subseteq Nat
             /\ I(s) # {} => Min(I(s)) \in I(s) /\ \A i \in I(s) : Min(I(s)) <= i
  <2>1. SlotOffset(l, s) = (slot(s) - 1) * Width - HeaderSize(l)
    BY DEF SlotOffset, SelectInSeq
  <2>2. I(s) \subseteq Nat
    BY <1>4
  <2> HIDE DEF I
  <2>3. I(s) # {} => \E x \in I(s) : \A y \in I(s) : x <= y
    BY <2>2, LeastNatural
  <2>4. I(s) # {} => Min(I(s)) \in I(s) /\ \A i \in I(s) : Min(I(s)) <= i
    BY <2>3 DEF Min
  <2> QED BY <2>1, <2>2, <2>4
<1>7. ASSUME NEW s PROVE SlotOffset(l, s) \in Int
  <2> HIDE DEF I
  <2>1. slot(s) \in Nat
    BY <1>6
  <2> HIDE DEF slot
  <2> QED BY <1>5, <1>6, <2>1 DEF Width
<1>8. ASSUME HasSelfPtr(l) PROVE SlotOffset(l, "vmtSelfPtr") = -HeaderSize(l)
  <2>1. l.slots = D3Slots
    <3>1. \A i \in 1 .. 7 : D2Slots[i] = D3Slots[i + 2]
      BY <1>2 DEF D2Slots
    <3>2. \A i \in 1 .. 7 : D3Slots[i + 2] # "vmtSelfPtr"
      BY DEF D3Slots
    <3>3. "vmtSelfPtr" \notin ToSet(D2Slots)
      BY <1>3, <3>1, <3>2 DEF ToSet
    <3> QED BY <1>4, <1>8, <3>3 DEF HasSelfPtr, Has
  <2>2. 1 \in I("vmtSelfPtr") /\ \A i \in I("vmtSelfPtr") : 1 <= i
    <3>1. 1 \in 1 .. Len(l.slots) /\ l.slots[1] = "vmtSelfPtr"
      BY <1>2, <2>1
    <3> QED BY <3>1
  <2> HIDE DEF I
  <2>3. Min(I("vmtSelfPtr")) = 1
    BY <1>6, <2>2
  <2>4. slot("vmtSelfPtr") = 1
    BY <2>2, <2>3
  <2> HIDE DEF slot
  <2> QED BY <1>5, <1>6, <2>4 DEF Width
<1> QED BY <1>1, <1>5, <1>7, <1>8

Sizes == {x \in CodeStart .. CodeEnd - 2 : (x - CodeStart) % 2 = 0}

(* Blocks keep the grid of words.                                          *)
LEMMA BlocksOnGrid ==
  ASSUME NEW start \in Nat, NEW end \in Nat, NEW b \in Blocks(start, end)
  PROVE  (b - start) % 2 = 0 /\ b \in start .. end - 1 /\ b \in Nat
<1>1. b \in start .. end - 1 /\ (b - start) % Chunk = 0
  BY DEF Blocks
<1>2. Chunk \in Nat /\ Chunk >= 2 /\ Chunk % 2 = 0
  BY Bounds
<1> DEFINE q == (b - start) \div Chunk
           c == Chunk \div 2
<1>3. q \in Nat /\ b - start = Chunk * q
  BY <1>1, <1>2
<1>4. c \in Nat /\ Chunk = 2 * c
  BY <1>2
<1> HIDE DEF q, c
<1>5. b - start = 2 * (c * q) /\ c * q \in Nat
  BY <1>3, <1>4
<1>6. (b - start) % 2 = 0
  BY <1>5
<1> QED BY <1>1, <1>6

(* What can be read of the image.                                          *)
LEMMA ReadableSection ==
  ASSUME image \in Images, NEW x, Word(x) # None, x \in Section
  PROVE  x + 1 \in DOMAIN image /\ CodeStart .. x \subseteq DOMAIN image
<1>1. Readable(x, 2)
  BY DEF Word, Width
<1>2. x \in Int
  BY Bounds DEF Section
<1>3. x \in DOMAIN image /\ x + 1 \in DOMAIN image
  BY <1>1, <1>2 DEF Readable
<1> QED BY <1>2, <1>3, ScannerAssumption, Bounds DEF Section

(* Classes that have no pointer to themselves are found by their size.     *)
LEMMA AnchorsAll ==
  ASSUME image \in Images, NEW l \in ToSet(Variants)
  PROVE  Anchors(l, CodeStart, CodeEnd) =
           {a \in {x - SlotOffset(l, "vmtInstanceSize") : x \in Sizes} : ClassHead(l, a)}
<1> DEFINE off == SlotOffset(l, "vmtInstanceSize")
           InBlock(base, stop) ==
             IF Readable(base, stop - base)
             THEN {a \in {base + Width * i : i \in 0 .. (stop - base) \div Width - 1} :
                     Word(a) \in Width .. MaxInstance}
             ELSE {a \in base .. stop - 1 : (a - base) % Width = 0}
           of(b) == {a - off : a \in {x \in InBlock(b, Least(b + Chunk, CodeEnd)) :
                                        ClassHead(l, x - off)}}
<1>1. Anchors(l, CodeStart, CodeEnd) = UNION {of(b) : b \in Blocks(CodeStart, CodeEnd)}
  BY DEF Anchors
<1>2. off \in Int
  BY LayoutFacts
<1> HIDE DEF off
<1>3. ASSUME NEW b \in Blocks(CodeStart, CodeEnd)
      PROVE  LET stop == Least(b + Chunk, CodeEnd)
             IN /\ b \in Nat /\ b \in Section /\ (b - CodeStart) % 2 = 0
                /\ stop \in Nat /\ b < stop /\ stop <= CodeEnd
                /\ stop = b + Chunk \/ stop = CodeEnd
  <2>1. /\ (b - CodeStart) % 2 = 0 /\ b \in CodeStart .. CodeEnd - 1 /\ b \in Nat
        /\ b + Chunk \in Int /\ CodeEnd \in Int /\ Chunk >= 2
    BY Bounds, BlocksOnGrid
  <2> DEFINE stop == Least(b + Chunk, CodeEnd)
  <2>2. /\ stop \in Int /\ stop <= CodeEnd
        /\ stop = b + Chunk \/ stop = CodeEnd
    BY <2>1, LeastIs
  <2> HIDE DEF stop
  <2>3. stop \in Nat /\ b < stop
    BY <2>1, <2>2, Bounds
  <2> QED BY <2>1, <2>2, <2>3 DEF stop, Section
<1>4. ASSUME NEW x, x \in Section, ClassHead(l, x - off)
      PROVE  Word(x) \in Width .. MaxInstance /\ Word(x) # None
  <2>1. Slot(l, x - off, "vmtInstanceSize") \in Width .. MaxInstance
    BY <1>4 DEF ClassHead, ShapedLikeClass
  <2>2. x \in Int /\ (x - off) + off = x
    BY <1>2, <1>4, Bounds DEF Section
  <2>3. Slot(l, x - off, "vmtInstanceSize") = Word(x) \/ Slot(l, x - off, "vmtInstanceSize") = None
    BY <2>2 DEF Slot, off
  <2> QED BY <2>1, <2>3 DEF None, Width
<1>5. ASSUME NEW b \in Blocks(CodeStart, CodeEnd),
             NEW x \in InBlock(b, Least(b + Chunk, CodeEnd)), ClassHead(l, x - off)
      PROVE  x \in Sizes
  <2> DEFINE stop == Least(b + Chunk, CodeEnd)
  <2>1. /\ b \in Nat /\ b \in Section /\ (b - CodeStart) % 2 = 0
        /\ stop \in Nat /\ b < stop /\ stop <= CodeEnd
    BY <1>3
  <2>2. x \in InBlock(b, stop)
    BY <1>5
  <2> HIDE DEF stop
  <2>3. CASE Readable(b, stop - b)
    <3>1. PICK i \in 0 .. (stop - b) \div 2 - 1 : x = b + 2 * i
      BY <2>2, <2>3 DEF Width
    <3>2. x \in CodeStart .. CodeEnd - 2 /\ (x - CodeStart) % 2 = 0
      BY <2>1, <3>1, Bounds DEF Section
    <3> QED BY <3>2 DEF Sizes
  <2>4. CASE ~Readable(b, stop - b)
    <3>1. x \in b .. stop - 1 /\ (x - b) % 2 = 0
      BY <2>2, <2>4 DEF Width
    <3>2. x \in Section /\ (x - CodeStart) % 2 = 0
      BY <2>1, <3>1, Bounds DEF Section
    <3>3. CodeStart .. x \subseteq DOMAIN image
      BY <1>4, <1>5, <3>2, ReadableSection
    <3>4. x # CodeEnd - 1
      <4> SUFFICES ASSUME x = CodeEnd - 1 PROVE Readable(b, stop - b)
        BY <2>4
      <4>1. b .. b + (stop - b) - 1 \subseteq CodeStart .. x
        BY <2>1, Bounds DEF Section
      <4> QED BY <3>3, <4>1 DEF Readable
    <3>5. x \in CodeStart .. CodeEnd - 2
      BY <3>2, <3>4, Bounds DEF Section
    <3> QED BY <3>2, <3>5 DEF Sizes
  <2> QED BY <2>3, <2>4
<1>6. ASSUME NEW x \in Sizes, ClassHead(l, x - off)
      PROVE  \E b \in Blocks(CodeStart, CodeEnd) : x \in InBlock(b, Least(b + Chunk, CodeEnd))
  <2>1. x \in CodeStart .. CodeEnd - 2 /\ x \in CodeStart .. CodeEnd - 1 /\ (x - CodeStart) % 2 = 0
    BY Bounds DEF Sizes
  <2>2. PICK b \in Blocks(CodeStart, CodeEnd) : b <= x /\ x < b + Chunk
    BY <2>1, Bounds, InSomeBlock
  <2> DEFINE stop == Least(b + Chunk, CodeEnd)
  <2>3. /\ b \in Nat /\ b \in Section /\ (b - CodeStart) % 2 = 0
        /\ stop \in Nat /\ b < stop /\ stop <= CodeEnd
        /\ stop = b + Chunk \/ stop = CodeEnd
    BY <1>3
  <2> HIDE DEF stop
  <2>4. (x - b) % 2 = 0 /\ x \in b .. stop - 2
    BY <2>1, <2>2, <2>3, Bounds DEF Section
  <2>5. x \in InBlock(b, stop)
    <3>1. CASE Readable(b, stop - b)
      <4> DEFINE i == (x - b) \div 2
      <4>1. i \in 0 .. (stop - b) \div 2 - 1 /\ x = b + 2 * i
        BY <2>3, <2>4
      <4> HIDE DEF i
      <4>2. Word(x) \in Width .. MaxInstance
        BY <1>4, <1>6, <2>1 DEF Section
      <4> QED BY <3>1, <4>1, <4>2 DEF Width
    <3>2. CASE ~Readable(b, stop - b)
      <4>1. x \in b .. stop - 1
        BY <2>3, <2>4
      <4> QED BY <2>4, <3>2, <4>1 DEF Width
    <3> QED BY <3>1, <3>2
  <2> QED BY <2>5 DEF stop
<1> HIDE DEF InBlock
<1>7. UNION {of(b) : b \in Blocks(CodeStart, CodeEnd)}
        = {a \in {x - off : x \in Sizes} : ClassHead(l, a)}
  <2>1. ASSUME NEW b \in Blocks(CodeStart, CodeEnd), NEW a \in of(b)
        PROVE  a \in {x - off : x \in Sizes} /\ ClassHead(l, a)
    BY <1>5, <2>1
  <2>2. ASSUME NEW x \in Sizes, ClassHead(l, x - off)
        PROVE  \E b \in Blocks(CodeStart, CodeEnd) : x - off \in of(b)
    BY <1>6, <2>2
  <2> HIDE DEF of
  <2> QED BY <2>1, <2>2
<1> QED BY <1>1, <1>7 DEF off

Parent(l, a) == Slot(l, a, "vmtParent")
Heads(l) == {a \in {x - SlotOffset(l, "vmtInstanceSize") : x \in Sizes} : ClassHead(l, a)}

LEMMA LinkedAll ==
  ASSUME image \in Images, NEW l \in ToSet(Variants)
  PROVE  Linked(l, CodeStart, CodeEnd) =
           {a \in Heads(l) : Parent(l, a) \in Heads(l) \/ \E b \in Heads(l) : Parent(l, b) = a}
<1>1. Anchors(l, CodeStart, CodeEnd) = Heads(l)
  BY AnchorsAll DEF Heads
<1> DEFINE H == Heads(l)
<1>2. Linked(l, CodeStart, CodeEnd) = UNION {{a, Parent(l, a)} : a \in {h \in H : Parent(l, h) \in H}}
  BY <1>1 DEF Linked, Parent
<1> HIDE DEF H
<1>3. UNION {{a, Parent(l, a)} : a \in {h \in H : Parent(l, h) \in H}}
        = {a \in H : Parent(l, a) \in H \/ \E b \in H : Parent(l, b) = a}
  OBVIOUS
<1> QED BY <1>2, <1>3 DEF H

(* A dialect's score is a number, so one of them scores best.              *)
LEMMA SelfPointersWithin ==
  ASSUME NEW deltas
  PROVE  SelfPointers(CodeStart, CodeEnd, deltas, 2) \subseteq Section
<1> DEFINE InBlock(base, stop) ==
             IF Readable(base, stop - base)
             THEN InArrays(base, stop, 2) \union InTail(base, stop, CodeStart, 2)
             ELSE {a \in base .. stop - 1 : (a - base) % 2 = 0}
           of(b) == {a \in InBlock(b, Least(b + Chunk, CodeEnd)) : Points(a, deltas)}
<1>1. SelfPointers(CodeStart, CodeEnd, deltas, 2) = UNION {of(b) : b \in Blocks(CodeStart, CodeEnd)}
  BY DEF SelfPointers
<1>2. ASSUME NEW b \in Blocks(CodeStart, CodeEnd) PROVE of(b) \subseteq Section
  <2> DEFINE stop == Least(b + Chunk, CodeEnd)
  <2>1. b \in CodeStart .. CodeEnd - 1 /\ b \in Nat /\ b + Chunk \in Int /\ CodeEnd \in Int /\ CodeStart \in Nat
    BY Bounds, BlocksOnGrid
  <2>2. stop \in Int /\ stop <= CodeEnd
    BY <2>1, LeastIs
  <2>3. of(b) \subseteq InBlock(b, stop)
    OBVIOUS
  <2> HIDE DEF stop, of
  <2>4. InArrays(b, stop, 2) \subseteq b .. stop - 1
    <3>1. ASSUME NEW a \in InArrays(b, stop, 2) PROVE a \in b .. stop - 1
      <4>1. PICK o \in 0 .. 1 : \E k \in 0 .. (stop - b - o) \div 2 - 1 : a = b + o + 2 * k
        BY <3>1 DEF InArrays, Width
      <4>2. PICK k \in 0 .. (stop - b - o) \div 2 - 1 : a = b + o + 2 * k
        BY <4>1
      <4> QED BY <2>1, <2>2, <4>2
    <3> QED BY <3>1
  <2>5. InTail(b, stop, CodeStart, 2) \subseteq b .. stop - 1
    <3> DEFINE tail == (stop - Width + 1) + ((CodeStart - (stop - Width + 1)) % 2)
    <3>1. tail \in Int
      BY <2>1, <2>2 DEF Width
    <3>2. InTail(b, stop, CodeStart, 2) =
            {a \in Greatest(b, tail) .. stop - 1 : (a - Greatest(b, tail)) % 2 = 0}
      BY DEF InTail
    <3> HIDE DEF tail
    <3>3. Greatest(b, tail) \in Int /\ b <= Greatest(b, tail)
      <4>1. b \in Int
        BY <2>1
      <4> QED BY <3>1, <4>1, LeastIs
    <3> QED BY <2>1, <2>2, <3>2, <3>3
  <2>6. InBlock(b, stop) \subseteq b .. stop - 1
    BY <2>4, <2>5
  <2>7. b .. stop - 1 \subseteq Section
    BY <2>1, <2>2 DEF Section
  <2> HIDE DEF InBlock
  <2> QED BY <2>3, <2>6, <2>7
<1> HIDE DEF of
<1> QED BY <1>1, <1>2

LEMMA ScoreType ==
  ASSUME image \in Images, NEW l \in ToSet(Variants)
  PROVE  Score(l) \in Nat
<1>1. IsFiniteSet(Section)
  BY Bounds, FS_Interval DEF Section
<1>2. CASE HasSelfPtr(l)
  <2> DEFINE hits == SelfPointers(CodeStart, CodeEnd,
                       {HeaderSize(m) : m \in {n \in ToSet(Variants) : HasSelfPtr(n)}}, Width)
             scored == {a \in hits :
                          /\ Word(a) - a = HeaderSize(l)
                          /\ LET name == Slot(l, Word(a), "vmtClassName")
                             IN Mapped(name) /\ IsName(name, 1)}
  <2>1. Score(l) = Cardinality(scored)
    BY <1>2 DEF Score
  <2>2. hits \subseteq Section
    BY SelfPointersWithin DEF Width
  <2>3. scored \in SUBSET Section
    BY <2>2
  <2> HIDE DEF scored
  <2> QED BY <1>1, <2>1, <2>3, FS_Subset, FS_CardinalityType
<1>3. CASE ~HasSelfPtr(l)
  <2> DEFINE off == SlotOffset(l, "vmtInstanceSize")
             range == CodeStart - off .. CodeEnd - 2 - off
  <2>1. off \in Int
    BY LayoutFacts
  <2>2. Linked(l, CodeStart, CodeEnd) \subseteq Heads(l)
    BY LinkedAll
  <2>3. Heads(l) \subseteq {x - off : x \in Sizes}
    BY DEF Heads
  <2> HIDE DEF off
  <2>4. {x - off : x \in Sizes} \subseteq range
    BY <2>1, Bounds DEF Sizes
  <2>5. IsFiniteSet(range)
    BY <2>1, Bounds, FS_Interval
  <2> HIDE DEF range
  <2>6. Linked(l, CodeStart, CodeEnd) \in SUBSET range
    BY <2>2, <2>3, <2>4
  <2>7. Score(l) = Cardinality(Linked(l, CodeStart, CodeEnd))
    BY <1>3 DEF Score
  <2> QED BY <2>5, <2>6, <2>7, FS_Subset, FS_CardinalityType
<1> QED BY <1>2, <1>3

LEMMA LayoutDetected ==
  ASSUME image \in Images
  PROVE  DetectedLayout \in ToSet(Variants)
<1>1. /\ DOMAIN Variants = 1 .. 3
      /\ \A i \in 1 .. 3 : Variants[i] \in ToSet(Variants)
      /\ Delphi3 \in ToSet(Variants)
  <2>1. DOMAIN Variants = 1 .. 3 /\ Variants[2] = Delphi3
    BY DEF Variants
  <2>2. 2 \in 1 .. 3
    OBVIOUS
  <2> QED BY <2>1, <2>2 DEF ToSet
<1> DEFINE n(i) == Score(Variants[i])
           Best(i) == /\ \A j \in 1 .. 3 : n(j) <= n(i)
                      /\ \A j \in 1 .. i - 1 : n(j) < n(i)
<1>2. \A i \in 1 .. 3 : n(i) \in Nat
  BY <1>1, ScoreType
<1> HIDE DEF n
<1>3. \E i \in 1 .. 3 : Best(i)
  <2>1. n(1) \in Nat /\ n(2) \in Nat /\ n(3) \in Nat
    BY <1>2
  <2>2. \A j \in 1 .. 3 : j = 1 \/ j = 2 \/ j = 3
    OBVIOUS
  <2>3. CASE n(2) <= n(1) /\ n(3) <= n(1)
    <3>1. Best(1)
      BY <2>1, <2>2, <2>3
    <3> QED BY <3>1
  <2>4. CASE n(1) < n(2) /\ n(3) <= n(2)
    <3>1. \A j \in 1 .. 2 - 1 : j = 1
      OBVIOUS
    <3>2. Best(2)
      BY <2>1, <2>2, <2>4, <3>1
    <3> QED BY <3>2
  <2>5. CASE n(1) < n(3) /\ n(2) < n(3)
    <3>1. \A j \in 1 .. 3 - 1 : j = 1 \/ j = 2
      OBVIOUS
    <3>2. Best(3)
      BY <2>1, <2>2, <2>5, <3>1
    <3> QED BY <3>2
  <2> QED BY <2>1, <2>3, <2>4, <2>5
<1> DEFINE best == CHOOSE i \in 1 .. 3 : Best(i)
<1>4. best \in 1 .. 3
  BY <1>3
<1>5. DetectedLayout = IF n(best) = 0 THEN Delphi3 ELSE Variants[best]
  <2> DEFINE first == CHOOSE i \in DOMAIN Variants :
                 /\ \A j \in DOMAIN Variants : Score(Variants[j]) <= Score(Variants[i])
                 /\ \A j \in 1 .. i - 1 : Score(Variants[j]) < Score(Variants[i])
  <2>1. DetectedLayout = IF Score(Variants[first]) = 0 THEN Delphi3 ELSE Variants[first]
    BY DEF DetectedLayout
  <2>2. best = first
    BY <1>1 DEF n
  <2> HIDE DEF best, first
  <2> QED BY <2>1, <2>2 DEF n
<1> HIDE DEF best
<1> QED BY <1>1, <1>4, <1>5

-----------------------------------------------------------------------------
(* What the part of the section before n holds, found by looking at every  *)
(* address of it.                                                          *)
TypeInfosUpto(n) ==
  {t \in CodeStart + Width .. n + Width - 1 : Word(t - Width) = t /\ TypeInfoEnd(t) # None}
VmtsUpto(n) ==
  IF HasSelfPtr(layout)
  THEN {v \in {a + HeaderSize(layout) : a \in CodeStart .. n - 1} : IsVmt(layout, v)}
  ELSE {}
StringsUpto(n) ==
  {ParseString(a, CodeEnd) : a \in {x \in CodeStart .. n - 1 : x % Width = 0}} \ {NoLiteral}
AllVmts ==
  IF HasSelfPtr(layout) THEN VmtsUpto(CodeEnd)
  ELSE {a \in Heads(layout) : \/ Parent(layout, a) \in Heads(layout)
                              \/ \E b \in Heads(layout) : Parent(layout, b) = a}

Later == {"narrow", "wide", "references", "accept", "streams", "done"}
Passes == {"detect", "records", "linked", "strings", "cancelled"} \union Later

(* Each pass leaves what is up to its next block, and the passes before it *)
(* all there is.                                                           *)
SoFar ==
  /\ image \in Images /\ pass \in Passes
  /\ pass \notin {"detect", "cancelled"} => layout \in ToSet(Variants)
  /\ pass \in {"detect", "records", "linked", "strings"} => at \in Section
  /\ pass \in {"detect", "linked"} => at = CodeStart
  /\ pass = "detect" => vmts = {} /\ typeinfos = {}
  /\ pass = "records" => vmts = VmtsUpto(at) /\ typeinfos = TypeInfosUpto(at)
  /\ pass = "linked" => ~HasSelfPtr(layout) /\ typeinfos = TypeInfosUpto(CodeEnd)
  /\ pass \in {"strings"} \union Later =>
       vmts = AllVmts /\ typeinfos = TypeInfosUpto(CodeEnd)
  /\ pass \in {"detect", "records", "linked"} => strings = {}
  /\ pass = "strings" => strings = StringsUpto(at)
  /\ pass \in Later => strings = StringsUpto(CodeEnd)

LEMMA WordType ==
  ASSUME image \in Images, NEW a \in Int
  PROVE  Word(a) \in Nat \union {None}
<1>1. CASE Readable(a, 2)
  <2>1. a \in DOMAIN image /\ a + 1 \in DOMAIN image
    BY <1>1 DEF Readable
  <2>2. image[a] \in 0 .. Base - 1 /\ image[a + 1] \in 0 .. Base - 1
    BY <2>1, ScannerAssumption
  <2>3. image[a] \in Nat /\ image[a + 1] \in Nat /\ Base \in Nat
    BY <2>2, Bounds
  <2> DEFINE low == image[a]
             high == image[a + 1]
  <2>4. low + Base * high \in Nat
    <3>1. low \in Nat /\ high \in Nat /\ Base \in Nat
      BY <2>3
    <3> HIDE DEF low, high
    <3> QED BY <3>1
  <2>5. Word(a) = low + Base * high
    BY <1>1 DEF Word, Width
  <2> QED BY <2>4, <2>5
<1>2. CASE ~Readable(a, 2)
  BY <1>2 DEF Word, Width
<1> QED BY <1>1, <1>2

(* One step of the first pass: how far it gets, and what it sees.          *)
LEMMA StepForward ==
  ASSUME at \in Section
  PROVE  LET stop == Least(at + Greatest(1, (CodeEnd - CodeStart) \div Steps), CodeEnd)
         IN stop \in Nat /\ at < stop /\ stop <= CodeEnd
<1> DEFINE n == (CodeEnd - CodeStart) \div Steps
           step == Greatest(1, n)
           stop == Least(at + step, CodeEnd)
<1>1. n \in Int
  BY Bounds
<1> HIDE DEF n
<1>2. step \in Int /\ 1 <= step
  BY <1>1, LeastIs
<1> HIDE DEF step
<1>3. at \in Nat /\ at < CodeEnd /\ CodeEnd \in Int /\ at + step \in Int
  BY <1>2, Bounds DEF Section
<1>4. stop \in Int /\ stop <= CodeEnd /\ (stop = at + step \/ stop = CodeEnd)
  BY <1>3, LeastIs
<1> HIDE DEF stop
<1>5. stop \in Nat /\ at < stop
  BY <1>2, <1>3, <1>4
<1> QED BY <1>4, <1>5 DEF stop, step, n

LEMMA Searched ==
  ASSUME image \in Images, layout \in ToSet(Variants), NEW stop \in Nat,
         at \in Section, at < stop, stop <= CodeEnd,
         NEW hits, NEW classes,
         hits = SelfPointers(at, stop, IF HasSelfPtr(layout) THEN {HeaderSize(layout), Width} ELSE {Width}, 1),
         classes = {a \in hits : HasSelfPtr(layout) /\ Word(a) = a + HeaderSize(layout)}
  PROVE  /\ classes = {a \in at .. stop - 1 : HasSelfPtr(layout) /\ Word(a) = a + HeaderSize(layout)}
         /\ hits \ classes = {a \in at .. stop - 1 : Word(a) = a + Width}
<1> DEFINE header == HeaderSize(layout)
           deltas == IF HasSelfPtr(layout) THEN {header, 2} ELSE {2}
<1>1. header \in Nat /\ header > 2
  BY LayoutFacts DEF Width
<1>2. at \in Nat
  BY Bounds DEF Section
<1>3. hits = {a \in at .. stop - 1 : Points(a, deltas)}
  BY <1>2, SelfPointersAll DEF Width
<1> HIDE DEF header
<1>4. ASSUME NEW a \in at .. stop - 1
      PROVE  Points(a, deltas) <=> (HasSelfPtr(layout) /\ Word(a) = a + header) \/ Word(a) = a + 2
  <2>1. Word(a) \in Nat \union {-1} /\ a \in Nat
    BY <1>2, WordType DEF None
  <2> QED BY <1>1, <2>1 DEF Points, None
<1>5. \A a \in at .. stop - 1 : a + header # a + 2
  BY <1>1, <1>2
<1> HIDE DEF deltas
<1>6. classes = {a \in at .. stop - 1 : HasSelfPtr(layout) /\ Word(a) = a + header}
  BY <1>3, <1>4 DEF header
<1>7. hits \ classes = {a \in at .. stop - 1 : Word(a) = a + 2}
  BY <1>3, <1>4, <1>5, <1>6
<1> QED BY <1>6, <1>7 DEF header, Width

(* A class with a pointer to itself has it where its header begins.        *)
LEMMA SelfPointerOfVmt ==
  ASSUME layout \in ToSet(Variants), HasSelfPtr(layout), NEW a \in Int,
         IsVmt(layout, a + HeaderSize(layout))
  PROVE  Word(a) = a + HeaderSize(layout)
<1> DEFINE header == HeaderSize(layout)
           v == a + header
<1>1. header \in Nat /\ SlotOffset(layout, "vmtSelfPtr") = -header
  BY LayoutFacts
<1>2. Slot(layout, v, "vmtSelfPtr") = v
  BY DEF IsVmt
<1>3. Slot(layout, v, "vmtSelfPtr") = Word(v + -header)
  BY <1>1 DEF Slot, HasSelfPtr
<1> HIDE DEF header
<1>4. v + -header = a
  BY <1>1
<1> QED BY <1>2, <1>3, <1>4 DEF header

-----------------------------------------------------------------------------
(* The image is only ever read: whatever is read of it stays the same.     *)
LEMMA ReaderStable ==
  ASSUME image' = image
  PROVE  /\ \A a : Byte(a)' = Byte(a) /\ Word(a)' = Word(a) /\ StrEnd(a)' = StrEnd(a)
         /\ \A a, n : Readable(a, n)' <=> Readable(a, n)
         /\ \A a, n : IsName(a, n)' <=> IsName(a, n)
         /\ \A a : NameEnd(a)' = NameEnd(a) /\ UnitEnd(a)' = UnitEnd(a)
<1>1. \A a, n : Readable(a, n)' <=> Readable(a, n)
  BY DEF Readable
<1>2. \A a : Byte(a)' = Byte(a)
  BY DEF Byte
<1>3. \A a : Word(a)' = Word(a)
  BY <1>1 DEF Word
<1>4. \A a : StrEnd(a)' = StrEnd(a)
  BY <1>1, <1>2 DEF StrEnd
<1>5. \A a, n : IsName(a, n)' <=> IsName(a, n)
  BY <1>2, <1>4 DEF IsName
<1>6. \A a : NameEnd(a)' = NameEnd(a) /\ UnitEnd(a)' = UnitEnd(a)
  BY <1>4, <1>5 DEF NameEnd, UnitEnd
<1> QED BY <1>1, <1>2, <1>3, <1>4, <1>5, <1>6

LEMMA RecordsStable ==
  ASSUME image' = image
  PROVE  /\ \A t : TypeInfoEnd(t)' = TypeInfoEnd(t)
         /\ \A l, a, s : Slot(l, a, s)' = Slot(l, a, s)
         /\ \A l, a : ClassHead(l, a)' <=> ClassHead(l, a)
         /\ \A l, a : IsVmt(l, a)' <=> IsVmt(l, a)
         /\ \A a, limit : ParseString(a, limit)' = ParseString(a, limit)
<1>1. \A l, a, s : Slot(l, a, s)' = Slot(l, a, s)
  BY ReaderStable DEF Slot
<1>2. \A l, a : ShapedLikeClass(l, a)' <=> ShapedLikeClass(l, a)
  BY <1>1, ReaderStable DEF ShapedLikeClass
<1>3. \A l, a : ClassHead(l, a)' <=> ClassHead(l, a)
  BY <1>1, <1>2, ReaderStable DEF ClassHead
<1>4. \A l, a : IsVmt(l, a)' <=> IsVmt(l, a)
  BY <1>1, <1>3, ReaderStable DEF IsVmt
<1>5. \A t : TypeInfoEnd(t)' = TypeInfoEnd(t)
  <2>1. [q \in Int |-> NameEnd(q)]' = [q \in Int |-> NameEnd(q)]
    BY ReaderStable
  <2>2. [q \in Int |-> NameEnd(q + Width)]' = [q \in Int |-> NameEnd(q + Width)]
    BY ReaderStable
  <2>3. \A p : EnumEnd(p)' = EnumEnd(p)
    BY <2>1, ReaderStable DEF EnumEnd
  <2>4. \A p : ClassInfoEnd(p)' = ClassInfoEnd(p)
    BY <2>2, ReaderStable DEF ClassInfoEnd
  <2>5. \A p : RecordInfoEnd(p)' = RecordInfoEnd(p)
    BY ReaderStable DEF RecordInfoEnd
  <2> QED BY <2>3, <2>4, <2>5, ReaderStable DEF TypeInfoEnd
<1>6. \A a, limit : AnsiString(a, limit)' = AnsiString(a, limit)
  BY ReaderStable DEF AnsiString
<1>7. \A a, limit : StrRec(a, limit)' = StrRec(a, limit)
  BY ReaderStable DEF StrRec
<1>8. \A a, limit : ParseString(a, limit)' = ParseString(a, limit)
  BY <1>6, <1>7, ReaderStable DEF ParseString
<1> QED BY <1>1, <1>3, <1>4, <1>5, <1>8

LEMMA ScanStable ==
  ASSUME image' = image
  PROVE  /\ \A n : TypeInfosUpto(n)' = TypeInfosUpto(n)
         /\ \A n : StringsUpto(n)' = StringsUpto(n)
         /\ layout' = layout => AllVmts' = AllVmts /\ \A n : VmtsUpto(n)' = VmtsUpto(n)
<1>1. \A n : TypeInfosUpto(n)' = TypeInfosUpto(n)
  BY ReaderStable, RecordsStable DEF TypeInfosUpto
<1>2. \A n : StringsUpto(n)' = StringsUpto(n)
  BY RecordsStable DEF StringsUpto
<1>3. ASSUME layout' = layout PROVE \A n : VmtsUpto(n)' = VmtsUpto(n)
  BY <1>3, RecordsStable DEF VmtsUpto
<1>4. \A l : Heads(l)' = Heads(l)
  BY RecordsStable DEF Heads
<1>5. \A l, a : Parent(l, a)' = Parent(l, a)
  BY RecordsStable DEF Parent
<1>6. ASSUME layout' = layout PROVE AllVmts' = AllVmts
  BY <1>3, <1>4, <1>5, <1>6 DEF AllVmts
<1> QED BY <1>1, <1>2, <1>3, <1>6

(* Nothing lies in front of the section.                                   *)
LEMMA NothingYet ==
  /\ TypeInfosUpto(CodeStart) = {} /\ VmtsUpto(CodeStart) = {} /\ StringsUpto(CodeStart) = {}
<1>1. CodeStart .. CodeStart - 1 = {} /\ CodeStart + 2 .. CodeStart + 2 - 1 = {}
  BY Bounds
<1> QED BY <1>1 DEF TypeInfosUpto, VmtsUpto, StringsUpto, Width

LEMMA SoFarInit == Init => SoFar
<1>1. CodeStart \in Section
  BY Bounds
<1> QED BY <1>1 DEF Init, SoFar, Passes, Later

LEMMA SoFarDetect == SoFar /\ Detect => SoFar'
<1> SUFFICES ASSUME SoFar, Detect PROVE SoFar'
  OBVIOUS
<1>1. /\ image' = image /\ at' = CodeStart /\ pass' = "records"
      /\ vmts' = {} /\ typeinfos' = {} /\ strings' = {}
  BY DEF Detect, SoFar
<1>2. image' \in Images /\ layout' \in ToSet(Variants)
  BY <1>1, LayoutDetected DEF Detect, SoFar
<1>3. TypeInfosUpto(CodeStart)' = {} /\ VmtsUpto(CodeStart)' = {}
  <2>1. CodeStart .. CodeStart - 1 = {} /\ CodeStart + 2 .. CodeStart + 2 - 1 = {}
    BY Bounds
  <2> QED BY <2>1 DEF TypeInfosUpto, VmtsUpto, Width
<1>4. (vmts = VmtsUpto(at) /\ typeinfos = TypeInfosUpto(at))'
  BY <1>1, <1>3 DEF VmtsUpto, TypeInfosUpto
<1> QED BY <1>1, <1>2, <1>4, Bounds DEF SoFar, Passes, Later

(* One step of the first pass sees what begins in it, and nothing else.    *)
LEMMA RecordsSeen ==
  ASSUME SoFar, pass = "records", NEW stop \in Nat, at < stop, stop <= CodeEnd,
         NEW hits, NEW classes,
         hits = SelfPointers(at, stop, IF HasSelfPtr(layout) THEN {HeaderSize(layout), Width} ELSE {Width}, 1),
         classes = {a \in hits : HasSelfPtr(layout) /\ Word(a) = a + HeaderSize(layout)}
  PROVE  /\ vmts \union {v \in {a + HeaderSize(layout) : a \in classes} : IsVmt(layout, v)}
              = VmtsUpto(stop)
         /\ typeinfos \union {t \in {a + Width : a \in hits \ classes} : TypeInfoEnd(t) # None}
              = TypeInfosUpto(stop)
<1> DEFINE header == HeaderSize(layout)
<1>1. /\ image \in Images /\ layout \in ToSet(Variants) /\ at \in Section
      /\ vmts = VmtsUpto(at) /\ typeinfos = TypeInfosUpto(at)
  BY DEF SoFar, Passes
<1>2. at \in Nat /\ CodeStart <= at /\ CodeStart \in Nat
  BY <1>1, Bounds DEF Section
<1>3. /\ classes = {a \in at .. stop - 1 : HasSelfPtr(layout) /\ Word(a) = a + header}
      /\ hits \ classes = {a \in at .. stop - 1 : Word(a) = a + Width}
  BY <1>1, Searched
<1>4. header \in Nat
  BY <1>1, LayoutFacts
<1>5. \A a : a \in CodeStart .. stop - 1 <=> a \in CodeStart .. at - 1 \/ a \in at .. stop - 1
  BY <1>2
<1>6. vmts \union {v \in {a + header : a \in classes} : IsVmt(layout, v)} = VmtsUpto(stop)
  <2>1. CASE HasSelfPtr(layout)
    <3>1. \A a \in at .. stop - 1 : IsVmt(layout, a + header) => a \in classes
      <4> SUFFICES ASSUME NEW a \in at .. stop - 1, IsVmt(layout, a + header)
                   PROVE  a \in classes
        OBVIOUS
      <4>1. a \in Int
        BY <1>2
      <4>2. Word(a) = a + header
        BY <1>1, <2>1, <4>1, SelfPointerOfVmt
      <4> QED BY <1>3, <2>1, <4>2
    <3>2. VmtsUpto(at) = {v \in {a + header : a \in CodeStart .. at - 1} : IsVmt(layout, v)}
      BY <2>1 DEF VmtsUpto
    <3>3. VmtsUpto(stop) = {v \in {a + header : a \in CodeStart .. stop - 1} : IsVmt(layout, v)}
      BY <2>1 DEF VmtsUpto
    <3>4. classes \subseteq at .. stop - 1
      BY <1>3
    <3> HIDE DEF header
    <3> DEFINE new == {v \in {a + header : a \in classes} : IsVmt(layout, v)}
               all == {v \in {a + header : a \in CodeStart .. stop - 1} : IsVmt(layout, v)}
               old == {v \in {a + header : a \in CodeStart .. at - 1} : IsVmt(layout, v)}
    <3>5. ASSUME NEW v \in all PROVE v \in old \union new
      BY <1>5, <3>1
    <3>6. ASSUME NEW v \in old \union new PROVE v \in all
      BY <1>5, <3>4
    <3>7. old \union new = all
      BY <3>5, <3>6
    <3>8. vmts = old /\ VmtsUpto(stop) = all
      BY <1>1, <3>2, <3>3
    <3> HIDE DEF old, new, all
    <3> QED BY <3>7, <3>8 DEF new, header
  <2>2. CASE ~HasSelfPtr(layout)
    <3>1. classes = {}
      BY <1>3, <2>2
    <3> QED BY <1>1, <2>2, <3>1 DEF VmtsUpto
  <2> QED BY <2>1, <2>2
<1>7. typeinfos \union {t \in {a + Width : a \in hits \ classes} : TypeInfoEnd(t) # None}
        = TypeInfosUpto(stop)
  <2>1. ASSUME NEW n \in Nat
        PROVE  TypeInfosUpto(n) = {t \in {a + 2 : a \in {x \in CodeStart .. n - 1 : Word(x) = x + 2}} :
                                     TypeInfoEnd(t) # None}
    <3>1. ASSUME NEW t \in CodeStart + 2 .. n + 2 - 1, Word(t - 2) = t
          PROVE  t \in {a + 2 : a \in {x \in CodeStart .. n - 1 : Word(x) = x + 2}}
      <4>1. t - 2 \in CodeStart .. n - 1 /\ (t - 2) + 2 = t
        BY <1>2
      <4> QED BY <3>1, <4>1
    <3>2. ASSUME NEW a \in CodeStart .. n - 1, Word(a) = a + 2
          PROVE  a + 2 \in CodeStart + 2 .. n + 2 - 1 /\ Word((a + 2) - 2) = a + 2
      <4>1. a + 2 \in CodeStart + 2 .. n + 2 - 1 /\ (a + 2) - 2 = a
        BY <1>2
      <4> QED BY <3>2, <4>1
    <3> QED BY <3>1, <3>2 DEF TypeInfosUpto, Width
  <2>2. typeinfos = {t \in {a + 2 : a \in {x \in CodeStart .. at - 1 : Word(x) = x + 2}} :
                       TypeInfoEnd(t) # None}
    BY <1>1, <1>2, <2>1
  <2>3. TypeInfosUpto(stop) = {t \in {a + 2 : a \in {x \in CodeStart .. stop - 1 : Word(x) = x + 2}} :
                                 TypeInfoEnd(t) # None}
    BY <2>1
  <2> QED BY <1>3, <1>5, <2>2, <2>3 DEF Width
<1> QED BY <1>6, <1>7

LEMMA SoFarRecords == SoFar /\ ScanRecords => SoFar'
<1> SUFFICES ASSUME SoFar, ScanRecords PROVE SoFar'
  OBVIOUS
<1> DEFINE stop == Least(at + Greatest(1, (CodeEnd - CodeStart) \div Steps), CodeEnd)
           hits == SelfPointers(at, stop, IF HasSelfPtr(layout) THEN {HeaderSize(layout), Width} ELSE {Width}, 1)
           classes == {a \in hits : HasSelfPtr(layout) /\ Word(a) = a + HeaderSize(layout)}
<1>1. /\ pass = "records" /\ image' = image /\ layout' = layout /\ strings' = strings
      /\ vmts' = vmts \union {v \in {a + HeaderSize(layout) : a \in classes} : IsVmt(layout, v)}
      /\ typeinfos' = typeinfos \union {t \in {a + Width : a \in hits \ classes} : TypeInfoEnd(t) # None}
      /\ Advance(stop, CodeEnd, IF HasSelfPtr(layout) THEN "strings" ELSE "linked")
  BY DEF ScanRecords
<1>2. image \in Images /\ layout \in ToSet(Variants) /\ at \in Section /\ strings = {}
  BY <1>1 DEF SoFar, Passes
<1>3. stop \in Nat /\ at < stop /\ stop <= CodeEnd
  BY <1>2, StepForward
<1>4. vmts' = VmtsUpto(stop) /\ typeinfos' = TypeInfosUpto(stop)
  <2> DEFINE s == stop h == hits c == classes
  <2>1. /\ s \in Nat /\ at < s /\ s <= CodeEnd
        /\ h = SelfPointers(at, s, IF HasSelfPtr(layout) THEN {HeaderSize(layout), Width} ELSE {Width}, 1)
        /\ c = {a \in h : HasSelfPtr(layout) /\ Word(a) = a + HeaderSize(layout)}
        /\ vmts' = vmts \union {v \in {a + HeaderSize(layout) : a \in c} : IsVmt(layout, v)}
        /\ typeinfos' = typeinfos \union {t \in {a + Width : a \in h \ c} : TypeInfoEnd(t) # None}
    BY <1>1, <1>3
  <2>2. s = stop
    OBVIOUS
  <2> HIDE DEF s, h, c
  <2>3. vmts' = VmtsUpto(s) /\ typeinfos' = TypeInfosUpto(s)
    BY <1>1, <2>1, RecordsSeen
  <2> QED BY <2>2, <2>3
<1> HIDE DEF stop, hits, classes
<1>5. \A n : VmtsUpto(n)' = VmtsUpto(n) /\ TypeInfosUpto(n)' = TypeInfosUpto(n) /\ StringsUpto(n)' = StringsUpto(n)
  BY <1>1, ScanStable
<1>6. strings' = {} /\ image' \in Images /\ layout' \in ToSet(Variants)
  BY <1>1, <1>2
<1>7. CASE stop < CodeEnd
  <2>1. at' = stop /\ pass' = "records"
    BY <1>1, <1>7 DEF Advance
  <2>2. stop \in Section
    BY <1>2, <1>3, <1>7, Bounds DEF Section
  <2>3. VmtsUpto(at)' = VmtsUpto(stop) /\ TypeInfosUpto(at)' = TypeInfosUpto(stop)
    BY <1>5, <2>1 DEF VmtsUpto, TypeInfosUpto
  <2> QED BY <1>4, <1>6, <2>1, <2>2, <2>3 DEF SoFar, Passes, Later
<1>8. CASE ~(stop < CodeEnd)
  <2>1. stop = CodeEnd /\ CodeStart \in Section
    BY <1>3, <1>8, Bounds
  <2>2. at' = CodeStart /\ pass' = IF HasSelfPtr(layout) THEN "strings" ELSE "linked"
    BY <1>1, <1>8 DEF Advance
  <2>3. vmts' = VmtsUpto(CodeEnd)' /\ typeinfos' = TypeInfosUpto(CodeEnd)'
    BY <1>4, <1>5, <2>1
  <2>4. CASE HasSelfPtr(layout)
    <3>1. AllVmts' = VmtsUpto(CodeEnd)'
      BY <1>1, <2>4 DEF AllVmts
    <3>2. StringsUpto(at)' = {}
      <4>1. StringsUpto(at)' = StringsUpto(CodeStart)'
        BY <2>2 DEF StringsUpto
      <4> QED BY <1>5, <4>1, NothingYet
    <3> QED BY <1>6, <2>1, <2>2, <2>3, <2>4, <3>1, <3>2 DEF SoFar, Passes, Later
  <2>5. CASE ~HasSelfPtr(layout)
    <3>1. ~HasSelfPtr(layout)' /\ pass' = "linked"
      BY <1>1, <2>2, <2>5
    <3> QED BY <1>6, <2>1, <2>2, <2>3, <3>1 DEF SoFar, Passes, Later
  <2> QED BY <2>4, <2>5
<1> QED BY <1>7, <1>8

LEMMA SoFarLinked == SoFar /\ ScanLinked => SoFar'
<1> SUFFICES ASSUME SoFar, ScanLinked PROVE SoFar'
  OBVIOUS
<1>1. /\ pass = "linked" /\ pass' = "strings" /\ image' = image /\ layout' = layout
      /\ at' = at /\ typeinfos' = typeinfos /\ strings' = strings
      /\ vmts' = {v \in Linked(layout, CodeStart, CodeEnd) : IsVmt(layout, v)}
  BY DEF ScanLinked
<1>2. /\ image \in Images /\ layout \in ToSet(Variants) /\ at = CodeStart /\ at \in Section
      /\ ~HasSelfPtr(layout) /\ typeinfos = TypeInfosUpto(CodeEnd) /\ strings = {}
  BY <1>1 DEF SoFar, Passes
<1>3. vmts' = AllVmts
  <2>1. \A v \in Heads(layout) : IsVmt(layout, v)
    BY <1>2 DEF Heads, IsVmt
  <2>2. Linked(layout, CodeStart, CodeEnd) = AllVmts
    BY <1>2, LinkedAll DEF AllVmts
  <2>3. AllVmts \subseteq Heads(layout)
    BY <1>2 DEF AllVmts
  <2> QED BY <1>1, <2>1, <2>2, <2>3
<1>4. vmts' = AllVmts' /\ typeinfos' = TypeInfosUpto(CodeEnd)'
  BY <1>1, <1>2, <1>3, ScanStable
<1>5. strings' = StringsUpto(at)'
  <2>1. StringsUpto(at)' = StringsUpto(CodeStart)'
    BY <1>1, <1>2 DEF StringsUpto
  <2> QED BY <1>1, <1>2, <2>1, ScanStable, NothingYet
<1> QED BY <1>1, <1>2, <1>4, <1>5 DEF SoFar, Passes, Later

LEMMA SoFarStrings == SoFar /\ ScanStrings => SoFar'
<1> SUFFICES ASSUME SoFar, ScanStrings PROVE SoFar'
  OBVIOUS
<1> DEFINE base == at + ((-at) % Width)
           stop == Least(base + Chunk, CodeEnd)
           anchors == {a \in base .. stop - 1 : (a - base) % Width = 0}
<1>1. /\ pass = "strings" /\ image' = image /\ layout' = layout
      /\ vmts' = vmts /\ typeinfos' = typeinfos
      /\ strings' = strings \union ({ParseString(a, CodeEnd) : a \in anchors} \ {NoLiteral})
      /\ Advance(stop, CodeEnd, "narrow")
  BY DEF ScanStrings
<1>2. /\ image \in Images /\ layout \in ToSet(Variants) /\ at \in Section
      /\ vmts = AllVmts /\ typeinfos = TypeInfosUpto(CodeEnd) /\ strings = StringsUpto(at)
  BY <1>1 DEF SoFar, Passes
<1>3. at \in Nat /\ CodeStart \in Nat /\ CodeEnd \in Nat /\ CodeStart <= at /\ at < CodeEnd
  BY <1>2, Bounds DEF Section
<1>4. base \in Nat /\ at <= base /\ base <= at + 1 /\ base % 2 = 0
  BY <1>3 DEF Width
<1>5. stop \in Nat /\ stop <= CodeEnd /\ at < stop
  <2> HIDE DEF base
  <2>1. base + Chunk \in Int /\ CodeEnd \in Int /\ Chunk \in Nat /\ Chunk >= 2
    BY <1>3, <1>4, Bounds
  <2>2. stop \in Int /\ stop <= CodeEnd /\ (stop = base + Chunk \/ stop = CodeEnd)
    BY <2>1, LeastIs
  <2> HIDE DEF stop
  <2> QED BY <1>3, <1>4, <2>1, <2>2
<1>6. \A x : x \in CodeStart .. stop - 1 /\ x % 2 = 0 <=>
             (x \in CodeStart .. at - 1 /\ x % 2 = 0) \/ x \in anchors
  <2> HIDE DEF base, stop
  <2>1. \A x \in Int : x >= at /\ x % 2 = 0 => x >= base
    BY <1>3, <1>4
  <2>2. \A x \in Int : x >= base => ((x - base) % 2 = 0 <=> x % 2 = 0)
    BY <1>4
  <2> QED BY <1>3, <1>4, <1>5, <2>1, <2>2 DEF Width
<1> HIDE DEF anchors, base, stop
<1>7. strings' = StringsUpto(stop)
  <2>1. StringsUpto(stop) =
          {ParseString(a, CodeEnd) : a \in {x \in CodeStart .. stop - 1 : x % 2 = 0}} \ {NoLiteral}
    BY DEF StringsUpto, Width
  <2>2. StringsUpto(at) =
          {ParseString(a, CodeEnd) : a \in {x \in CodeStart .. at - 1 : x % 2 = 0}} \ {NoLiteral}
    BY DEF StringsUpto, Width
  <2>3. {x \in CodeStart .. stop - 1 : x % 2 = 0}
          = {x \in CodeStart .. at - 1 : x % 2 = 0} \union anchors
    BY <1>6
  <2> QED BY <1>1, <1>2, <2>1, <2>2, <2>3
<1>8. /\ vmts' = AllVmts' /\ typeinfos' = TypeInfosUpto(CodeEnd)'
      /\ \A n : StringsUpto(n)' = StringsUpto(n)
  BY <1>1, <1>2, ScanStable
<1>9. CASE stop < CodeEnd
  <2>1. at' = stop /\ pass' = "strings"
    BY <1>1, <1>9 DEF Advance
  <2>2. stop \in Section
    BY <1>3, <1>5, <1>9 DEF Section
  <2>3. strings' = StringsUpto(at)'
    <3>1. StringsUpto(at)' = StringsUpto(stop)
      BY <1>8, <2>1 DEF StringsUpto
    <3> QED BY <1>7, <3>1
  <2> QED BY <1>1, <1>2, <1>8, <2>1, <2>2, <2>3 DEF SoFar, Passes, Later
<1>10. CASE ~(stop < CodeEnd)
  <2>1. stop = CodeEnd
    BY <1>3, <1>5, <1>10
  <2>2. pass' = "narrow"
    BY <1>1, <1>10 DEF Advance
  <2>3. strings' = StringsUpto(CodeEnd)'
    BY <1>7, <1>8, <2>1
  <2> QED BY <1>1, <1>2, <1>8, <2>2, <2>3 DEF SoFar, Passes, Later
<1> QED BY <1>9, <1>10

(* The passes behind them touch nothing of what these have found.          *)
LEMMA SoFarLater ==
  ASSUME SoFar, pass \in Later, pass' \in Later,
         UNCHANGED <<image, layout, vmts, typeinfos, strings>>
  PROVE  SoFar'
<1>1. /\ image \in Images /\ layout \in ToSet(Variants)
      /\ vmts = AllVmts /\ typeinfos = TypeInfosUpto(CodeEnd) /\ strings = StringsUpto(CodeEnd)
  BY DEF SoFar, Later
<1>2. /\ vmts' = AllVmts' /\ typeinfos' = TypeInfosUpto(CodeEnd)' /\ strings' = StringsUpto(CodeEnd)'
      /\ image' \in Images /\ layout' \in ToSet(Variants)
  BY <1>1, ScanStable
<1> QED BY <1>2 DEF SoFar, Passes, Later

LEMMA SoFarNext == SoFar /\ [Next]_vars => SoFar'
<1> SUFFICES ASSUME SoFar, [Next]_vars PROVE SoFar'
  OBVIOUS
<1>1. CASE Detect
  BY <1>1, SoFarDetect
<1>2. CASE ScanRecords
  BY <1>2, SoFarRecords
<1>3. CASE ScanLinked
  BY <1>3, SoFarLinked
<1>4. CASE ScanStrings
  BY <1>4, SoFarStrings
<1>5. CASE ScanRuns
  BY <1>5, SoFarLater DEF ScanRuns, Advance, Later
<1>6. CASE ScanReferences
  BY <1>6, SoFarLater DEF ScanReferences, Advance, Later
<1>7. CASE Accept
  BY <1>7, SoFarLater DEF Accept, Later
<1>8. CASE ScanStreams
  BY <1>8, SoFarLater DEF ScanStreams, Advance, Later
<1>9. CASE Cancel
  BY <1>9 DEF Cancel, SoFar, Passes, Later
<1>10. CASE UNCHANGED vars
  <2>1. /\ UNCHANGED <<image, pass, at, layout, vmts, typeinfos, strings>>
    BY <1>10 DEF vars
  <2>2. /\ \A n : TypeInfosUpto(n)' = TypeInfosUpto(n)
        /\ \A n : StringsUpto(n)' = StringsUpto(n)
        /\ AllVmts' = AllVmts /\ \A n : VmtsUpto(n)' = VmtsUpto(n)
    BY <2>1, ScanStable
  <2>3. TypeInfosUpto(at)' = TypeInfosUpto(at) /\ VmtsUpto(at)' = VmtsUpto(at) /\ StringsUpto(at)' = StringsUpto(at)
    BY <2>1, <2>2 DEF TypeInfosUpto, VmtsUpto, StringsUpto
  <2> QED BY <2>1, <2>2, <2>3 DEF SoFar
<1>11. CASE Ended
  BY <1>10, <1>11 DEF Ended
<1> QED BY <1>1, <1>2, <1>3, <1>4, <1>5, <1>6, <1>7, <1>8, <1>9, <1>10, <1>11 DEF Next

LEMMA SoFarComplete == SoFar => RecordsComplete
<1> SUFFICES ASSUME SoFar, pass = "done" PROVE RecordsComplete
  BY DEF RecordsComplete
<1>1. vmts = AllVmts /\ typeinfos = TypeInfosUpto(CodeEnd) /\ strings = StringsUpto(CodeEnd)
  BY DEF SoFar, Later
<1>2. /\ Sizes = {x \in CodeStart .. CodeEnd - Width : (x - CodeStart) % Width = 0}
  BY DEF Sizes, Width
<1> QED BY <1>1, <1>2 DEF RecordsComplete, AllVmts, VmtsUpto, TypeInfosUpto, StringsUpto, Heads, Parent

(* A finished scan has found every class, type record and string constant  *)
(* of the section, and nothing else, for any image, any sizes of blocks    *)
(* and any number of steps (self_pointers, scan, linked_class_anchors,     *)
(* scan_strings).                                                          *)
THEOREM ScanFindsEverything == Spec => []RecordsComplete
<1>1. Spec => []SoFar
  BY SoFarInit, SoFarNext, PTL DEF Spec
<1> QED BY <1>1, SoFarComplete, PTL

-----------------------------------------------------------------------------
(* How far the accepted runs reach, address by address (Accepted's reach). *)
EndsAt(runs, x) == {r.end : r \in {s \in runs : s.addr = x}}
ReachNext(runs, f, x) ==
  IF x = 0 THEN 0
  ELSE IF EndsAt(runs, x) # {} /\ x >= f[x - 1] THEN Max(EndsAt(runs, x)) ELSE f[x - 1]

LEMMA ReachExists ==
  ASSUME NEW runs, NEW hi \in Nat
  PROVE  \E f : f = [x \in 0 .. hi |-> ReachNext(runs, f, x)]
<1> DEFINE Bad == {m \in 0 .. hi : ~\E f : f = [x \in 0 .. m |-> ReachNext(runs, f, x)]}
<1>1. SUFFICES ASSUME Bad # {} PROVE FALSE
  OBVIOUS
<1>2. PICK m \in Bad : \A k \in Bad : m <= k
  <2>1. Bad \subseteq Nat
    OBVIOUS
  <2> HIDE DEF Bad
  <2> QED BY <1>1, <2>1, LeastNatural
<1>3. m # 0
  <2> SUFFICES ASSUME m = 0 PROVE FALSE
    OBVIOUS
  <2> DEFINE f == [x \in 0 .. 0 |-> 0]
  <2>1. f = [x \in 0 .. m |-> ReachNext(runs, f, x)]
    BY DEF ReachNext
  <2> QED BY <2>1
<1>4. PICK g : g = [x \in 0 .. m - 1 |-> ReachNext(runs, g, x)]
  <2>1. m - 1 \in 0 .. hi /\ m - 1 \notin Bad
    BY <1>2, <1>3
  <2> QED BY <2>1
<1> DEFINE h == [x \in 0 .. m |-> ReachNext(runs, g, x)]
<1>5. \A x \in 0 .. m : ReachNext(runs, h, x) = ReachNext(runs, g, x)
  <2> TAKE x \in 0 .. m
  <2>1. CASE x = 0
    BY <2>1 DEF ReachNext
  <2>2. CASE x # 0
    <3>1. x - 1 \in 0 .. m - 1 /\ x - 1 \in 0 .. m
      BY <2>2
    <3>2. h[x - 1] = g[x - 1]
      BY <1>4, <3>1
    <3> HIDE DEF h
    <3> QED BY <2>2, <3>2 DEF ReachNext
  <2> QED BY <2>1, <2>2
<1>6. h = [x \in 0 .. m |-> ReachNext(runs, h, x)]
  BY <1>5
<1> QED BY <1>6

(* A bounded set has its maximum.                                          *)
LEMMA MaxOfBounded ==
  ASSUME NEW S, S # {}, NEW hi \in Nat, S \subseteq 0 .. hi
  PROVE  Max(S) \in S /\ \A x \in S : x <= Max(S)
<1> DEFINE T == {hi - x : x \in S}
<1>1. T \subseteq Nat /\ T # {}
  <2>1. \A x \in S : hi - x \in Nat
    OBVIOUS
  <2>2. PICK x \in S : TRUE
    OBVIOUS
  <2>3. hi - x \in T
    OBVIOUS
  <2> QED BY <2>1, <2>3
<1>2. PICK t \in T : \A u \in T : t <= u
  <2> HIDE DEF T
  <2> QED BY <1>1, LeastNatural
<1>3. PICK m \in S : t = hi - m
  OBVIOUS
<1>4. \A x \in S : m >= x
  <2> SUFFICES ASSUME NEW x \in S PROVE m >= x
    OBVIOUS
  <2>1. hi - m <= hi - x
    BY <1>2, <1>3
  <2> QED BY <2>1
<1>5. Max(S) \in S /\ \A x \in S : Max(S) >= x
  BY <1>3, <1>4 DEF Max
<1> QED BY <1>5

(* A run is accepted exactly when it begins inside no other that is.       *)
LEMMA AcceptedIs ==
  ASSUME NEW runs, \A r \in runs : /\ r.addr \in 1 .. CodeEnd /\ r.end \in 0 .. CodeEnd
                                   /\ r.addr < r.end,
         \A r, s \in runs : r.addr = s.addr /\ r.end = s.end => r = s
  PROVE  Accepted(runs) = {r \in runs : \A c \in Accepted(runs) \ {r} : r.addr \notin c.addr .. c.end - 1}
<1> DEFINE F == CHOOSE f : f = [x \in 0 .. CodeEnd |-> ReachNext(runs, f, x)]
           A == Accepted(runs)
<1>1. A = {r \in runs : r.addr >= F[r.addr - 1] /\ r.end = F[r.addr]}
  BY DEF Accepted, ReachNext, EndsAt
<1>2. F = [x \in 0 .. CodeEnd |-> ReachNext(runs, F, x)]
  BY ReachExists, Bounds
<1> HIDE DEF F, A
<1>3. /\ F[0] = 0
      /\ \A x \in 1 .. CodeEnd :
           F[x] = IF EndsAt(runs, x) # {} /\ x >= F[x - 1] THEN Max(EndsAt(runs, x)) ELSE F[x - 1]
  <2>1. CodeEnd \in Nat
    BY Bounds
  <2>2. \A x \in 0 .. CodeEnd : F[x] = ReachNext(runs, F, x)
    BY <1>2
  <2>3. 0 \in 0 .. CodeEnd /\ \A x \in 1 .. CodeEnd : x \in 0 .. CodeEnd /\ x # 0
    BY <2>1
  <2> QED BY <2>2, <2>3 DEF ReachNext
<1>4. \A x : EndsAt(runs, x) # {} =>
         /\ Max(EndsAt(runs, x)) \in EndsAt(runs, x)
         /\ \A e \in EndsAt(runs, x) : e <= Max(EndsAt(runs, x))
  <2>1. \A x : EndsAt(runs, x) \subseteq 0 .. CodeEnd
    BY DEF EndsAt
  <2> QED BY <2>1, MaxOfBounded, Bounds
(* What reaches furthest so far is the end of some accepted run.           *)
<1> DEFINE Known == {x \in 0 .. CodeEnd :
                       /\ F[x] \in Nat
                       /\ F[x] = 0 \/ \E d \in A : d.addr <= x /\ d.end = F[x]
                       /\ \A d \in A : d.addr <= x => d.end <= F[x]}
<1>5. \A x \in 0 .. CodeEnd : x \in Known
  <2>1. 0 \in Known
    <3>1. \A d \in A : ~(d.addr <= 0)
      BY <1>1
    <3> QED BY <1>3, <3>1, Bounds
  <2>2. ASSUME NEW x \in 0 .. CodeEnd, x + 1 \in 0 .. CodeEnd, x \in Known
        PROVE  x + 1 \in Known
    <3> DEFINE y == x + 1
    <3>1. y \in 1 .. CodeEnd /\ y - 1 = x /\ y \in Nat /\ x \in Nat
      BY <2>2, Bounds
    <3>2. F[x] \in Nat /\ (F[x] = 0 \/ \E d \in A : d.addr <= x /\ d.end = F[x])
          /\ \A d \in A : d.addr <= x => d.end <= F[x]
      BY <2>2
    <3> HIDE DEF y, Known
    <3>3. CASE EndsAt(runs, y) # {} /\ y >= F[x]
      <4>1. F[y] = Max(EndsAt(runs, y)) /\ F[y] \in EndsAt(runs, y) /\ \A e \in EndsAt(runs, y) : e <= F[y]
        BY <1>3, <1>4, <3>1, <3>3
      <4>2. PICK r \in runs : r.addr = y /\ r.end = F[y]
        BY <4>1 DEF EndsAt
      <4>3. r \in A /\ F[y] \in Nat /\ y < F[y]
        <5>1. r.addr >= F[r.addr - 1] /\ r.end = F[r.addr]
          BY <3>1, <3>3, <4>2
        <5>2. r.end \in 0 .. CodeEnd /\ r.addr < r.end
          BY <4>2
        <5> QED BY <1>1, <4>2, <5>1, <5>2, Bounds
      <4>4. \A d \in A : d.addr <= y => d.end <= F[y]
        <5> SUFFICES ASSUME NEW d \in A, d.addr <= y PROVE d.end <= F[y]
          OBVIOUS
        <5>1. d \in runs /\ d.addr \in Nat /\ d.end \in Nat
          BY <1>1, Bounds
        <5>2. CASE d.addr = y
          BY <4>1, <5>1, <5>2 DEF EndsAt
        <5>3. CASE d.addr # y
          <6>1. d.addr <= x
            BY <3>1, <5>1, <5>3
          <6>2. d.end <= F[x]
            BY <3>2, <6>1
          <6> QED BY <3>1, <3>2, <3>3, <4>3, <5>1, <6>2
        <5> QED BY <5>2, <5>3
      <4>5. \E d \in A : d.addr <= y /\ d.end = F[y]
        BY <3>1, <4>2, <4>3
      <4>6. y \in 0 .. CodeEnd
        BY <3>1
      <4> QED BY <4>3, <4>4, <4>5, <4>6 DEF Known, y
    <3>4. CASE ~(EndsAt(runs, y) # {} /\ y >= F[x])
      <4>1. F[y] = F[x]
        BY <1>3, <3>1, <3>4
      <4>2. \A d \in A : d.addr # y
        <5> SUFFICES ASSUME NEW d \in A, d.addr = y PROVE FALSE
          OBVIOUS
        <5>1. d \in runs /\ d.addr >= F[d.addr - 1] /\ d.end \in EndsAt(runs, y)
          BY <1>1 DEF EndsAt
        <5> QED BY <3>1, <3>4, <5>1
      <4>3. \A d \in A : d.addr \in Nat
        BY <1>1, Bounds
      <4>4. \A d \in A : d.addr <= y <=> d.addr <= x
        BY <3>1, <4>2, <4>3
      <4>5. y \in 0 .. CodeEnd
        BY <3>1
      <4> QED BY <3>2, <4>1, <4>4, <4>5 DEF Known, y
    <3> QED BY <3>3, <3>4
  <2>3. 0 \in Nat /\ CodeEnd \in Nat /\ 0 <= CodeEnd
    BY Bounds
  <2> HIDE DEF Known
  <2> QED BY <2>1, <2>2, <2>3, IntervalInduction
<1>6. ASSUME NEW r \in A, NEW c \in A \ {r} PROVE r.addr \notin c.addr .. c.end - 1
  <2> SUFFICES ASSUME r.addr \in c.addr .. c.end - 1 PROVE FALSE
    OBVIOUS
  <2>1. /\ r \in runs /\ c \in runs /\ r.addr \in 1 .. CodeEnd /\ c.addr \in 1 .. CodeEnd
        /\ c.end \in Nat /\ r.end \in Nat
        /\ r.addr >= F[r.addr - 1] /\ r.end = F[r.addr] /\ c.end = F[c.addr] /\ c \in A
    BY <1>1, Bounds
  <2>2. CASE c.addr = r.addr
    BY <2>1, <2>2
  <2>3. CASE c.addr # r.addr
    <3>1. r.addr - 1 \in 0 .. CodeEnd /\ c.addr <= r.addr - 1
      BY <2>1, <2>3, Bounds
    <3>2. F[r.addr - 1] \in Nat /\ c.end <= F[r.addr - 1]
      BY <1>5, <2>1, <3>1
    <3> QED BY <2>1, <3>2
  <2> QED BY <2>2, <2>3
<1>7. ASSUME NEW r \in runs, \A c \in A \ {r} : r.addr \notin c.addr .. c.end - 1
      PROVE  r \in A
  <2>1. r.addr \in 1 .. CodeEnd /\ r.addr - 1 \in 0 .. CodeEnd /\ r.addr \in Nat
        /\ r.end \in Nat /\ r.addr < r.end
    BY Bounds
  <2>2. r.addr >= F[r.addr - 1]
    <3> SUFFICES ASSUME ~(r.addr >= F[r.addr - 1]) PROVE FALSE
      OBVIOUS
    <3>1. F[r.addr - 1] \in Nat /\ F[r.addr - 1] # 0
      BY <1>5, <2>1
    <3>2. PICK d \in A : d.addr <= r.addr - 1 /\ d.end = F[r.addr - 1]
      BY <1>5, <2>1, <3>1
    <3>3. d.addr \in Nat /\ d.end \in Nat
      BY <1>1, Bounds
    <3>4. r.addr \in d.addr .. d.end - 1 /\ d # r
      BY <2>1, <3>1, <3>2, <3>3
    <3> QED BY <1>7, <3>2, <3>4
  <2>3. r.end \in EndsAt(runs, r.addr)
    BY DEF EndsAt
  <2>4. F[r.addr] = Max(EndsAt(runs, r.addr)) /\ F[r.addr] \in EndsAt(runs, r.addr)
        /\ r.end <= F[r.addr]
    BY <1>3, <1>4, <2>1, <2>2, <2>3
  <2>5. PICK d \in runs : d.addr = r.addr /\ d.end = F[r.addr]
    BY <2>4 DEF EndsAt
  <2>6. d \in A
    BY <1>1, <2>2, <2>5
  <2>7. d = r
    <3> SUFFICES ASSUME d # r PROVE FALSE
      OBVIOUS
    <3>1. r.addr \in d.addr .. d.end - 1
      BY <2>1, <2>4, <2>5
    <3> QED BY <1>7, <2>6, <3>1
  <2> QED BY <2>6, <2>7
<1>8. A \subseteq runs
  BY <1>1
<1>9. A = {r \in runs : \A c \in A \ {r} : r.addr \notin c.addr .. c.end - 1}
  BY <1>6, <1>7, <1>8
<1> QED BY <1>9 DEF A

(* A character of a constant, and a run of them, wherever blocks end.      *)
UnitAt(x, elem, low) ==
  /\ x \in CodeStart .. CodeEnd - elem
  /\ Readable(x, elem) /\ image[x] \in low
  /\ elem = 2 => image[x + 1] = 0
Shape(x, n, elem) ==
  /\ \A i \in 0 .. n - 1 : UnitAt(x + i * elem, elem, Text)
  /\ UnitAt(x + n * elem, elem, {0})
  /\ ~UnitAt(x - elem, elem, Text)
Runs(from, to, elem) ==
  {[addr |-> c[1], end |-> c[1] + (c[2] + 1) * elem] :
     c \in {d \in {x \in from .. to - 1 : x % Align = 0} \X (MinChars .. MaxChars) :
              Shape(d[1], d[2], elem)}}

LEMMA Division ==
  ASSUME NEW y \in Nat, NEW c \in Nat, c >= 1
  PROVE  /\ y \div c \in Nat /\ (y \div c) * c \in Nat /\ (y \div c) * c <= y
         /\ y < (y \div c) * c + c
<1> DEFINE q == y \div c
           r == y % c
<1>1. q \in Nat /\ r \in 0 .. c - 1 /\ y = c * q + r
  OBVIOUS
<1> HIDE DEF q, r
<1>2. c * q \in Nat /\ q * c = c * q
  BY <1>1
<1> QED BY <1>1, <1>2 DEF q

LEMMA CharFacts ==
  /\ MinChars \in Nat /\ MaxChars \in Nat /\ MinChars >= 1 /\ MinChars <= MaxChars
  /\ Align \in Nat /\ Align >= 1 /\ Align % 2 = 0
  /\ Base >= 2 /\ Base - 1 \notin Text /\ 0 \notin Text
  /\ DataEnd >= CodeEnd /\ DataEnd <= Base
<1>1. /\ MaxChars \in Nat /\ MinChars \in 1 .. MaxChars
      /\ Align \in Nat /\ Align >= 1 /\ Align % 2 = 0 /\ Base - 1 \notin Text
  BY ScannerAssumption
<1>2. DataEnd >= CodeEnd /\ DataEnd <= Base /\ Text \subseteq DataEnd .. Base - 1
  BY ReaderAssumption
<1> QED BY <1>1, <1>2, Bounds

(* A byte as it is read in pieces is the image's, or the filler.           *)
LEMMA FilledIs ==
  ASSUME image \in Images, NEW w \in Section, NEW x \in w .. CodeEnd - 1
  PROVE  /\ Filled(w, x) = IF x \in DOMAIN image THEN image[x] ELSE Base - 1
         /\ x \in DOMAIN image => CodeStart .. x \subseteq DOMAIN image
<1> DEFINE q == (x - w) \div Chunk
           piece == w + q * Chunk
<1>1. w \in Nat /\ x \in Nat /\ CodeStart <= w /\ w <= x /\ x < CodeEnd /\ CodeStart \in Nat
  BY Bounds DEF Section
<1>2. q \in Nat /\ q * Chunk <= x - w /\ q * Chunk >= 0 /\ q * Chunk \in Int
  <2>1. Chunk \in Nat /\ Chunk >= 1 /\ x - w \in Nat
    BY <1>1, Bounds
  <2> DEFINE y == x - w
  <2> HIDE DEF y
  <2>2. y \div Chunk \in Nat /\ (y \div Chunk) * Chunk \in Nat /\ (y \div Chunk) * Chunk <= y
    BY <2>1, Division DEF y
  <2> QED BY <2>2 DEF y
<1> HIDE DEF q
<1>3. piece \in Nat /\ w <= piece /\ piece <= x /\ piece + (x - piece + 1) - 1 = x
  BY <1>1, <1>2
<1>4. Filled(w, x) = IF Readable(piece, x - piece + 1) THEN image[x] ELSE Base - 1
  BY DEF Filled, q
<1> HIDE DEF piece
<1>5. x \in DOMAIN image => CodeStart .. x \subseteq DOMAIN image
  BY <1>1, ScannerAssumption
<1>6. piece .. x \subseteq CodeStart .. x /\ x \in piece .. x
  BY <1>1, <1>3
<1>7. Readable(piece, x - piece + 1) <=> piece .. x \subseteq DOMAIN image
  BY <1>3 DEF Readable
<1> QED BY <1>4, <1>5, <1>6, <1>7

LEMMA UnitIs ==
  ASSUME image \in Images, NEW elem \in {1, 2}, NEW w \in Section,
         NEW x \in w .. CodeEnd - elem, NEW low \in {Text, {0}}
  PROVE  Filled(w, x) \in low /\ (elem = 2 => Filled(w, x + 1) = 0) <=> UnitAt(x, elem, low)
<1>1. w \in Nat /\ x \in Nat /\ CodeStart <= w /\ w <= x /\ x + elem <= CodeEnd /\ CodeStart \in Nat
      /\ CodeEnd \in Nat
  BY Bounds DEF Section
<1>2. x \in CodeStart .. CodeEnd - elem /\ x \in w .. CodeEnd - 1
  BY <1>1
<1>3. /\ Filled(w, x) = IF x \in DOMAIN image THEN image[x] ELSE Base - 1
      /\ Base - 1 \notin low
  <2>1. Base - 1 # 0 /\ Base - 1 \notin Text
    BY CharFacts, Bounds
  <2> QED BY <1>2, <2>1, FilledIs
<1>4. CASE elem = 1
  <2>1. Readable(x, elem) <=> x \in DOMAIN image
    <3>1. x .. x + 1 - 1 = {x}
      BY <1>1
    <3> QED BY <1>4, <3>1 DEF Readable
  <2> QED BY <1>2, <1>3, <1>4, <2>1 DEF UnitAt
<1>5. CASE elem = 2
  <2>1. x + 1 \in w .. CodeEnd - 1
    BY <1>1, <1>5
  <2>2. /\ Filled(w, x + 1) = IF x + 1 \in DOMAIN image THEN image[x + 1] ELSE Base - 1
        /\ x + 1 \in DOMAIN image => CodeStart .. x + 1 \subseteq DOMAIN image
        /\ Base - 1 # 0
    BY <2>1, FilledIs, CharFacts, Bounds
  <2>3. Readable(x, elem) <=> x \in DOMAIN image /\ x + 1 \in DOMAIN image
    <3>1. x .. x + 2 - 1 = {x, x + 1}
      BY <1>1
    <3> QED BY <1>5, <3>1 DEF Readable
  <2> QED BY <1>2, <1>3, <1>5, <2>2, <2>3 DEF UnitAt
<1> QED BY <1>4, <1>5

(* Where the characters of a window lie.                                   *)
Lies(core, coreEnd, elem, w1, w2, first, units) ==
  /\ w1 \in Section /\ w2 \in Nat /\ w1 <= w2 /\ w2 <= CodeEnd
  /\ first \in Nat /\ w1 <= first /\ units \in Int
  /\ \A k \in Int : k <= units - 1 <=> first + k * elem + elem <= w2
  /\ \A x \in core .. coreEnd - 1 : x % elem = 0 => \E i \in Nat : x = first + i * elem
  /\ first >= core => first - elem < CodeStart
  /\ \A x \in core .. coreEnd - 1, n \in 0 .. MaxChars :
       x + n * elem + elem <= CodeEnd => x + n * elem + elem <= w2

LEMMA WindowFacts ==
  ASSUME NEW core \in Section, NEW coreEnd \in Nat, core < coreEnd, coreEnd <= CodeEnd,
         NEW elem \in {1, 2}, NEW w1, NEW w2, NEW first, NEW units,
         <<w1, w2>> = Window(core, coreEnd, elem),
         first = w1 + (w1 % elem), units = (w2 - first) \div elem
  PROVE  Lies(core, coreEnd, elem, w1, w2, first, units)
<1>1. /\ w1 = Greatest(CodeStart, core - elem)
      /\ w2 = Least(CodeEnd, coreEnd + (MaxChars + 1) * elem)
  BY DEF Window
<1>2. /\ core \in Nat /\ CodeStart \in Nat /\ CodeEnd \in Nat /\ CodeStart <= core
      /\ MaxChars \in Nat
  BY Bounds, CharFacts DEF Section
<1>3. CASE elem = 1
  <2>1. w1 = (IF CodeStart > core - 1 THEN CodeStart ELSE core - 1)
    BY <1>1, <1>3 DEF Greatest
  <2>2. w2 = (IF CodeEnd < coreEnd + MaxChars + 1 THEN CodeEnd ELSE coreEnd + MaxChars + 1)
    BY <1>1, <1>2, <1>3 DEF Least
  <2>3. w1 \in Nat /\ w2 \in Nat /\ w1 <= w2 /\ w2 <= CodeEnd /\ CodeStart <= w1 /\ w1 < CodeEnd
    BY <1>2, <2>1, <2>2
  <2>4. first = w1 /\ units = w2 - w1
    BY <1>3, <2>3
  <2>5. \A k \in Int : k * elem = k
    BY <1>3
  <2>6. \A x \in core .. coreEnd - 1 : x = first + (x - first) * elem /\ x - first \in Nat
    BY <1>2, <1>3, <2>1, <2>4
  <2>7. \A k \in Int : k <= units - 1 <=> first + k * elem + elem <= w2
    BY <1>3, <2>3, <2>4, <2>5
  <2>8. first >= core => first - elem < CodeStart
    BY <1>2, <1>3, <2>1, <2>4
  <2>9. \A x \in core .. coreEnd - 1, n \in 0 .. MaxChars :
              x + n * elem + elem <= CodeEnd => x + n * elem + elem <= w2
    BY <1>2, <1>3, <2>2, <2>5
  <2>10. \A x \in core .. coreEnd - 1 : x % elem = 0 => \E i \in Nat : x = first + i * elem
    BY <2>6
  <2>11. w1 \in Section /\ first \in Nat /\ w1 <= first /\ units \in Int
    BY <1>2, <2>3, <2>4 DEF Section
  <2> QED BY <2>3, <2>7, <2>8, <2>9, <2>10, <2>11 DEF Lies
<1>4. CASE elem = 2
  <2>1. w1 = (IF CodeStart > core - 2 THEN CodeStart ELSE core - 2)
    BY <1>1, <1>4 DEF Greatest
  <2>2. w2 = (IF CodeEnd < coreEnd + (MaxChars + 1) * 2 THEN CodeEnd ELSE coreEnd + (MaxChars + 1) * 2)
    BY <1>1, <1>2, <1>4 DEF Least
  <2>3. w1 \in Nat /\ w2 \in Nat /\ w1 <= w2 /\ w2 <= CodeEnd /\ CodeStart <= w1 /\ w1 < CodeEnd
    BY <1>2, <2>1, <2>2
  <2>4. first = w1 + (w1 % 2) /\ units = (w2 - first) \div 2
    BY <1>4
  <2>5. first \in Nat /\ w1 <= first /\ first <= w1 + 1 /\ first % 2 = 0
    BY <2>3, <2>4
  <2>6. \A x \in core .. coreEnd - 1 : x % elem = 0 =>
          (x - first) \div 2 \in Nat /\ x = first + ((x - first) \div 2) * elem
    <3> SUFFICES ASSUME NEW x \in core .. coreEnd - 1, x % 2 = 0
                 PROVE  (x - first) \div 2 \in Nat /\ x = first + ((x - first) \div 2) * 2
      BY <1>4
    <3>1. x \in Nat /\ core <= x
      BY <1>2
    <3>2. x >= first
      <4>1. CASE CodeStart > core - 2
        <5>1. w1 = CodeStart
          BY <2>1, <4>1
        <5>2. x = w1 => w1 % 2 = 0 /\ first = w1
          BY <2>4, <5>1, <1>2
        <5>3. x \in Nat /\ w1 \in Nat /\ first \in Nat /\ w1 <= x /\ first <= w1 + 1
          BY <1>2, <2>5, <3>1, <5>1
        <5>4. CASE x = w1
          BY <5>2, <5>3, <5>4
        <5>5. CASE x # w1
          BY <5>3, <5>5
        <5> QED BY <5>4, <5>5
      <4>2. CASE ~(CodeStart > core - 2)
        <5>1. w1 = core - 2
          BY <2>1, <4>2
        <5>2. first <= w1 + 1 /\ first \in Nat
          BY <2>5
        <5> QED BY <1>2, <3>1, <5>1, <5>2
      <4> QED BY <4>1, <4>2
    <3> QED BY <2>5, <3>1, <3>2
  <2>7. \A k \in Int : k <= units - 1 <=> first + k * elem + elem <= w2
    <3> SUFFICES ASSUME NEW k \in Int PROVE k <= units - 1 <=> first + k * 2 + 2 <= w2
      BY <1>4
    <3> QED BY <2>3, <2>4, <2>5
  <2>8. first >= core => first - elem < CodeStart
    BY <1>2, <1>4, <2>1, <2>5
  <2>9. \A x \in core .. coreEnd - 1, n \in 0 .. MaxChars :
              x + n * elem + elem <= CodeEnd => x + n * elem + elem <= w2
    BY <1>2, <1>4, <2>2
  <2>10. \A x \in core .. coreEnd - 1 : x % elem = 0 => \E i \in Nat : x = first + i * elem
    BY <2>6
  <2>11. w1 \in Section /\ units \in Int
    <3>1. w1 \in Section
      BY <1>2, <2>3 DEF Section
    <3>2. w2 - first \in Int
      BY <2>3, <2>5
    <3> QED BY <2>4, <3>1, <3>2
  <2> QED BY <2>3, <2>5, <2>7, <2>8, <2>9, <2>10, <2>11 DEF Lies
<1> QED BY <1>3, <1>4

LEMMA RunsOfBlock ==
  ASSUME image \in Images, NEW core \in Section, NEW coreEnd \in Nat,
         core < coreEnd, coreEnd <= CodeEnd, NEW elem \in {1, 2}
  PROVE  RunsInBlock(core, coreEnd, elem) = Runs(core, coreEnd, elem)
<1> DEFINE window == Window(core, coreEnd, elem)
           w1 == window[1]
           w2 == window[2]
           first == w1 + (w1 % elem)
           units == (w2 - first) \div elem
           At(i) == first + i * elem
           Unit(i, low) == /\ i \in 0 .. units - 1
                           /\ Filled(w1, At(i)) \in low
                           /\ elem = 2 => Filled(w1, At(i) + 1) = 0
           IsRun(i, n) == /\ \A j \in i .. i + n - 1 : Unit(j, Text)
                          /\ Unit(i + n, {0})
                          /\ ~Unit(i - 1, Text)
<1>1. RunsInBlock(core, coreEnd, elem) =
        {[addr |-> At(r[1]), end |-> At(r[1] + r[2] + 1)] :
           r \in {run \in (0 .. units - 1) \X (MinChars .. MaxChars) :
                    /\ At(run[1]) \in core .. coreEnd - 1
                    /\ At(run[1]) % Align = 0
                    /\ IsRun(run[1], run[2])}}
  BY DEF RunsInBlock
<1>2. <<w1, w2>> = Window(core, coreEnd, elem)
  BY DEF Window
<1>3. Lies(core, coreEnd, elem, w1, w2, first, units)
  <2> HIDE DEF w1, w2
  <2>1. first = w1 + (w1 % elem) /\ units = (w2 - first) \div elem
    OBVIOUS
  <2> HIDE DEF first, units
  <2> QED BY <1>2, <2>1, WindowFacts
<1> HIDE DEF w1, w2, first, units
<1>0. /\ w1 \in Section /\ w2 \in Nat /\ w1 <= w2 /\ w2 <= CodeEnd
      /\ first \in Nat /\ w1 <= first /\ units \in Int
      /\ \A k \in Int : k <= units - 1 <=> first + k * elem + elem <= w2
      /\ \A x \in core .. coreEnd - 1 : x % elem = 0 => \E i \in Nat : x = first + i * elem
      /\ first >= core => first - elem < CodeStart
      /\ \A x \in core .. coreEnd - 1, n \in 0 .. MaxChars :
           x + n * elem + elem <= CodeEnd => x + n * elem + elem <= w2
  BY <1>3 DEF Lies
<1>4. /\ core \in Nat /\ CodeStart \in Nat /\ CodeEnd \in Nat /\ CodeStart <= core
      /\ MinChars \in Nat /\ MaxChars \in Nat /\ w1 \in Nat /\ CodeStart <= w1
  BY <1>0, Bounds, CharFacts DEF Section
(* A unit of the window is one of the section.                             *)
<1>5. ASSUME NEW k \in Nat, NEW low \in {Text, {0}}, first + k * elem + elem <= w2 \/ first + k * elem + elem > CodeEnd
      PROVE  Unit(k, low) <=> UnitAt(At(k), elem, low)
  <2>1. k * elem \in Nat
    BY <1>0
  <2>2. CASE first + k * elem + elem <= w2
    <3>1. k \in 0 .. units - 1
      BY <1>0, <2>2
    <3>2. At(k) \in w1 .. CodeEnd - elem
      BY <1>0, <1>4, <2>1, <2>2
    <3> HIDE DEF At
    <3> QED BY <1>0, <3>1, <3>2, UnitIs
  <2>3. CASE ~(first + k * elem + elem <= w2)
    <3>1. ~(k \in 0 .. units - 1)
      BY <1>0, <2>3
    <3>2. ~(At(k) \in CodeStart .. CodeEnd - elem)
      BY <1>0, <1>4, <1>5, <2>1, <2>3
    <3> HIDE DEF At
    <3> QED BY <3>1, <3>2 DEF UnitAt
  <2> QED BY <2>2, <2>3
<1>6. \A i, j \in Int : At(i + j) = At(i) + j * elem /\ At(i) \in Int
  <2> SUFFICES ASSUME NEW i \in Int, NEW j \in Int
               PROVE  At(i + j) = At(i) + j * elem /\ At(i) \in Int
    OBVIOUS
  <2>1. CASE elem = 1
    BY <1>0, <2>1
  <2>2. CASE elem = 2
    BY <1>0, <2>2
  <2> QED BY <2>1, <2>2
<1>7. ASSUME NEW i \in Nat, NEW n \in MinChars .. MaxChars, At(i) \in core .. coreEnd - 1
      PROVE  IsRun(i, n) <=> Shape(At(i), n, elem)
  <2>1. ASSUME NEW j \in 0 .. n, NEW low \in {Text, {0}}
        PROVE  Unit(i + j, low) <=> UnitAt(At(i) + j * elem, elem, low)
    <3>1. j \in 0 .. MaxChars /\ j \in Nat /\ i + j \in Nat
      BY <1>4
    <3>2. first + (i + j) * elem = At(i) + j * elem /\ At(i + j) = At(i) + j * elem /\ j * elem \in Int
      BY <1>6, <3>1
    <3>3. At(i) + j * elem + elem <= CodeEnd => At(i) + j * elem + elem <= w2
      BY <1>0, <1>7, <3>1
    <3>4. At(i) + j * elem + elem \in Int
      <4>1. At(i) \in Int
        BY <1>6
      <4> HIDE DEF At
      <4> QED BY <3>2, <4>1
    <3>5. first + (i + j) * elem + elem <= w2 \/ first + (i + j) * elem + elem > CodeEnd
      <4> HIDE DEF At
      <4> QED BY <1>0, <1>4, <3>2, <3>3, <3>4
    <3> QED BY <1>5, <3>1, <3>2, <3>5
  <2>2. Unit(i - 1, Text) <=> UnitAt(At(i) - elem, elem, Text)
    <3>1. CASE i = 0
      <4>1. ~(i - 1 \in 0 .. units - 1)
        BY <3>1
      <4>2. At(i) = first
        BY <1>0, <3>1
      <4>3. ~(At(i) - elem \in CodeStart .. CodeEnd - elem)
        BY <1>0, <1>4, <1>7, <4>2
      <4> HIDE DEF At
      <4> QED BY <4>1, <4>3 DEF UnitAt
    <3>2. CASE i # 0
      <4>1. i - 1 \in Nat /\ At(i) = At(i - 1) + 1 * elem
        <5>1. i - 1 \in Nat /\ (i - 1) + 1 = i
          BY <3>2
        <5>2. At((i - 1) + 1) = At(i - 1) + 1 * elem
          BY <1>6, <5>1
        <5> QED BY <5>1, <5>2
      <4>2. At(i - 1) = At(i) - elem /\ At(i - 1) \in Int /\ At(i) \in Int
        <5>1. At(i - 1) \in Int /\ At(i) \in Int
          BY <1>6, <4>1
        <5> HIDE DEF At
        <5> QED BY <4>1, <5>1
      <4>3. first + (i - 1) * elem + elem <= w2 \/ first + (i - 1) * elem + elem > CodeEnd
        <5>1. At(i) + 0 * elem + elem <= CodeEnd => At(i) + 0 * elem + elem <= w2
          <6>1. 0 \in 0 .. MaxChars
            BY <1>4
          <6> HIDE DEF At
          <6> QED BY <1>0, <1>7, <6>1
        <5>2. first + (i - 1) * elem + elem = At(i)
          BY <4>2
        <5>3. CASE At(i) + elem <= CodeEnd
          <6> HIDE DEF At
          <6> QED BY <1>0, <4>2, <5>1, <5>2, <5>3
        <5>4. CASE At(i) + elem > CodeEnd
          <6>1. At(i) <= CodeEnd - 1
            BY <1>4, <1>7
          <6>2. At(i) <= w2
            <7>1. w2 = Least(CodeEnd, coreEnd + (MaxChars + 1) * elem)
              BY <1>2 DEF Window
            <7>2. (MaxChars + 1) * elem \in Nat
              BY <1>4
            <7> HIDE DEF At
            <7> QED BY <1>4, <1>7, <6>1, <7>1, <7>2 DEF Least
          <6> QED BY <5>2, <6>2
        <5> HIDE DEF At
        <5> QED BY <1>4, <4>2, <5>3, <5>4
      <4> QED BY <1>5, <4>1, <4>2, <4>3
    <3> QED BY <3>1, <3>2
  <2>3. (\A j \in i .. i + n - 1 : Unit(j, Text)) <=> (\A j \in 0 .. n - 1 : UnitAt(At(i) + j * elem, elem, Text))
    <3>1. n \in Nat /\ i \in Nat
      BY <1>4
    <3> HIDE DEF Unit, At
    <3>2. (\A j \in i .. i + n - 1 : Unit(j, Text)) <=> (\A j \in 0 .. n - 1 : Unit(i + j, Text))
      <4>1. \A j \in i .. i + n - 1 : j - i \in 0 .. n - 1 /\ i + (j - i) = j
        BY <3>1
      <4>2. \A j \in 0 .. n - 1 : i + j \in i .. i + n - 1
        BY <3>1
      <4> QED BY <4>1, <4>2
    <3>3. \A j \in 0 .. n - 1 : j \in 0 .. n
      BY <3>1
    <3> QED BY <2>1, <3>2, <3>3
  <2>4. Unit(i + n, {0}) <=> UnitAt(At(i) + n * elem, elem, {0})
    <3>1. n \in 0 .. n
      BY <1>4
    <3> QED BY <2>1, <3>1
  <2> HIDE DEF Unit, At
  <2> QED BY <2>2, <2>3, <2>4 DEF Shape
<1>8. ASSUME NEW x \in core .. coreEnd - 1, x % Align = 0, NEW n \in MinChars .. MaxChars, Shape(x, n, elem)
      PROVE  \E i \in 0 .. units - 1 : x = At(i)
  <2>1. x \in Nat
    BY <1>4
  <2>2. x % elem = 0
    <3>1. CASE elem = 1
      BY <2>1, <3>1
    <3>2. CASE elem = 2
      <4> DEFINE q == x \div Align
                 c == Align \div 2
      <4>1. q \in Nat /\ x = Align * q
        BY <1>8, <2>1, CharFacts
      <4>2. c \in Nat /\ Align = 2 * c
        BY CharFacts
      <4> HIDE DEF q, c
      <4>3. x = 2 * (c * q) /\ c * q \in Nat
        BY <4>1, <4>2
      <4> QED BY <3>2, <4>3
    <3> QED BY <3>1, <3>2
  <2>3. PICK i \in Nat : x = first + i * elem
    BY <1>0, <2>2
  <2>4. x + elem <= CodeEnd
    <3>0. 0 * elem = 0
      BY elem = 1 \/ elem = 2
    <3>1. 0 \in 0 .. n - 1 /\ x + 0 * elem = x
      <4>1. n >= 1 /\ n \in Nat /\ x \in Nat
        BY <1>4, CharFacts
      <4> QED BY <3>0, <4>1
    <3>2. UnitAt(x, elem, Text)
      BY <1>8, <3>1 DEF Shape
    <3>3. x \in CodeStart .. CodeEnd - elem
      BY <3>2 DEF UnitAt
    <3> QED BY <1>4, <3>3
  <2>5. x + elem <= w2
    <3>1. 0 \in 0 .. MaxChars /\ x + 0 * elem + elem = x + elem
      BY <1>4, <2>1
    <3> QED BY <1>0, <2>4, <3>1
  <2>6. i \in 0 .. units - 1
    BY <1>0, <2>3, <2>5
  <2> QED BY <2>3, <2>6
<1> HIDE DEF IsRun, At
<1>9. ASSUME NEW i \in 0 .. units - 1, NEW n \in MinChars .. MaxChars
      PROVE  At(i + n + 1) = At(i) + (n + 1) * elem
  <2>1. i \in Int /\ n + 1 \in Int /\ i + n + 1 = i + (n + 1)
    BY <1>0, <1>4
  <2> QED BY <1>6, <2>1
<1>10. ASSUME NEW r \in RunsInBlock(core, coreEnd, elem) PROVE r \in Runs(core, coreEnd, elem)
  <2>1. PICK run \in (0 .. units - 1) \X (MinChars .. MaxChars) :
             /\ At(run[1]) \in core .. coreEnd - 1
             /\ At(run[1]) % Align = 0
             /\ IsRun(run[1], run[2])
             /\ r = [addr |-> At(run[1]), end |-> At(run[1] + run[2] + 1)]
    BY <1>1, <1>10
  <2> DEFINE i == run[1] n == run[2] d == <<At(i), n>>
  <2>2. i \in 0 .. units - 1 /\ n \in MinChars .. MaxChars /\ i \in Nat
    BY <1>0
  <2>3. Shape(At(i), n, elem) /\ r = [addr |-> At(i), end |-> At(i) + (n + 1) * elem]
        /\ At(i) \in {x \in core .. coreEnd - 1 : x % Align = 0}
    BY <1>7, <1>9, <2>1, <2>2
  <2> HIDE DEF i, n
  <2>4. d \in {x \in core .. coreEnd - 1 : x % Align = 0} \X (MinChars .. MaxChars)
        /\ d[1] = At(i) /\ d[2] = n
    BY <2>2, <2>3
  <2> HIDE DEF d
  <2> QED BY <2>3, <2>4 DEF Runs
<1>11. ASSUME NEW r \in Runs(core, coreEnd, elem) PROVE r \in RunsInBlock(core, coreEnd, elem)
  <2>1. PICK d \in {x \in core .. coreEnd - 1 : x % Align = 0} \X (MinChars .. MaxChars) :
             Shape(d[1], d[2], elem) /\ r = [addr |-> d[1], end |-> d[1] + (d[2] + 1) * elem]
    BY <1>11 DEF Runs
  <2> DEFINE x == d[1] n == d[2]
  <2>2. x \in core .. coreEnd - 1 /\ x % Align = 0 /\ n \in MinChars .. MaxChars
    OBVIOUS
  <2>3. PICK i \in 0 .. units - 1 : x = At(i)
    BY <1>8, <2>1, <2>2
  <2>4. i \in Nat
    BY <1>0
  <2>5. IsRun(i, n) /\ r = [addr |-> At(i), end |-> At(i + n + 1)]
    BY <1>7, <1>9, <2>1, <2>2, <2>3, <2>4
  <2> DEFINE run == <<i, n>>
  <2> HIDE DEF x, n
  <2>6. run \in (0 .. units - 1) \X (MinChars .. MaxChars) /\ run[1] = i /\ run[2] = n
    BY <2>2
  <2> HIDE DEF run
  <2> QED BY <1>1, <2>2, <2>3, <2>5, <2>6
<1> QED BY <1>10, <1>11

-----------------------------------------------------------------------------
(* So do the tables of a class.                                            *)
LEMMA TablesStable ==
  ASSUME image' = image
  PROVE  /\ \A l, a : Regions(l, a)' = Regions(l, a)
         /\ \A l, a : VtableEnd(l, a)' = VtableEnd(l, a)
<1>1. \A a : AttrEnd(a)' = AttrEnd(a)
  BY ReaderStable DEF AttrEnd
<1>2. \A a : ParamEnd(a)' = ParamEnd(a)
  BY <1>1, ReaderStable DEF ParamEnd
<1>3. \A a : MethodEnd(a)' = MethodEnd(a)
  <2>1. [q \in Int |-> ParamEnd(q)]' = [q \in Int |-> ParamEnd(q)]
    BY <1>2
  <2> QED BY <1>1, <2>1, ReaderStable DEF MethodEnd
<1>4. \A l, a : ExMethodEnd(l, a)' = ExMethodEnd(l, a)
  BY <1>3, ReaderStable DEF ExMethodEnd
<1>5. \A l, p : MethodTableEx(l, p)' = MethodTableEx(l, p)
  <2> SUFFICES ASSUME NEW l, NEW p PROVE MethodTableEx(l, p)' = MethodTableEx(l, p)
    OBVIOUS
  <2>1. [q \in Int |-> ExMethodEnd(l, q)]' = [q \in Int |-> ExMethodEnd(l, q)]
    BY <1>4
  <2> QED BY <1>3, <2>1, ReaderStable DEF MethodTableEx
<1>6. \A l, a : MethodTable(l, a)' = MethodTable(l, a)
  <2> SUFFICES ASSUME NEW l, NEW a PROVE MethodTable(l, a)' = MethodTable(l, a)
    OBVIOUS
  <2>1. [q \in Int |-> MethodEnd(q)]' = [q \in Int |-> MethodEnd(q)]
    BY <1>3
  <2> QED BY <1>5, <2>1, ReaderStable, RecordsStable, SMTT(30) DEF MethodTable
<1>7. \A l, a : DynamicTable(l, a)' = DynamicTable(l, a)
  <2> SUFFICES ASSUME NEW l, NEW a PROVE DynamicTable(l, a)' = DynamicTable(l, a)
    OBVIOUS
  <2>1. [h \in Int |-> IF Code(Word(h)) THEN h + Width ELSE None]' =
          [h \in Int |-> IF Code(Word(h)) THEN h + Width ELSE None]
    BY ReaderStable
  <2> QED BY <2>1, ReaderStable, RecordsStable, SMTT(30) DEF DynamicTable
<1>8. \A a : FieldEnd(a)' = FieldEnd(a)
  BY ReaderStable DEF FieldEnd
<1>9. \A l, a : FieldTable(l, a)' = FieldTable(l, a)
  <2> SUFFICES ASSUME NEW l, NEW a PROVE FieldTable(l, a)' = FieldTable(l, a)
    OBVIOUS
  <2> DEFINE p == Slot(l, a, "vmtFieldTable")
             n == Byte(p)
             ctab == Word(p + 1)
             k == Byte(ctab)
             starts == Walk(p + 1 + Width, n, [q \in Int |-> FieldEnd(q)])
  <2>1. [q \in Int |-> FieldEnd(q)]' = [q \in Int |-> FieldEnd(q)]
    BY <1>8
  <2>2. p' = p
    BY RecordsStable
  <2>3. n' = n /\ ctab' = ctab
    BY <2>2, ReaderStable
  <2>4. k' = k /\ starts' = starts
    BY <2>1, <2>2, <2>3, ReaderStable
  <2> DEFINE more == IF Mapped(ctab) /\ k \in 0 .. MaxCount /\ Readable(ctab, (ctab + 1 + Width * k) - ctab)
                     THEN {<<ctab, ctab + 1 + Width * k>>} ELSE {}
             size == (ctab + 1 + Width * k) - ctab
  <2>5. size' = size /\ (Readable(ctab, size)' <=> Readable(ctab, size))
    <3>1. size' = size
      BY <2>3, <2>4
    <3> HIDE DEF size, ctab
    <3> QED BY <2>3, <3>1, ReaderStable
  <2>6. more' = more
    <3> HIDE DEF ctab, k
    <3> QED BY <2>3, <2>4, <2>5
  <2>7. FieldTable(l, a) =
          IF ~Mapped(p) \/ n \notin 0 .. MaxCount \/ ctab = None \/ starts = <<>>
          THEN Nothing ELSE Found(starts, {<<p, Last(starts)>>} \union more)
    BY DEF FieldTable
  <2>8. (FieldTable(l, a) =
          IF ~Mapped(p) \/ n \notin 0 .. MaxCount \/ ctab = None \/ starts = <<>>
          THEN Nothing ELSE Found(starts, {<<p, Last(starts)>>} \union more))'
    BY DEF FieldTable
  <2> HIDE DEF p, n, ctab, k, starts, more, size
  <2> QED BY <2>2, <2>3, <2>4, <2>6, <2>7, <2>8
<1>10. \A l, s, f, a : ManagedEnd(l, s, f, a)' = ManagedEnd(l, s, f, a)
  BY ReaderStable DEF ManagedEnd
<1>11. \A l, a : InitTable(l, a)' = InitTable(l, a)
  <2> SUFFICES ASSUME NEW l, NEW a PROVE InitTable(l, a)' = InitTable(l, a)
    OBVIOUS
  <2> DEFINE p == Slot(l, a, "vmtInitTable")
             size == Slot(l, a, "vmtInstanceSize")
             first(base) == base + 2 * Width
             EndOf(base) == [e \in Int |-> ManagedEnd(l, size, first(base), e)]
             At(base) == IF Word(base) = None \/ Word(base + Width) \notin 1 .. MaxCount THEN <<>>
                         ELSE Walk(first(base), Word(base + Width), EndOf(base))
             Fields(head) == At(StrEnd(p + 1) + head)
             starts == IF Fields(0) # <<>> THEN Fields(0) ELSE Fields(1)
  <2>1. p' = p /\ size' = size
    BY RecordsStable
  <2>2. \A base : EndOf(base)' = EndOf(base)
    BY <1>10, <2>1
  <2>3. \A base : At(base)' = At(base)
    BY <2>2, ReaderStable
  <2>4. \A head : Fields(head)' = Fields(head)
    BY <2>1, <2>3, ReaderStable
  <2>5. InitTable(l, a) =
          IF ~Mapped(p) \/ Byte(p) # RecordKind \/ StrEnd(p + 1) = None \/ starts = <<>>
          THEN Nothing ELSE Found(starts, {<<p, Last(starts)>>})
    BY DEF InitTable
  <2>6. (InitTable(l, a) =
          IF ~Mapped(p) \/ Byte(p) # RecordKind \/ StrEnd(p + 1) = None \/ starts = <<>>
          THEN Nothing ELSE Found(starts, {<<p, Last(starts)>>}))'
    BY DEF InitTable
  <2>7. starts' = starts
    <3> HIDE DEF Fields
    <3> QED BY <2>4
  <2> HIDE DEF p, starts
  <2> QED BY <2>1, <2>5, <2>6, <2>7, ReaderStable
<1>12. \A a, n : CodeWords(a, n)' = CodeWords(a, n)
  BY ReaderStable DEF CodeWords
<1>13. \A a : IntfEnd(a)' = IntfEnd(a)
  BY ReaderStable DEF IntfEnd
<1>14. \A s, v : IntfSlots(s, v)' = IntfSlots(s, v)
  BY <1>12 DEF IntfSlots
<1>15. \A l, a : IntfTable(l, a)' = IntfTable(l, a)
  <2>1. [e \in Int |-> IntfEnd(e)]' = [e \in Int |-> IntfEnd(e)]
    BY <1>13
  <2> QED BY <1>14, <2>1, ReaderStable, RecordsStable DEF IntfTable
<1>16. \A l, a : VtableEnd(l, a)' = VtableEnd(l, a)
  <2> SUFFICES ASSUME NEW l, NEW a PROVE VtableEnd(l, a)' = VtableEnd(l, a)
    OBVIOUS
  <2> DEFINE tables == {p \in {Slot(l, a, s) : s \in TableSlots} : p >= a}
             ceiling == CHOOSE p \in tables : \A q \in tables : p <= q
             room == (ceiling - a + Width - 1) \div Width
             n == IF tables = {} \/ room > MaxCount THEN MaxCount ELSE room
  <2>1. tables' = tables
    BY RecordsStable
  <2>2. n' = n
    <3> HIDE DEF tables
    <3> QED BY <2>1
  <2>3. VtableEnd(l, a) = a + Width * CodeWords(a, n) /\ (VtableEnd(l, a) = a + Width * CodeWords(a, n))'
    BY DEF VtableEnd
  <2> HIDE DEF n
  <2> QED BY <1>12, <2>2, <2>3
<1>17. \A l, a : Tables(l, a)' = Tables(l, a)
  BY <1>6, <1>7, <1>9, <1>11, <1>15 DEF Tables
<1>18. \A l, a : Regions(l, a)' = Regions(l, a)
  BY <1>17, ReaderStable, RecordsStable DEF Regions
<1> QED BY <1>16, <1>18

(* The candidates that begin before n, and the addresses of the section    *)
(* that a word before n holds, the sections read one by one.               *)
Upto(n, elem) == {r \in Runs(CodeStart, n, elem) : Outside(r)}
AllCandidates == Upto(CodeEnd, 1) \union (IF layout.wide THEN Upto(CodeEnd, 2) ELSE {})
Holds(x, from, n) == \E y \in from .. n - 2 : Word(y) = x /\ y # CodeEnd - 1
HeldUpto(n) == {x \in Section : Holds(x, CodeStart, n)}
ByteRead(x) == IF x \in DOMAIN image THEN image[x] ELSE Base - 1
Addrs == {r.addr : r \in candidates}
Standing == {r \in AllCandidates : r.addr \in HeldUpto(DataEnd)}

ConstantsSoFar ==
  /\ pass \in {"detect", "records", "linked", "strings"} => candidates = {}
  /\ pass \in {"detect", "records", "linked", "strings", "narrow", "wide"} =>
       carry = <<>> /\ referenced = {}
  /\ pass \in {"narrow", "wide"} => at \in Section
  /\ pass = "narrow" => candidates = Upto(at, 1)
  /\ pass = "wide" => layout.wide /\ candidates = Upto(CodeEnd, 1) \union Upto(at, 2)
  /\ pass \in {"references", "accept"} => candidates = AllCandidates
  /\ pass = "references" =>
       /\ at \in CodeStart .. DataEnd - 1
       /\ carry = IF at \in {CodeStart, CodeEnd} THEN <<>> ELSE <<ByteRead(at - 1)>>
       /\ referenced = Addrs \intersect HeldUpto(at)
  /\ pass = "accept" => referenced = Addrs \intersect HeldUpto(DataEnd)
  /\ pass \in {"streams", "done"} => constants = Accepted(Standing)

LEMMA RunsStable ==
  ASSUME image' = image
  PROVE  /\ \A from, to, elem : Runs(from, to, elem)' = Runs(from, to, elem)
         /\ \A n : HeldUpto(n)' = HeldUpto(n)
         /\ \A x : ByteRead(x)' = ByteRead(x)
         /\ \A x, n, elem : Shape(x, n, elem)' <=> Shape(x, n, elem)
<1>1. \A x, elem, low : UnitAt(x, elem, low)' <=> UnitAt(x, elem, low)
  BY ReaderStable DEF UnitAt
<1>2. \A x, n, elem : Shape(x, n, elem)' <=> Shape(x, n, elem)
  BY <1>1 DEF Shape
<1>3. \A from, to, elem : Runs(from, to, elem)' = Runs(from, to, elem)
  BY <1>2 DEF Runs
<1>4. \A n : HeldUpto(n)' = HeldUpto(n)
  BY ReaderStable DEF HeldUpto, Holds
<1>5. \A x : ByteRead(x)' = ByteRead(x)
  BY DEF ByteRead
<1> QED BY <1>2, <1>3, <1>4, <1>5

LEMMA CandidatesStable ==
  ASSUME UNCHANGED <<image, layout, vmts, typeinfos, strings>>
  PROVE  /\ \A r : Outside(r)' <=> Outside(r)
         /\ \A n, elem : Upto(n, elem)' = Upto(n, elem)
         /\ AllCandidates' = AllCandidates /\ Standing' = Standing
<1>1. Claimed' = Claimed
  <2>1. {<<t - Width, TypeInfoEnd(t)>> : t \in typeinfos}' = {<<t - Width, TypeInfoEnd(t)>> : t \in typeinfos}
    BY RecordsStable
  <2>2. {<<v - HeaderSize(layout), VtableEnd(layout, v)>> : v \in vmts}' =
          {<<v - HeaderSize(layout), VtableEnd(layout, v)>> : v \in vmts}
    BY TablesStable
  <2>3. (UNION {Regions(layout, v) : v \in vmts})' = UNION {Regions(layout, v) : v \in vmts}
    BY TablesStable
  <2> QED BY <2>1, <2>2, <2>3 DEF Claimed
<1>2. \A r : Outside(r)' <=> Outside(r)
  BY <1>1 DEF Outside
<1>3. \A n, elem : Upto(n, elem)' = Upto(n, elem)
  BY <1>2, RunsStable DEF Upto
<1>4. AllCandidates' = AllCandidates
  BY <1>3 DEF AllCandidates
<1>5. Standing' = Standing
  BY <1>4, RunsStable DEF Standing
<1> QED BY <1>2, <1>3, <1>4, <1>5

LEMMA ConstantsInit == Init => ConstantsSoFar
BY DEF Init, ConstantsSoFar

LEMMA ConstantsEarly ==
  ASSUME SoFar, ConstantsSoFar, Detect \/ ScanRecords \/ ScanLinked PROVE ConstantsSoFar'
<1>1. /\ pass \in {"detect", "records", "linked"} /\ pass' \in {"records", "linked", "strings"}
      /\ UNCHANGED <<candidates, carry, referenced>>
  BY DEF Detect, ScanRecords, ScanLinked, Advance
<1> QED BY <1>1 DEF ConstantsSoFar

LEMMA ConstantsStrings ==
  ASSUME SoFar, ConstantsSoFar, ScanStrings PROVE ConstantsSoFar'
<1> DEFINE base == at + ((-at) % Width)
           stop == Least(base + Chunk, CodeEnd)
<1>1. /\ pass = "strings" /\ UNCHANGED <<candidates, carry, referenced>>
      /\ Advance(stop, CodeEnd, "narrow")
  BY DEF ScanStrings
<1>2. candidates = {} /\ carry = <<>> /\ referenced = {}
  BY <1>1 DEF ConstantsSoFar
<1> HIDE DEF stop
<1>3. CASE stop < CodeEnd
  BY <1>1, <1>2, <1>3 DEF Advance, ConstantsSoFar
<1>4. CASE ~(stop < CodeEnd)
  <2>1. pass' = "narrow" /\ at' = CodeStart
    BY <1>1, <1>4 DEF Advance
  <2>2. Upto(at, 1)' = {}
    <3>1. CodeStart .. CodeStart - 1 = {}
      BY Bounds
    <3> QED BY <2>1, <3>1 DEF Upto, Runs
  <2> QED BY <1>1, <1>2, <2>1, <2>2, Bounds DEF ConstantsSoFar
<1> QED BY <1>3, <1>4

LEMMA RunsJoin ==
  ASSUME NEW mid \in Int, NEW stop \in Int, CodeStart <= mid, mid <= stop, NEW elem
  PROVE  Runs(CodeStart, stop, elem) = Runs(CodeStart, mid, elem) \union Runs(mid, stop, elem)
<1> DEFINE D(from, to) == {d \in {x \in from .. to - 1 : x % Align = 0} \X (MinChars .. MaxChars) :
                            Shape(d[1], d[2], elem)}
           R(from, to) == {[addr |-> c[1], end |-> c[1] + (c[2] + 1) * elem] : c \in D(from, to)}
<1>1. \A from, to : Runs(from, to, elem) = R(from, to)
  BY DEF Runs
<1>2. CodeStart .. stop - 1 = (CodeStart .. mid - 1) \union (mid .. stop - 1)
  BY Bounds
<1>3. D(CodeStart, stop) = D(CodeStart, mid) \union D(mid, stop)
  BY <1>2
<1> HIDE DEF D
<1>4. R(CodeStart, stop) = R(CodeStart, mid) \union R(mid, stop)
  BY <1>3
<1> QED BY <1>1, <1>4

LEMMA UptoStart == \A elem : Upto(CodeStart, elem) = {}
<1>1. CodeStart .. CodeStart - 1 = {}
  BY Bounds
<1> QED BY <1>1 DEF Upto, Runs

(* One block further.                                                      *)
LEMMA NextStop ==
  ASSUME NEW from \in Nat, NEW end \in Nat, from < end
  PROVE  /\ Least(from + Chunk, end) \in Nat /\ from < Least(from + Chunk, end)
         /\ Least(from + Chunk, end) <= end /\ Least(from + Chunk, end) <= from + Chunk
<1>1. Chunk \in Nat /\ Chunk >= 2
  BY Bounds
<1> QED BY <1>1 DEF Least

LEMMA ConstantsRuns ==
  ASSUME SoFar, ConstantsSoFar, ScanRuns PROVE ConstantsSoFar'
<1> DEFINE stop == Least(at + Chunk, CodeEnd)
           elem == IF pass = "wide" THEN 2 ELSE 1
           next == IF pass = "narrow" /\ layout.wide THEN "wide" ELSE "references"
<1>1. /\ pass \in {"narrow", "wide"}
      /\ candidates' = candidates \union {r \in RunsInBlock(at, stop, elem) : Outside(r)}
      /\ Advance(stop, CodeEnd, next)
      /\ UNCHANGED <<image, layout, vmts, typeinfos, strings, carry, referenced>>
  BY DEF ScanRuns
<1>2. image \in Images /\ at \in Section /\ carry = <<>> /\ referenced = {}
  BY <1>1 DEF SoFar, ConstantsSoFar
<1>3. at \in Nat /\ CodeStart <= at /\ at < CodeEnd /\ CodeEnd \in Nat /\ CodeStart \in Nat
  BY <1>2, Bounds DEF Section
<1>4. stop \in Nat /\ at < stop /\ stop <= CodeEnd
  BY <1>3, NextStop
<1>5. elem \in {1, 2}
  OBVIOUS
<1> HIDE DEF stop
<1>6. \A e \in {1, 2} : {r \in RunsInBlock(at, stop, e) : Outside(r)} \union Upto(at, e) = Upto(stop, e)
  <2> SUFFICES ASSUME NEW e \in {1, 2}
               PROVE  {r \in RunsInBlock(at, stop, e) : Outside(r)} \union Upto(at, e) = Upto(stop, e)
    OBVIOUS
  <2>1. RunsInBlock(at, stop, e) = Runs(at, stop, e)
    BY <1>2, <1>4, RunsOfBlock
  <2>2. Runs(CodeStart, stop, e) = Runs(CodeStart, at, e) \union Runs(at, stop, e)
    BY <1>3, <1>4, RunsJoin
  <2> QED BY <2>1, <2>2 DEF Upto
<1>7. /\ \A n, e : Upto(n, e)' = Upto(n, e)
      /\ AllCandidates' = AllCandidates
  BY <1>1, CandidatesStable
<1>8. Upto(at, 1)' = Upto(at', 1) /\ Upto(at, 2)' = Upto(at', 2)
  <2>1. \A r : Outside(r)' <=> Outside(r)
    BY <1>1, CandidatesStable
  <2>2. Runs(CodeStart, at, 1)' = Runs(CodeStart, at', 1) /\ Runs(CodeStart, at, 2)' = Runs(CodeStart, at', 2)
    BY <1>1, RunsStable DEF Runs
  <2> QED BY <2>1, <2>2 DEF Upto
<1>9. CASE stop < CodeEnd
  <2>1. at' = stop /\ pass' = pass /\ at' \in Section
    BY <1>1, <1>3, <1>4, <1>9 DEF Advance, Section
  <2>2. CASE pass = "narrow"
    <3>1. candidates' = Upto(at, 1)'
      BY <1>1, <1>6, <1>8, <2>1, <2>2 DEF ConstantsSoFar
    <3> QED BY <1>1, <1>2, <2>1, <2>2, <3>1 DEF ConstantsSoFar
  <2>3. CASE pass = "wide"
    <3>1. candidates' = Upto(CodeEnd, 1)' \union Upto(at, 2)' /\ layout'.wide
      BY <1>1, <1>6, <1>7, <1>8, <2>1, <2>3 DEF ConstantsSoFar
    <3> QED BY <1>1, <1>2, <2>1, <2>3, <3>1 DEF ConstantsSoFar
  <2> QED BY <1>1, <2>2, <2>3
<1>10. CASE ~(stop < CodeEnd)
  <2>1. at' = CodeStart /\ pass' = next /\ stop = CodeEnd /\ at' \in Section
    BY <1>1, <1>3, <1>4, <1>10, Bounds DEF Advance
  <2>2. CASE pass = "narrow" /\ layout.wide
    <3>1. candidates' = Upto(CodeEnd, 1)' \union Upto(at, 2)' /\ layout'.wide
      BY <1>1, <1>6, <1>7, <1>8, <2>1, <2>2, UptoStart DEF ConstantsSoFar
    <3> QED BY <1>1, <1>2, <2>1, <2>2, <3>1 DEF ConstantsSoFar
  <2>3. CASE ~(pass = "narrow" /\ layout.wide)
    <3>1. pass' = "references"
      BY <2>1, <2>3
    <3>2. candidates' = AllCandidates'
      <4>1. CASE pass = "narrow"
        <5>1. candidates' = Upto(CodeEnd, 1) /\ AllCandidates = Upto(CodeEnd, 1)
          BY <1>1, <1>6, <2>1, <2>3, <4>1 DEF ConstantsSoFar, AllCandidates
        <5> QED BY <1>7, <5>1
      <4>2. CASE pass = "wide"
        <5>1. candidates' = Upto(CodeEnd, 1) \union Upto(CodeEnd, 2)
          BY <1>1, <1>6, <2>1, <4>2 DEF ConstantsSoFar
        <5>2. AllCandidates = Upto(CodeEnd, 1) \union Upto(CodeEnd, 2)
          BY <4>2 DEF ConstantsSoFar, AllCandidates
        <5> QED BY <1>7, <5>1, <5>2
      <4> QED BY <1>1, <4>1, <4>2
    <3>3. at' \in CodeStart .. DataEnd - 1
      BY <2>1, CharFacts, Bounds
    <3>4. HeldUpto(at)' = {}
      <4>1. CodeStart .. CodeStart - 2 = {}
        BY Bounds
      <4> QED BY <2>1, <4>1 DEF HeldUpto, Holds
    <3> QED BY <1>1, <1>2, <2>1, <3>1, <3>2, <3>3, <3>4 DEF ConstantsSoFar
  <2> QED BY <2>2, <2>3
<1> QED BY <1>9, <1>10

LEMMA FilledAnywhere ==
  ASSUME image \in Images, NEW w \in Nat, NEW x \in w .. DataEnd - 1, x < w + Chunk,
         CodeStart <= w, x < CodeEnd \/ CodeEnd <= w
  PROVE  Filled(w, x) = ByteRead(x)
<1>1. /\ w \in Nat /\ x \in Nat /\ w <= x /\ x < w + Chunk /\ Chunk \in Nat /\ Chunk >= 1
      /\ CodeStart \in Nat /\ CodeEnd \in Nat /\ DataEnd \in Nat /\ x < DataEnd /\ CodeStart <= w
  BY Bounds
<1>2. (x - w) \div Chunk = 0
  BY <1>1
<1>3. w + 0 * Chunk = w /\ 0 * Chunk = 0 /\ w + (x - w + 1) - 1 = x
  BY <1>1
<1>4. Filled(w, x) = IF Readable(w, x - w + 1) THEN image[x] ELSE Base - 1
  BY <1>2, <1>3 DEF Filled
<1>5. Readable(w, x - w + 1) <=> w .. x \subseteq DOMAIN image
  BY <1>3 DEF Readable
<1>6. w .. x \subseteq DOMAIN image <=> x \in DOMAIN image
  <2>1. x \in w .. x
    BY <1>1
  <2>2. ASSUME x \in DOMAIN image PROVE w .. x \subseteq DOMAIN image
    <3>1. CASE x < CodeEnd
      <4>1. CodeStart .. x \subseteq DOMAIN image
        BY <2>2, <3>1, ScannerAssumption
      <4>2. w .. x \subseteq CodeStart .. x
        BY <1>1
      <4> QED BY <4>1, <4>2
    <3>2. CASE CodeEnd <= w
      <4>1. CodeEnd .. x \subseteq DOMAIN image
        BY <1>1, <2>2, ScannerAssumption
      <4>2. w .. x \subseteq CodeEnd .. x
        BY <1>1, <3>2
      <4> QED BY <4>1, <4>2
    <3> QED BY <3>1, <3>2
  <2> QED BY <2>1, <2>2
<1> QED BY <1>4, <1>5, <1>6 DEF ByteRead

LEMMA ByteReadFacts ==
  ASSUME image \in Images, NEW x
  PROVE  ByteRead(x) \in 0 .. Base - 1
<1>1. x \in DOMAIN image => image[x] \in 0 .. Base - 1
  BY ScannerAssumption
<1>2. Base - 1 \in 0 .. Base - 1
  BY CharFacts, Bounds
<1> QED BY <1>1, <1>2 DEF ByteRead

(* Two bytes that could not both be read hold no address of the section.   *)
LEMMA WordRead ==
  ASSUME image \in Images, NEW y \in Nat, CodeStart <= y, y + 1 < DataEnd, y # CodeEnd - 1,
         NEW x \in Section
  PROVE  ByteRead(y) + Base * ByteRead(y + 1) = x <=> Word(y) = x
<1>1. /\ Base \in Nat /\ Base >= 2 /\ CodeStart \in Nat /\ CodeEnd \in Nat /\ DataEnd \in Nat
      /\ CodeEnd <= Base /\ x \in Nat /\ x < CodeEnd
  BY Bounds, CharFacts DEF Section
<1>2. ByteRead(y) \in Nat /\ ByteRead(y + 1) \in Nat
  BY <1>1, ByteReadFacts
<1>3. y .. y + 2 - 1 = {y, y + 1}
  OBVIOUS
<1>4. Readable(y, 2) <=> y \in DOMAIN image /\ y + 1 \in DOMAIN image
  BY <1>3 DEF Readable
<1>5. y + 1 \in DOMAIN image => y \in DOMAIN image
  <2> SUFFICES ASSUME y + 1 \in DOMAIN image PROVE y \in DOMAIN image
    OBVIOUS
  <2>1. CASE y + 1 < CodeEnd
    <3>1. CodeStart .. y + 1 \subseteq DOMAIN image
      BY <2>1, ScannerAssumption
    <3> QED BY <1>1, <3>1
  <2>2. CASE ~(y + 1 < CodeEnd)
    <3>1. CodeEnd .. y + 1 \subseteq DOMAIN image
      BY ScannerAssumption
    <3>2. y \in CodeEnd .. y + 1
      BY <1>1, <2>2
    <3> QED BY <3>1, <3>2
  <2> QED BY <2>1, <2>2
<1>6. CASE Readable(y, 2)
  BY <1>4, <1>6 DEF Word, Width, ByteRead
<1>7. CASE ~Readable(y, 2)
  <2>1. Word(y) = -1
    BY <1>7 DEF Word, Width, None
  <2>2. ByteRead(y + 1) = Base - 1
    BY <1>4, <1>5, <1>7 DEF ByteRead
  <2>3. Base * (Base - 1) >= Base /\ Base * (Base - 1) \in Nat
    <3> DEFINE b == Base - 1
    <3>1. b \in Nat /\ b >= 1 /\ Base * 1 = Base
      BY <1>1
    <3>2. b = 1 + (b - 1) /\ b - 1 \in Nat
      BY <3>1
    <3>3. Base * b = Base * 1 + Base * (b - 1) /\ Base * (b - 1) \in Nat
      <4> HIDE DEF b
      <4>1. b - 1 \in Nat
        BY <3>2
      <4> DEFINE c == b - 1
      <4>2. b = 1 + c /\ c \in Nat
        BY <3>1, <4>1
      <4> HIDE DEF c
      <4>3. Base * (1 + c) = Base * 1 + Base * c /\ Base * c \in Nat
        BY <1>1, <4>2
      <4> QED BY <4>2, <4>3 DEF c
    <3> HIDE DEF b
    <3>4. Base * b >= Base /\ Base * b \in Nat
      BY <1>1, <3>1, <3>3
    <3> QED BY <3>4 DEF b
  <2>4. Base * ByteRead(y + 1) >= Base /\ Base * ByteRead(y + 1) \in Nat
    BY <2>2, <2>3
  <2> DEFINE hi == Base * ByteRead(y + 1)
             lo == ByteRead(y)
  <2>5. hi >= Base /\ hi \in Nat /\ lo \in Nat
    BY <1>2, <2>4
  <2> HIDE DEF hi, lo
  <2>6. lo + hi # x /\ x # -1
    BY <1>1, <2>5
  <2> QED BY <2>1, <2>6 DEF hi, lo
<1> QED BY <1>6, <1>7

(* The bytes from one address to another, as they are read.                *)
BytesRead(from, stop) == [i \in 1 .. stop - from |-> ByteRead(from + i - 1)]

(* The words at every phase of what was carried over and a block.          *)
LEMMA WordsOfBytes ==
  ASSUME NEW from \in Nat, NEW stop \in Nat, from < stop, NEW bytes,
         bytes = BytesRead(from, stop)
  PROVE  WordsOf(bytes) = {ByteRead(y) + Base * ByteRead(y + 1) : y \in from .. stop - 2}
<1>0. bytes = [i \in 1 .. stop - from |-> ByteRead(from + i - 1)]
  BY DEF BytesRead
<1>1. Len(bytes) = stop - from
  <2>1. stop - from \in Nat /\ DOMAIN bytes = 1 .. stop - from
    BY <1>0
  <2> QED BY <2>1
<1>2. \A i \in 1 .. Len(bytes) - 1 : /\ bytes[i] = ByteRead(from + i - 1)
                                     /\ bytes[i + 1] = ByteRead((from + i - 1) + 1)
  <2> SUFFICES ASSUME NEW i \in 1 .. (stop - from) - 1
               PROVE  bytes[i] = ByteRead(from + i - 1) /\ bytes[i + 1] = ByteRead((from + i - 1) + 1)
    BY <1>1
  <2>1. i \in 1 .. stop - from /\ i + 1 \in 1 .. stop - from /\ from + (i + 1) - 1 = (from + i - 1) + 1
    OBVIOUS
  <2>2. bytes[i] = ByteRead(from + i - 1) /\ bytes[i + 1] = ByteRead(from + (i + 1) - 1)
    BY <1>0, <2>1
  <2> QED BY <2>1, <2>2
<1>3. \A i \in 1 .. Len(bytes) - 1 : from + i - 1 \in from .. stop - 2
  BY <1>1
<1>4. \A y \in from .. stop - 2 : y - from + 1 \in 1 .. Len(bytes) - 1 /\ from + (y - from + 1) - 1 = y
  BY <1>1
<1>5. ASSUME NEW v \in WordsOf(bytes)
      PROVE  v \in {ByteRead(y) + Base * ByteRead(y + 1) : y \in from .. stop - 2}
  BY <1>2, <1>3, <1>5 DEF WordsOf
<1>6. ASSUME NEW y \in from .. stop - 2
      PROVE  ByteRead(y) + Base * ByteRead(y + 1) \in WordsOf(bytes)
  <2> DEFINE i == y - from + 1
  <2>1. i \in 1 .. Len(bytes) - 1 /\ from + i - 1 = y
    BY <1>4
  <2> HIDE DEF i
  <2>2. bytes[i] = ByteRead(y) /\ bytes[i + 1] = ByteRead(y + 1)
    BY <1>2, <2>1
  <2> QED BY <2>1, <2>2 DEF WordsOf
<1> QED BY <1>5, <1>6

(* What is carried over and the block are the bytes from one address on.   *)
LEMMA BytesInHand ==
  ASSUME image \in Images, NEW a \in Nat \ {0}, NEW stop \in Nat, a < stop
  PROVE  /\ <<>> \o BytesRead(a, stop) = BytesRead(a, stop)
         /\ <<ByteRead(a - 1)>> \o BytesRead(a, stop) = BytesRead(a - 1, stop)
<1> DEFINE block == BytesRead(a, stop)
           from == a - 1
           before == <<ByteRead(from)>>
           whole == BytesRead(from, stop)
           joined == before \o block
           S == 0 .. Base - 1
<1>0. block = [i \in 1 .. stop - a |-> ByteRead(a + i - 1)] /\ from \in Nat
  BY DEF BytesRead
<1>9. whole = [i \in 1 .. stop - from |-> ByteRead(from + i - 1)]
  BY DEF BytesRead
<1> HIDE DEF block, whole
<1>1. stop - a \in Nat /\ block \in Seq(S) /\ Len(block) = stop - a
  <2>1. \A i \in 1 .. stop - a : ByteRead(a + i - 1) \in S
    BY ByteReadFacts
  <2>2. stop - a \in Nat
    OBVIOUS
  <2> HIDE DEF S
  <2> QED BY <1>0, <2>1, <2>2
<1>2. before \in Seq(S) /\ Len(before) = 1 /\ before[1] = ByteRead(from)
  <2>1. ByteRead(from) \in S
    BY ByteReadFacts
  <2> HIDE DEF S
  <2> QED BY <2>1
<1> HIDE DEF before, S
<1>3. /\ joined \in Seq(S) /\ Len(joined) = 1 + (stop - a)
      /\ \A i \in 1 .. Len(joined) : joined[i] = IF i <= 1 THEN before[i] ELSE block[i - 1]
  <2>1. \A s, t \in Seq(S) :
          /\ s \o t \in Seq(S) /\ Len(s \o t) = Len(s) + Len(t)
          /\ \A i \in 1 .. Len(s) + Len(t) : (s \o t)[i] = IF i <= Len(s) THEN s[i] ELSE t[i - Len(s)]
    OBVIOUS
  <2>2. /\ before \o block \in Seq(S) /\ Len(before \o block) = Len(before) + Len(block)
        /\ \A i \in 1 .. Len(before) + Len(block) :
             (before \o block)[i] = IF i <= Len(before) THEN before[i] ELSE block[i - Len(before)]
    BY <1>1, <1>2, <2>1
  <2> QED BY <1>1, <1>2, <2>2
<1>4. Len(joined) = stop - from /\ stop - from \in Nat
  BY <1>1, <1>3
<1> HIDE DEF joined
<1>5. ASSUME NEW i \in 1 .. stop - from PROVE joined[i] = ByteRead(from + i - 1)
  <2>1. CASE i = 1
    <3>1. from + 1 - 1 = from /\ 1 <= 1
      BY <1>0
    <3> QED BY <1>2, <1>3, <1>4, <2>1, <3>1
  <2>2. CASE i # 1
    <3>1. i - 1 \in 1 .. stop - a /\ a + (i - 1) - 1 = from + i - 1 /\ ~(i <= 1)
      BY <1>0, <2>2
    <3>2. block[i - 1] = ByteRead(a + (i - 1) - 1)
      BY <1>0, <3>1
    <3> QED BY <1>3, <1>4, <3>1, <3>2
  <2> QED BY <2>1, <2>2
<1>6. joined = [i \in 1 .. Len(joined) |-> joined[i]]
  BY <1>3
<1>7. joined = whole
  BY <1>9, <1>4, <1>5, <1>6
<1>8. <<>> \o block = block
  BY <1>1
<1> QED BY <1>7, <1>8 DEF joined, before, block, whole

LEMMA LastOfBytes ==
  ASSUME image \in Images, NEW from \in Nat, NEW stop \in Nat, from < stop, NEW bytes,
         bytes = BytesRead(from, stop)
  PROVE  SubSeq(bytes, Greatest(1, Len(bytes) - Width + 2), Len(bytes)) = <<ByteRead(stop - 1)>>
<1>0. bytes = [i \in 1 .. stop - from |-> ByteRead(from + i - 1)]
  BY DEF BytesRead
<1> DEFINE n == stop - from
<1>1. n \in Nat /\ n >= 1 /\ Len(bytes) = n /\ DOMAIN bytes = 1 .. n
  <2>1. n \in Nat /\ n >= 1 /\ DOMAIN bytes = 1 .. n
    BY <1>0
  <2> QED BY <2>1
<1>2. bytes[n] = ByteRead(stop - 1)
  <2>1. n \in 1 .. stop - from /\ from + n - 1 = stop - 1
    BY <1>1
  <2> QED BY <1>0, <2>1
<1> HIDE DEF n
<1>3. Greatest(1, Len(bytes) - Width + 2) = n
  BY <1>1 DEF Greatest, Width
<1>4. bytes \in Seq(0 .. Base - 1)
  <2>1. \A i \in 1 .. stop - from : ByteRead(from + i - 1) \in 0 .. Base - 1
    BY ByteReadFacts
  <2>2. stop - from \in Nat
    OBVIOUS
  <2> QED BY <1>0, <2>1, <2>2
<1>5. SubSeq(bytes, n, n) = <<bytes[n]>>
  <2> DEFINE t == SubSeq(bytes, n, n)
             u == <<bytes[n]>>
             S == 0 .. Base - 1
  <2>1. \A s \in Seq(S) : \A k \in 1 .. Len(s) :
          /\ SubSeq(s, k, k) \in Seq(S) /\ Len(SubSeq(s, k, k)) = 1
          /\ SubSeq(s, k, k)[1] = s[k]
    <3> HIDE DEF S
    <3> QED OBVIOUS
  <2>5. bytes \in Seq(S) /\ n \in 1 .. Len(bytes)
    BY <1>1, <1>4
  <2> HIDE DEF S
  <2>2. t \in Seq(S) /\ Len(t) = 1 /\ t[1] = bytes[n]
    BY <2>1, <2>5
  <2> HIDE DEF t
  <2>3. t = [i \in 1 .. Len(t) |-> t[i]]
    BY <2>2
  <2>4. t = u
    BY <2>2, <2>3
  <2> QED BY <2>4 DEF t
<1> QED BY <1>1, <1>2, <1>3, <1>5

LEMMA AddrsOfRuns ==
  ASSUME NEW n \in Int, n <= CodeEnd, NEW elem, NEW r \in Runs(CodeStart, n, elem)
  PROVE  r.addr \in Section
<1>1. PICK d \in {x \in CodeStart .. n - 1 : x % Align = 0} \X (MinChars .. MaxChars) :
           r = [addr |-> d[1], end |-> d[1] + (d[2] + 1) * elem]
  BY DEF Runs
<1>2. d[1] \in CodeStart .. n - 1 /\ r.addr = d[1]
  BY <1>1
<1> QED BY <1>2, Bounds DEF Section

LEMMA CandidatesInSection ==
  ASSUME candidates = AllCandidates PROVE Addrs \subseteq Section
<1>1. \A r \in AllCandidates : r.addr \in Section
  <2>1. \A elem : \A r \in Upto(CodeEnd, elem) : r.addr \in Section
    BY AddrsOfRuns, Bounds DEF Upto
  <2> QED BY <2>1 DEF AllCandidates
<1> QED BY <1>1 DEF Addrs

(* The words a block adds are those that begin in it or in what was        *)
(* carried over.                                                           *)
LEMMA HeldNext ==
  ASSUME image \in Images, NEW a \in Nat, NEW stop \in Nat, NEW from \in Nat,
         CodeStart <= from, from <= a, a < stop, stop <= DataEnd,
         stop <= CodeEnd \/ CodeEnd <= from,
         from = a - 1 \/ (from = a /\ a \in {CodeStart, CodeEnd}),
         NEW bytes, bytes = BytesRead(from, stop)
  PROVE  HeldUpto(stop) = HeldUpto(a) \union (Section \intersect WordsOf(bytes))
<1>1. /\ CodeStart \in Nat /\ CodeEnd \in Nat /\ DataEnd \in Nat /\ CodeStart < CodeEnd
      /\ from < stop
  BY Bounds
<1>2. WordsOf(bytes) = {ByteRead(y) + Base * ByteRead(y + 1) : y \in from .. stop - 2}
  BY <1>1, WordsOfBytes
<1>3. \A y \in from .. stop - 2 : /\ y \in Nat /\ CodeStart <= y /\ y + 1 < DataEnd
                                  /\ y # CodeEnd - 1
  BY <1>1
<1>4. \A x \in Section : x \in WordsOf(bytes) <=> \E y \in from .. stop - 2 : Word(y) = x
  <2>1. \A x \in Section, y \in from .. stop - 2 :
          ByteRead(y) + Base * ByteRead(y + 1) = x <=> Word(y) = x
    BY <1>3, WordRead
  <2> QED BY <1>2, <2>1
<1>5. \A y \in CodeStart .. stop - 2 :
        y # CodeEnd - 1 => y \in CodeStart .. a - 2 \/ y \in from .. stop - 2
  BY <1>1
<1>6. \A y \in CodeStart .. a - 2 : y \in CodeStart .. stop - 2
  BY <1>1
<1>7. \A y \in from .. stop - 2 : y \in CodeStart .. stop - 2
  BY <1>1
<1>8. \A x \in Section : Holds(x, CodeStart, stop) <=> Holds(x, CodeStart, a) \/ x \in WordsOf(bytes)
  BY <1>3, <1>4, <1>5, <1>6, <1>7 DEF Holds
<1> QED BY <1>8 DEF HeldUpto

LEMMA ConstantsReferences ==
  ASSUME SoFar, ConstantsSoFar, ScanReferences PROVE ConstantsSoFar'
<1> DEFINE end == IF at < CodeEnd THEN CodeEnd ELSE DataEnd
           stop == Least(at + Chunk, end)
           block == [i \in 1 .. stop - at |-> Filled(at, at + i - 1)]
           bytes == carry \o block
           from == IF at \in {CodeStart, CodeEnd} THEN at ELSE at - 1
<1>1. /\ pass = "references"
      /\ referenced' = referenced \union (Addrs \intersect WordsOf(bytes))
      /\ carry' = IF stop = end THEN <<>>
                  ELSE SubSeq(bytes, Greatest(1, Len(bytes) - Width + 2), Len(bytes))
      /\ Advance(stop, DataEnd, "accept")
      /\ UNCHANGED <<image, layout, vmts, typeinfos, strings, candidates>>
  BY DEF ScanReferences, Addrs
<1>2. /\ image \in Images /\ candidates = AllCandidates /\ at \in CodeStart .. DataEnd - 1
      /\ carry = IF at \in {CodeStart, CodeEnd} THEN <<>> ELSE <<ByteRead(at - 1)>>
      /\ referenced = Addrs \intersect HeldUpto(at)
  BY <1>1 DEF SoFar, ConstantsSoFar
<1>3. /\ at \in Nat /\ CodeStart <= at /\ at < DataEnd /\ CodeStart \in Nat /\ CodeEnd \in Nat
      /\ DataEnd \in Nat /\ 0 < CodeStart /\ CodeStart < CodeEnd /\ CodeEnd <= DataEnd
      /\ end \in Nat /\ at < end /\ end <= DataEnd
  BY <1>2, Bounds, CharFacts
<1>4. stop \in Nat /\ at < stop /\ stop <= end /\ stop <= at + Chunk
  <2> HIDE DEF end
  <2> QED BY <1>3, NextStop
<1>5. /\ from \in Nat /\ from \in {at - 1, at} /\ CodeStart <= from /\ from <= at /\ from < stop
      /\ stop <= CodeEnd \/ CodeEnd <= from
      /\ from = at - 1 \/ (from = at /\ at \in {CodeStart, CodeEnd})
  <2> HIDE DEF stop
  <2> QED BY <1>3, <1>4
<1>6. block = BytesRead(at, stop)
  <2>1. ASSUME NEW i \in 1 .. stop - at PROVE Filled(at, at + i - 1) = ByteRead(at + i - 1)
    <3> DEFINE x == at + i - 1
    <3>1. x \in at .. DataEnd - 1 /\ x < at + Chunk /\ (x < CodeEnd \/ CodeEnd <= at)
      <4>1. Chunk \in Nat
        BY Bounds
      <4> HIDE DEF stop
      <4> QED BY <1>3, <1>4, <4>1
    <3> HIDE DEF x
    <3>2. Filled(at, x) = ByteRead(x)
      BY <1>2, <1>3, <3>1, FilledAnywhere
    <3> QED BY <3>2 DEF x
  <2> HIDE DEF stop
  <2> QED BY <2>1 DEF BytesRead
<1>7. bytes = BytesRead(from, stop)
  <2>1. image \in Images /\ at \in Nat \ {0} /\ stop \in Nat /\ at < stop
    BY <1>2, <1>3, <1>4
  <2> HIDE DEF block, stop
  <2>2. CASE at \in {CodeStart, CodeEnd}
    BY <1>2, <1>6, <2>1, <2>2, BytesInHand
  <2>3. CASE at \notin {CodeStart, CodeEnd}
    BY <1>2, <1>6, <2>1, <2>3, BytesInHand
  <2> QED BY <2>2, <2>3
<1> HIDE DEF bytes
<1>8. HeldUpto(stop) = HeldUpto(at) \union (Section \intersect WordsOf(bytes))
  <2>1. stop <= DataEnd
    <3> HIDE DEF stop, end
    <3> QED BY <1>3, <1>4
  <2> HIDE DEF stop, from, block
  <2>2. image \in Images /\ at \in Nat /\ stop \in Nat /\ from \in Nat /\ CodeStart <= from
        /\ from <= at /\ at < stop /\ stop <= DataEnd
    BY <1>2, <1>3, <1>4, <1>5, <2>1
  <2>3. stop <= CodeEnd \/ CodeEnd <= from
    BY <1>5
  <2>4. from = at - 1 \/ (from = at /\ at \in {CodeStart, CodeEnd})
    BY <1>5
  <2> QED BY <1>7, <2>2, <2>3, <2>4, HeldNext
<1>9. referenced' = Addrs \intersect HeldUpto(stop)
  <2>1. Addrs \subseteq Section
    BY <1>2, CandidatesInSection
  <2> HIDE DEF stop, from, block
  <2> QED BY <1>1, <1>2, <1>8, <2>1
<1>10. /\ Addrs' = Addrs /\ AllCandidates' = AllCandidates /\ candidates' = AllCandidates'
       /\ \A n : HeldUpto(n)' = HeldUpto(n)
  <2>1. Addrs' = Addrs
    BY <1>1 DEF Addrs
  <2>2. AllCandidates' = AllCandidates
    BY <1>1, CandidatesStable
  <2> QED BY <1>1, <1>2, <2>1, <2>2, RunsStable
<1>11. SubSeq(bytes, Greatest(1, Len(bytes) - Width + 2), Len(bytes)) = <<ByteRead(stop - 1)>>
  <2> HIDE DEF stop, from, block
  <2> QED BY <1>2, <1>4, <1>5, <1>7, LastOfBytes
<1>12. CASE stop < DataEnd
  <2>1. at' = stop /\ pass' = "references"
    BY <1>1, <1>12 DEF Advance
  <2>2. carry' = IF stop \in {CodeStart, CodeEnd} THEN <<>> ELSE <<ByteRead(stop - 1)>>
    <3>1. stop = end <=> stop \in {CodeStart, CodeEnd}
      <4> HIDE DEF stop
      <4> QED BY <1>3, <1>4, <1>12
    <3> HIDE DEF stop, end
    <3> QED BY <1>1, <1>11, <3>1
  <2> HIDE DEF stop, end
  <2>3. ByteRead(at - 1)' = ByteRead(stop - 1)
    BY <1>1, <2>1 DEF ByteRead
  <2>4. HeldUpto(at)' = HeldUpto(stop)
    <3>1. HeldUpto(at)' = HeldUpto(at')
      BY <1>1, ReaderStable DEF HeldUpto, Holds
    <3> QED BY <2>1, <3>1
  <2>5. at' \in CodeStart .. DataEnd - 1
    BY <1>3, <1>4, <1>12, <2>1
  <2> QED BY <1>9, <1>10, <2>1, <2>2, <2>3, <2>4, <2>5 DEF ConstantsSoFar
<1>13. CASE ~(stop < DataEnd)
  <2>1. stop = DataEnd
    <3> HIDE DEF stop, end
    <3> QED BY <1>3, <1>4, <1>13
  <2> HIDE DEF stop, end
  <2>2. pass' = "accept"
    BY <1>1, <1>13 DEF Advance
  <2> QED BY <1>9, <1>10, <2>1, <2>2 DEF ConstantsSoFar
<1> QED BY <1>12, <1>13

LEMMA ConstantsAccept ==
  ASSUME SoFar, ConstantsSoFar, Accept PROVE ConstantsSoFar'
<1>1. /\ pass = "accept" /\ pass' = "streams"
      /\ constants' = Accepted({r \in candidates : r.addr \in referenced})
      /\ UNCHANGED <<image, layout, vmts, typeinfos, strings, candidates>>
  BY DEF Accept
<1>2. candidates = AllCandidates /\ referenced = Addrs \intersect HeldUpto(DataEnd)
  BY <1>1 DEF ConstantsSoFar
<1>3. {r \in candidates : r.addr \in referenced} = Standing
  BY <1>2 DEF Standing, Addrs
<1>4. Accepted(Standing)' = Accepted(Standing)
  <2>1. Standing' = Standing
    BY <1>1, CandidatesStable
  <2> QED BY <2>1
<1> QED BY <1>1, <1>3, <1>4 DEF ConstantsSoFar

LEMMA ConstantsNext == SoFar /\ ConstantsSoFar /\ [Next]_vars => ConstantsSoFar'
<1> SUFFICES ASSUME SoFar, ConstantsSoFar, [Next]_vars PROVE ConstantsSoFar'
  OBVIOUS
<1>1. CASE Detect \/ ScanRecords \/ ScanLinked
  BY <1>1, ConstantsEarly
<1>2. CASE ScanStrings
  BY <1>2, ConstantsStrings
<1>3. CASE ScanRuns
  BY <1>3, ConstantsRuns
<1>4. CASE ScanReferences
  BY <1>4, ConstantsReferences
<1>5. CASE Accept
  BY <1>5, ConstantsAccept
<1>6. CASE ScanStreams
  <2>1. /\ pass = "streams" /\ pass' \in {"streams", "done"} /\ constants' = constants
        /\ UNCHANGED <<image, layout, vmts, typeinfos, strings, candidates>>
    BY <1>6 DEF ScanStreams, Advance
  <2>2. Accepted(Standing)' = Accepted(Standing)
    <3>1. Standing' = Standing
      BY <2>1, CandidatesStable
    <3> QED BY <3>1
  <2> QED BY <2>1, <2>2 DEF ConstantsSoFar
<1>7. CASE Cancel
  BY <1>7 DEF Cancel, ConstantsSoFar
<1>8. CASE UNCHANGED vars
  <2>1. UNCHANGED <<image, pass, at, layout, vmts, typeinfos, strings, candidates, carry,
                    referenced, constants>>
    BY <1>8 DEF vars
  <2>2. /\ \A n, elem : Upto(n, elem)' = Upto(n, elem)
        /\ AllCandidates' = AllCandidates /\ Standing' = Standing
        /\ \A n : HeldUpto(n)' = HeldUpto(n)
        /\ \A x : ByteRead(x)' = ByteRead(x) /\ Addrs' = Addrs
    BY <2>1, CandidatesStable, RunsStable DEF Addrs
  <2>3. /\ Upto(at, 1)' = Upto(at, 1) /\ Upto(at, 2)' = Upto(at, 2)
        /\ HeldUpto(at)' = HeldUpto(at) /\ ByteRead(at - 1)' = ByteRead(at - 1)
        /\ Accepted(Standing)' = Accepted(Standing)
    <3>1. Accepted(Standing)' = Accepted(Standing)
      BY <2>2
    <3>2. ByteRead(at - 1)' = ByteRead(at - 1)
      BY <2>1 DEF ByteRead
    <3>3. HeldUpto(at)' = HeldUpto(at)
      BY <2>1, ReaderStable DEF HeldUpto, Holds
    <3>4. Runs(CodeStart, at, 1)' = Runs(CodeStart, at, 1) /\ Runs(CodeStart, at, 2)' = Runs(CodeStart, at, 2)
      BY <2>1, RunsStable DEF Runs
    <3>5. \A r : Outside(r)' <=> Outside(r)
      BY <2>1, CandidatesStable
    <3> QED BY <3>1, <3>2, <3>3, <3>4, <3>5 DEF Upto
  <2> QED BY <2>1, <2>2, <2>3 DEF ConstantsSoFar
<1>9. CASE Ended
  BY <1>8, <1>9 DEF Ended
<1> QED BY <1>1, <1>2, <1>3, <1>4, <1>5, <1>6, <1>7, <1>8, <1>9 DEF Next

(* A run of the section has room in it.                                    *)
LEMMA StandingRuns ==
  /\ \A r \in Standing : r.addr \in 1 .. CodeEnd /\ r.end \in 0 .. CodeEnd /\ r.addr < r.end
  /\ \A r, s \in Standing : r.addr = s.addr /\ r.end = s.end => r = s
<1>1. ASSUME NEW elem \in {1, 2}, NEW r \in Runs(CodeStart, CodeEnd, elem)
      PROVE  /\ r.addr \in 1 .. CodeEnd /\ r.end \in 0 .. CodeEnd /\ r.addr < r.end
             /\ r = [addr |-> r.addr, end |-> r.end]
  <2>1. PICK d \in {x \in CodeStart .. CodeEnd - 1 : x % Align = 0} \X (MinChars .. MaxChars) :
             Shape(d[1], d[2], elem) /\ r = [addr |-> d[1], end |-> d[1] + (d[2] + 1) * elem]
    BY <1>1 DEF Runs
  <2> DEFINE x == d[1] n == d[2]
  <2>2. x \in CodeStart .. CodeEnd - 1 /\ n \in MinChars .. MaxChars
    OBVIOUS
  <2>3. Shape(x, n, elem) /\ r = [addr |-> x, end |-> x + (n + 1) * elem]
    BY <2>1
  <2> HIDE DEF x, n
  <2>4. x \in Nat /\ x >= 1 /\ n \in Nat /\ CodeEnd \in Nat /\ x < CodeEnd
    BY <2>2, Bounds, CharFacts
  <2>5. x + n * elem \in CodeStart .. CodeEnd - elem
    BY <2>3 DEF Shape, UnitAt
  <2>6. (n + 1) * elem = n * elem + elem /\ n * elem \in Nat /\ elem \in Nat /\ elem >= 1
    <3>1. CASE elem = 1
      BY <2>4, <3>1
    <3>2. CASE elem = 2
      BY <2>4, <3>2
    <3> QED BY <3>1, <3>2
  <2> DEFINE m == n * elem
             e == x + (n + 1) * elem
  <2>7. e = x + m + elem /\ m \in Nat /\ x + m <= CodeEnd - elem
    BY <2>4, <2>5, <2>6, Bounds
  <2> HIDE DEF m, e
  <2>8. e \in 0 .. CodeEnd /\ x < e /\ x \in 1 .. CodeEnd
    BY <2>4, <2>6, <2>7
  <2>9. r.addr = x /\ r.end = e /\ r = [addr |-> x, end |-> e]
    BY <2>3 DEF e
  <2> QED BY <2>8, <2>9
<1>2. ASSUME NEW r \in Standing
      PROVE  \E elem \in {1, 2} : r \in Runs(CodeStart, CodeEnd, elem)
  <2>1. r \in Upto(CodeEnd, 1) \/ r \in Upto(CodeEnd, 2)
    BY DEF Standing, AllCandidates
  <2> QED BY <2>1 DEF Upto
<1>3. \A r \in Standing : /\ r.addr \in 1 .. CodeEnd /\ r.end \in 0 .. CodeEnd /\ r.addr < r.end
                          /\ r = [addr |-> r.addr, end |-> r.end]
  BY <1>1, <1>2
<1>4. ASSUME NEW r \in Standing, NEW s \in Standing, r.addr = s.addr, r.end = s.end PROVE r = s
  <2>1. r = [addr |-> r.addr, end |-> r.end] /\ s = [addr |-> s.addr, end |-> s.end]
    BY <1>3
  <2> QED BY <1>4, <2>1
<1> QED BY <1>3, <1>4

(* What stands in the section, block or no block.                          *)
LEMMA ConstantsAreStanding ==
  ASSUME SoFar, ConstantsSoFar PROVE ConstantsComplete
<1> DEFINE Unit(x, elem, low) == /\ x \in CodeStart .. CodeEnd - elem
                                 /\ Readable(x, elem) /\ image[x] \in low
                                 /\ elem = 2 => image[x + 1] = 0
           Stands(x, n, elem) ==
             /\ \A i \in 0 .. n - 1 : Unit(x + i * elem, elem, Text)
             /\ Unit(x + n * elem, elem, {0})
             /\ ~Unit(x - elem, elem, Text)
             /\ Outside([addr |-> x, end |-> x + (n + 1) * elem])
           PointedAt(x) == \E y \in CodeStart .. DataEnd - Width : Word(y) = x /\ y # CodeEnd - 1
           widths == IF layout.wide THEN {1, 2} ELSE {1}
           chosen == {d \in {x \in CodeStart .. CodeEnd - 1 : x % Align = 0 /\ PointedAt(x)}
                              \X (MinChars .. MaxChars) \X widths :
                        Stands(d[1], d[2], d[3])}
           standing == {[addr |-> c[1], end |-> c[1] + (c[2] + 1) * c[3]] : c \in chosen}
<1>1. ConstantsComplete <=>
        (pass = "done" => constants = {r \in standing : \A c \in constants \ {r} : r.addr \notin c.addr .. c.end - 1})
  BY DEF ConstantsComplete
<1>2. \A x, n, elem : Stands(x, n, elem) <=>
        Shape(x, n, elem) /\ Outside([addr |-> x, end |-> x + (n + 1) * elem])
  BY DEF Shape, UnitAt
<1>3. \A x \in CodeStart .. CodeEnd - 1 : PointedAt(x) <=> x \in HeldUpto(DataEnd)
  BY DEF HeldUpto, Holds, Section, Width
<1> HIDE DEF Unit, Stands, PointedAt
<1>4. ASSUME NEW r \in standing PROVE r \in Standing
  <2>1. PICK c \in chosen : r = [addr |-> c[1], end |-> c[1] + (c[2] + 1) * c[3]]
    OBVIOUS
  <2> DEFINE x == c[1] n == c[2] elem == c[3] d == <<x, n>>
  <2>2. /\ x \in CodeStart .. CodeEnd - 1 /\ x % Align = 0 /\ PointedAt(x)
        /\ n \in MinChars .. MaxChars /\ elem \in widths /\ Stands(x, n, elem)
    OBVIOUS
  <2>3. r = [addr |-> x, end |-> x + (n + 1) * elem]
    BY <2>1
  <2> HIDE DEF x, n, elem
  <2>4. d \in {z \in CodeStart .. CodeEnd - 1 : z % Align = 0} \X (MinChars .. MaxChars)
        /\ d[1] = x /\ d[2] = n
    BY <2>2
  <2> HIDE DEF d
  <2>5. r \in Runs(CodeStart, CodeEnd, elem) /\ Outside(r)
    BY <1>2, <2>2, <2>3, <2>4 DEF Runs
  <2>6. r \in AllCandidates
    BY <2>2, <2>5 DEF AllCandidates, Upto
  <2>7. r.addr \in HeldUpto(DataEnd)
    BY <1>3, <2>2, <2>3
  <2> QED BY <2>6, <2>7 DEF Standing
<1>5. ASSUME NEW r \in Standing PROVE r \in standing
  <2>1. PICK elem \in widths : r \in Runs(CodeStart, CodeEnd, elem) /\ Outside(r)
    BY DEF Standing, AllCandidates, Upto
  <2>2. PICK d \in {z \in CodeStart .. CodeEnd - 1 : z % Align = 0} \X (MinChars .. MaxChars) :
             Shape(d[1], d[2], elem) /\ r = [addr |-> d[1], end |-> d[1] + (d[2] + 1) * elem]
    BY <2>1 DEF Runs
  <2> DEFINE x == d[1] n == d[2] c == <<x, n, elem>>
  <2>3. x \in CodeStart .. CodeEnd - 1 /\ x % Align = 0 /\ n \in MinChars .. MaxChars
        /\ Shape(x, n, elem) /\ r = [addr |-> x, end |-> x + (n + 1) * elem]
    BY <2>2
  <2> HIDE DEF x, n
  <2>4. PointedAt(x)
    <3>1. r.addr \in HeldUpto(DataEnd) /\ r.addr = x
      BY <2>3 DEF Standing
    <3> QED BY <1>3, <2>3, <3>1
  <2>5. Stands(x, n, elem)
    BY <1>2, <2>1, <2>3
  <2>6. c \in {z \in CodeStart .. CodeEnd - 1 : z % Align = 0 /\ PointedAt(z)} \X (MinChars .. MaxChars) \X widths
        /\ c[1] = x /\ c[2] = n /\ c[3] = elem
    BY <2>3, <2>4
  <2> HIDE DEF c, widths
  <2>7. c \in chosen
    BY <2>5, <2>6
  <2> QED BY <2>3, <2>6, <2>7
<1>6. standing = Standing
  BY <1>4, <1>5
<1> HIDE DEF standing
<1>7. ASSUME pass = "done"
      PROVE  constants = {r \in Standing : \A c \in constants \ {r} : r.addr \notin c.addr .. c.end - 1}
  <2>1. constants = Accepted(Standing)
    BY <1>7 DEF ConstantsSoFar
  <2>2. Accepted(Standing) =
          {r \in Standing : \A c \in Accepted(Standing) \ {r} : r.addr \notin c.addr .. c.end - 1}
    BY StandingRuns, AcceptedIs
  <2> QED BY <2>1, <2>2
<1> QED BY <1>1, <1>6, <1>7

(* A finished scan has accepted exactly the runs of text that stand for a  *)
(* constant in the section as a whole and that no other accepted one       *)
(* contains the beginning of, for any image and any size of blocks         *)
(* (headerless_candidates, pointer_targets, scan_headerless_strings).      *)
THEOREM ScanSettlesConstants == Spec => []ConstantsComplete
<1>1. Spec => [](SoFar /\ ConstantsSoFar)
  <2>1. Init => SoFar /\ ConstantsSoFar
    BY SoFarInit, ConstantsInit
  <2>2. SoFar /\ ConstantsSoFar /\ [Next]_vars => (SoFar /\ ConstantsSoFar)'
    BY SoFarNext, ConstantsNext
  <2> QED BY <2>1, <2>2, PTL DEF Spec
<1> QED BY <1>1, ConstantsAreStanding, PTL

-----------------------------------------------------------------------------
(* Bytes that can be read, from one address up to another.                 *)
Whole(a, b) == a \in Int /\ b \in Int /\ a <= b /\ a .. b - 1 \subseteq DOMAIN image
(* A record that is taken is all there.                                    *)
TakenWhole(EndOf) ==
  \A q \in Int : EndOf[q] \in Int /\ (EndOf[q] # None => Whole(q, EndOf[q]))

LEMMA WholeJoins ==
  ASSUME NEW a, NEW b, NEW c, Whole(a, b), Whole(b, c)
  PROVE  Whole(a, c)
BY DEF Whole

LEMMA WholeIsReadable ==
  ASSUME NEW a \in Int, NEW n \in Nat
  PROVE  Readable(a, n) <=> Whole(a, a + n)
BY DEF Whole, Readable

LEMMA ByteWhole ==
  ASSUME image \in Images, NEW a \in Int, Byte(a) # None
  PROVE  Byte(a) \in Nat /\ Byte(a) < Base /\ a \in Nat /\ a \in DOMAIN image /\ Whole(a, a + 1)
<1>1. a \in DOMAIN image /\ Byte(a) = image[a]
  BY DEF Byte
<1>2. image[a] \in 0 .. Base - 1 /\ a \in Nat
  BY <1>1, ScannerAssumption
<1> QED BY <1>1, <1>2, Bounds DEF Whole

LEMMA WordWhole ==
  ASSUME image \in Images, NEW a \in Int, Word(a) # None
  PROVE  Word(a) \in Nat /\ a \in Nat /\ Whole(a, a + 2)
<1>1. Readable(a, 2)
  BY DEF Word, Width
<1>2. Whole(a, a + 2)
  BY <1>1, WholeIsReadable
<1>3. a \in DOMAIN image
  BY <1>1 DEF Readable
<1> QED BY <1>2, <1>3, WordType, ScannerAssumption

LEMMA StrWhole ==
  ASSUME image \in Images, NEW a \in Int, StrEnd(a) # None
  PROVE  Whole(a, StrEnd(a)) /\ a < StrEnd(a) /\ StrEnd(a) \in Nat
<1> DEFINE n == Byte(a)
<1>1. n # None /\ Readable(a + 1, n) /\ StrEnd(a) = a + 1 + n
  BY DEF StrEnd
<1>2. n \in Nat /\ Whole(a, a + 1) /\ a \in Nat
  BY <1>1, ByteWhole
<1> HIDE DEF n
<1>3. Whole(a + 1, a + 1 + n)
  BY <1>1, <1>2, WholeIsReadable
<1> QED BY <1>1, <1>2, <1>3, WholeJoins

(* What a walk has passed: every record from its start on, one behind the  *)
(* other.                                                                  *)
LEMMA WalkFacts ==
  ASSUME NEW p \in Int, NEW n \in Nat, NEW EndOf, \A q \in Int : EndOf[q] \in Int,
         Walk(p, n, EndOf) # <<>>
  PROVE  \E ends : /\ ends[0] = p /\ ends[n] # None
                   /\ \A i \in 0 .. n : ends[i] \in Int
                   /\ \A i \in 1 .. n : /\ ends[i - 1] # None
                                        /\ ends[i] = EndOf[ends[i - 1]]
                   /\ Walk(p, n, EndOf) = [i \in 1 .. n + 1 |-> ends[i - 1]]
<1> DEFINE step == [q \in Int |-> IF q = None THEN None ELSE EndOf[q]]
           next(f, i) == IF i = 0 THEN p ELSE LET q == f[i - 1] IN IF q = None THEN None ELSE EndOf[q]
           F == CHOOSE f : f = [i \in 0 .. n |-> next(f, i)]
<1>1. PICK g \in [0 .. n -> Int] : Stepwise(g, 0, n, p, step)
  <2>1. step \in [Int -> Int]
    BY DEF None
  <2> HIDE DEF step
  <2>2. 0 \in Nat /\ 0 <= n
    OBVIOUS
  <2> QED BY <2>1, <2>2, StepsExist
<1>2. g = [i \in 0 .. n |-> next(g, i)]
  <2>1. ASSUME NEW i \in 0 .. n PROVE g[i] = next(g, i)
    <3>1. g[i] = IF i = 0 THEN p ELSE step[g[i - 1]]
      BY <1>1 DEF Stepwise
    <3>2. i # 0 => g[i - 1] \in Int
      <4>1. i # 0 => i - 1 \in 0 .. n
        OBVIOUS
      <4> QED BY <4>1
    <3> QED BY <3>1, <3>2
  <2> HIDE DEF next
  <2> QED BY <2>1
<1>3. F = [i \in 0 .. n |-> next(F, i)]
  <2> HIDE DEF next
  <2> QED BY <1>2
<1>4. Walk(p, n, EndOf) = IF F[n] = None THEN <<>> ELSE [i \in 1 .. n + 1 |-> F[i - 1]]
  BY Zenon DEF Walk
<1>5. \A i \in 0 .. n : F[i] = next(F, i)
  <2> HIDE DEF next, F
  <2> QED BY <1>3
<1> HIDE DEF F
<1>6. F[n] # None /\ Walk(p, n, EndOf) = [i \in 1 .. n + 1 |-> F[i - 1]]
  BY <1>4
<1>7. F[0] = p
  BY <1>5
<1>8. \A i \in 1 .. n : F[i] = IF F[i - 1] = None THEN None ELSE EndOf[F[i - 1]]
  BY <1>5
<1>9. ASSUME NEW i \in 1 .. n PROVE F[i - 1] # None
  <2> DEFINE G == {k \in 0 .. n : F[k] = None}
  <2> SUFFICES ASSUME F[i - 1] = None PROVE FALSE
    OBVIOUS
  <2>1. \A k \in i - 1 .. n : k + 1 \in i - 1 .. n /\ k \in G => k + 1 \in G
    <3>1. ASSUME NEW k \in i - 1 .. n, k + 1 \in i - 1 .. n, k \in G PROVE k + 1 \in G
      <4>1. k + 1 \in 1 .. n /\ k \in Int /\ (k + 1) - 1 = k
        BY <3>1
      <4>2. F[k] = None
        BY <3>1
      <4>3. F[k + 1] = None
        BY <1>8, <4>1, <4>2
      <4> QED BY <4>1, <4>3
    <3> QED BY <3>1
  <2>2. i - 1 \in Nat /\ i - 1 <= n /\ i - 1 \in G /\ n \in i - 1 .. n
    OBVIOUS
  <2> HIDE DEF G
  <2>3. n \in G
    BY <2>1, <2>2, IntervalInduction
  <2> QED BY <1>6, <2>3 DEF G
<1>10. \A i \in 1 .. n : F[i] = EndOf[F[i - 1]]
  BY <1>8, <1>9
<1>11. \A i \in 0 .. n : F[i] \in Int
  <2> DEFINE G == {k \in 0 .. n : F[k] \in Int}
  <2>1. 0 \in G
    BY <1>7
  <2>2. ASSUME NEW k \in 0 .. n, k + 1 \in 0 .. n, k \in G PROVE k + 1 \in G
    <3>1. k + 1 \in 1 .. n /\ (k + 1) - 1 = k /\ F[k] \in Int
      BY <2>2
    <3>2. F[k + 1] = EndOf[F[k]]
      BY <1>10, <3>1
    <3> QED BY <3>1, <3>2
  <2>3. \A k \in 0 .. n : k + 1 \in 0 .. n /\ k \in G => k + 1 \in G
    BY <2>2
  <2>4. 0 \in Nat /\ 0 <= n
    OBVIOUS
  <2> HIDE DEF G
  <2>5. \A k \in 0 .. n : k \in G
    BY <2>1, <2>3, <2>4, IntervalInduction
  <2> QED BY <2>5 DEF G
<1> QED BY <1>6, <1>7, <1>9, <1>10, <1>11

(* A walk over records that are taken whole: the bytes it covers.          *)
LEMMA WalkWhole ==
  ASSUME NEW p \in Int, NEW n \in Nat, NEW EndOf, TakenWhole(EndOf), Walk(p, n, EndOf) # <<>>
  PROVE  /\ Whole(p, Last(Walk(p, n, EndOf)))
         /\ n > 0 => Last(Walk(p, n, EndOf)) # None
         /\ \A e \in ToSet(Front(Walk(p, n, EndOf))) : e \in Int /\ EndOf[e] # None
<1>1. \A q \in Int : EndOf[q] \in Int
  BY DEF TakenWhole
<1>2. PICK ends : /\ ends[0] = p /\ ends[n] # None
                  /\ \A i \in 0 .. n : ends[i] \in Int
                  /\ \A i \in 1 .. n : /\ ends[i - 1] # None
                                       /\ ends[i] = EndOf[ends[i - 1]]
                  /\ Walk(p, n, EndOf) = [i \in 1 .. n + 1 |-> ends[i - 1]]
  BY <1>1, WalkFacts
<1> DEFINE starts == Walk(p, n, EndOf)
<1>3. starts \in Seq(Int) /\ Len(starts) = n + 1 /\ \A i \in 1 .. n + 1 : starts[i] = ends[i - 1]
  <2>1. starts = [i \in 1 .. n + 1 |-> ends[i - 1]]
    BY <1>2
  <2>2. \A i \in 1 .. n + 1 : ends[i - 1] \in Int
    BY <1>2
  <2> HIDE DEF starts
  <2> QED BY <2>1, <2>2
<1>4. Last(starts) = ends[n]
  BY <1>3 DEF Last
<1>5. \A i \in 1 .. n : EndOf[ends[i - 1]] # None /\ ends[i - 1] \in Int
  <2> TAKE i \in 1 .. n
  <2>1. i - 1 \in 0 .. n /\ (i = n \/ (i + 1 \in 1 .. n /\ (i + 1) - 1 = i))
    OBVIOUS
  <2>2. ends[i] # None
    BY <1>2, <2>1
  <2> QED BY <1>2, <2>1, <2>2
<1>6. \A e \in ToSet(Front(starts)) : e \in Int /\ EndOf[e] # None
  <2>1. Front(starts) = [i \in 1 .. n |-> starts[i]]
    <3>1. Front(starts) = SubSeq(starts, 1, n)
      BY <1>3 DEF Front
    <3> HIDE DEF starts
    <3> QED BY <1>3, <3>1
  <2>2. ASSUME NEW e \in ToSet(Front(starts)) PROVE \E i \in 1 .. n : e = starts[i]
    <3> HIDE DEF starts
    <3> QED BY <2>1 DEF ToSet
  <2> HIDE DEF starts
  <2>3. \A i \in 1 .. n : starts[i] = ends[i - 1]
    BY <1>3
  <2> QED BY <1>5, <2>2, <2>3
<1>7. \A i \in 0 .. n : Whole(p, ends[i])
  <2> DEFINE G == {k \in 0 .. n : Whole(p, ends[k])}
  <2>1. 0 \in G
    BY <1>2 DEF Whole
  <2>2. ASSUME NEW k \in 0 .. n, k + 1 \in 0 .. n, k \in G PROVE k + 1 \in G
    <3>1. k + 1 \in 1 .. n /\ (k + 1) - 1 = k
      BY <2>2
    <3>2. ends[k + 1] = EndOf[ends[k]] /\ EndOf[ends[k]] # None /\ ends[k] \in Int
      BY <1>2, <1>5, <3>1
    <3>3. Whole(ends[k], ends[k + 1])
      BY <3>2 DEF TakenWhole
    <3>4. Whole(p, ends[k + 1])
      BY <2>2, <3>3, WholeJoins
    <3> QED BY <2>2, <3>4
  <2> HIDE DEF G
  <2>3. \A k \in 0 .. n : k \in G
    BY <2>1, <2>2, IntervalInduction
  <2> QED BY <2>3 DEF G
<1>8. Whole(p, Last(starts)) /\ Last(starts) # None
  BY <1>2, <1>4, <1>7
<1> QED BY <1>6, <1>8

(* What is taken of one record: nothing, or bytes from its start on.       *)
Sound(a, end) == end \in Int /\ (end # None => Whole(a, end))

LEMMA TakenWholeIf ==
  ASSUME NEW f, \A q \in Int : Sound(q, f[q])
  PROVE  TakenWhole(f)
BY DEF TakenWhole, Sound

LEMMA AttrSound ==
  ASSUME image \in Images, NEW a \in Int
  PROVE  Sound(a, AttrEnd(a))
<1>1. CASE AttrEnd(a) = None
  BY <1>1 DEF Sound, None
<1>2. CASE AttrEnd(a) # None
  <2>1. Byte(a) \in 1 .. MaxAttr /\ Readable(a, Byte(a)) /\ AttrEnd(a) = a + Byte(a)
    BY <1>2 DEF AttrEnd
  <2>2. Byte(a) \in Nat
    BY <2>1, TablesAssumption
  <2>3. Whole(a, a + Byte(a))
    BY <2>1, <2>2, WholeIsReadable
  <2> QED BY <2>1, <2>3 DEF Sound, Whole
<1> QED BY <1>1, <1>2

LEMMA ParamSound ==
  ASSUME image \in Images, NEW a \in Int
  PROVE  Sound(a, ParamEnd(a))
<1>1. CASE ParamEnd(a) = None
  BY <1>1 DEF Sound, None
<1>2. CASE ParamEnd(a) # None
  <2> DEFINE q == StrEnd(a + 1)
  <2>1. Byte(a) # None /\ q # None /\ ParamEnd(a) = AttrEnd(q)
    BY <1>2 DEF ParamEnd
  <2>2. Whole(a, a + 1) /\ Whole(a + 1, q) /\ q \in Int
    BY <2>1, ByteWhole, StrWhole
  <2> HIDE DEF q
  <2>3. Sound(q, AttrEnd(q))
    BY <2>2, AttrSound
  <2>4. Whole(q, AttrEnd(q)) /\ AttrEnd(q) \in Int
    BY <1>2, <2>1, <2>3 DEF Sound
  <2>5. Whole(a, AttrEnd(q))
    BY <2>2, <2>4, WholeJoins
  <2> QED BY <2>1, <2>4, <2>5 DEF Sound
<1> QED BY <1>1, <1>2

LEMMA CodeIsThere == ~Code(None) /\ ~Mapped(None)
BY Bounds DEF Code, Mapped, None

LEMMA MethodSound ==
  ASSUME image \in Images, NEW a \in Int
  PROVE  Sound(a, MethodEnd(a))
<1>1. CASE MethodEnd(a) = None
  BY <1>1 DEF Sound, None
<1>2. CASE MethodEnd(a) # None
  <2> DEFINE end == a + Byte(a)
             after == StrEnd(a + 3)
             EndOf == [q \in Int |-> ParamEnd(q)]
             params == Walk(after + 1, Byte(after), EndOf)
  <2>1. /\ Byte(a) >= 4 /\ IsName(a + 3, 1) /\ Code(Word(a + 1)) /\ MethodEnd(a) = end
        /\ \/ after = end
           \/ /\ after < end /\ Byte(after) # None /\ params # <<>>
              /\ AttrEnd(Last(params)) = end
    <3>1. a + 1 + Width = a + 3 /\ 2 + Width = 4
      BY DEF Width
    <3> QED BY <1>2, <3>1 DEF MethodEnd
  <2>2. Byte(a) # None /\ Word(a + 1) # None /\ StrEnd(a + 3) # None
    BY <2>1, CodeIsThere DEF None, IsName
  <2>3. Whole(a, a + 1) /\ Whole(a + 1, a + 3) /\ Whole(a + 3, after)
        /\ end \in Nat /\ after \in Nat
    <3>1. (a + 1) + 2 = a + 3
      OBVIOUS
    <3> QED BY <2>2, <3>1, ByteWhole, WordWhole, StrWhole
  <2>4. Whole(a, after)
    BY <2>3, WholeJoins
  <2> HIDE DEF end, after
  <2>5. CASE after = end
    BY <2>1, <2>3, <2>4, <2>5 DEF Sound
  <2>6. CASE after # end
    <3>1. Byte(after) # None /\ params # <<>> /\ AttrEnd(Last(params)) = end
      BY <2>1, <2>6
    <3>2. Byte(after) \in Nat /\ Whole(after, after + 1) /\ after + 1 \in Int
      BY <2>3, <3>1, ByteWhole
    <3>3. TakenWhole(EndOf)
      <4>1. \A q \in Int : Sound(q, EndOf[q])
        BY ParamSound
      <4> HIDE DEF EndOf
      <4> QED BY <4>1, TakenWholeIf
    <3> HIDE DEF EndOf
    <3>4. Whole(after + 1, Last(params))
      BY <3>1, <3>2, <3>3, WalkWhole
    <3> HIDE DEF params
    <3>5. Last(params) \in Int
      BY <3>4 DEF Whole
    <3>6. Sound(Last(params), AttrEnd(Last(params)))
      BY <3>5, AttrSound
    <3>7. Whole(Last(params), end)
      BY <2>3, <3>1, <3>6 DEF Sound, None
    <3>8. Whole(a, end)
      BY <2>4, <3>2, <3>4, <3>7, WholeJoins
    <3> QED BY <2>1, <2>3, <3>8 DEF Sound
  <2> QED BY <2>5, <2>6
<1> QED BY <1>1, <1>2

LEMMA ExMethodSound ==
  ASSUME image \in Images, NEW l, NEW a \in Int
  PROVE  /\ Sound(a, ExMethodEnd(l, a))
         /\ ExMethodEnd(l, a) # None => Word(a) \in Int /\ Whole(Word(a), MethodEnd(Word(a)))
<1>1. CASE ExMethodEnd(l, a) = None
  BY <1>1 DEF Sound, None
<1>2. CASE ExMethodEnd(l, a) # None
  <2>1. /\ Mapped(Word(a)) /\ MethodEnd(Word(a)) # None /\ Readable(a + 2, 2)
        /\ ExMethodEnd(l, a) = a + 4
    <3>1. /\ Mapped(Word(a)) /\ MethodEnd(Word(a)) # None /\ Readable(a + Width, 2)
          /\ ExMethodEnd(l, a) = a + Width + 2
      BY <1>2, Zenon DEF ExMethodEnd
    <3>2. a + Width = a + 2 /\ a + Width + 2 = a + 4
      BY DEF Width
    <3> QED BY <3>1, <3>2
  <2>2. Word(a) \in Int /\ Whole(a, a + 2)
    BY <2>1, WordWhole, CodeIsThere
  <2>3. Whole(a + 2, (a + 2) + 2)
    BY <2>1, WholeIsReadable
  <2>4. Whole(a, a + 4)
    BY <2>2, <2>3, WholeJoins
  <2>5. Whole(Word(a), MethodEnd(Word(a)))
    BY <2>1, <2>2, MethodSound DEF Sound
  <2> QED BY <2>1, <2>2, <2>4, <2>5 DEF Sound
<1> QED BY <1>1, <1>2

LEMMA FieldSound ==
  ASSUME image \in Images, NEW a \in Int
  PROVE  Sound(a, FieldEnd(a))
<1>1. CASE FieldEnd(a) = None
  BY <1>1 DEF Sound, None
<1>2. CASE FieldEnd(a) # None
  <2>1. Readable(a, 3) /\ FieldEnd(a) = NameEnd(a + 3)
    BY <1>2 DEF FieldEnd, Width
  <2>2. StrEnd(a + 3) # None /\ FieldEnd(a) = StrEnd(a + 3)
    BY <1>2, <2>1 DEF NameEnd, IsName
  <2>3. Whole(a, a + 3) /\ Whole(a + 3, StrEnd(a + 3)) /\ StrEnd(a + 3) \in Int
    BY <2>1, <2>2, WholeIsReadable, StrWhole
  <2>4. Whole(a, StrEnd(a + 3))
    BY <2>3, WholeJoins
  <2> QED BY <2>2, <2>3, <2>4 DEF Sound
<1> QED BY <1>1, <1>2

LEMMA ManagedSound ==
  ASSUME image \in Images, NEW l, NEW size \in Int, NEW first, NEW a \in Int
  PROVE  Sound(a, ManagedEnd(l, size, first, a))
<1>1. CASE ManagedEnd(l, size, first, a) = None
  BY <1>1 DEF Sound, None
<1>2. CASE ManagedEnd(l, size, first, a) # None
  <2>1. /\ Mapped(Word(a)) /\ Word(a + 2) \in 2 .. size - 1
        /\ ManagedEnd(l, size, first, a) = a + 4
    <3>1. /\ Mapped(Word(a)) /\ Word(a + Width) \in Width .. size - 1
          /\ ManagedEnd(l, size, first, a) = a + 2 * Width
      BY <1>2, Zenon DEF ManagedEnd
    <3>2. a + Width = a + 2 /\ a + 2 * Width = a + 4 /\ Width = 2
      BY DEF Width
    <3> QED BY <3>1, <3>2
  <2>2. Word(a) # None /\ Word(a + 2) # None
    BY <2>1, CodeIsThere DEF None
  <2>3. Whole(a, a + 2) /\ Whole(a + 2, (a + 2) + 2)
    BY <2>2, WordWhole
  <2>4. Whole(a, a + 4)
    BY <2>3, WholeJoins
  <2> QED BY <2>1, <2>4 DEF Sound
<1> QED BY <1>1, <1>2

LEMMA IntfSound ==
  ASSUME image \in Images, NEW a \in Int
  PROVE  Sound(a, IntfEnd(a))
<1>1. CASE Readable(a, 5)
  <2>1. IntfEnd(a) = a + 5
    BY <1>1 DEF IntfEnd, Width
  <2>2. Whole(a, a + 5)
    BY <1>1, WholeIsReadable
  <2> QED BY <2>1, <2>2 DEF Sound
<1>2. CASE ~Readable(a, 5)
  BY <1>2 DEF IntfEnd, Width, Sound, None
<1> QED BY <1>1, <1>2

(* The code addresses at a: as many as are counted, each of them readable. *)
LEMMA CodeWordsFacts ==
  ASSUME image \in Images, NEW a \in Int, NEW most \in Nat
  PROVE  /\ CodeWords(a, most) \in 0 .. most
         /\ Whole(a, a + 2 * CodeWords(a, most))
<1> DEFINE Stop(k) == k = most \/ ~Code(Word(a + 2 * k))
           Runs0(k) == \A j \in 0 .. k - 1 : Code(Word(a + 2 * j))
           T == {k \in 0 .. most : Stop(k)}
           n == CodeWords(a, most)
<1>1. PICK m \in T : \A k \in T : m <= k
  <2>1. T \subseteq Nat /\ most \in T
    OBVIOUS
  <2> HIDE DEF T
  <2> QED BY <2>1, LeastNatural
<1>2. m \in 0 .. most /\ Stop(m)
  OBVIOUS
<1>3. Runs0(m)
  <2> SUFFICES ASSUME NEW j \in 0 .. m - 1, ~Code(Word(a + 2 * j)) PROVE FALSE
    OBVIOUS
  <2>1. j \in T
    BY <1>2
  <2> HIDE DEF T
  <2>2. m <= j
    BY <1>1, <2>1
  <2> QED BY <1>2, <2>2
<1>4. n = CHOOSE k \in 0 .. most : Runs0(k) /\ Stop(k)
  BY DEF CodeWords, Width
<1>5. n \in 0 .. most /\ Runs0(n)
  <2> HIDE DEF Runs0, Stop, T, n
  <2> QED BY <1>2, <1>3, <1>4
<1> HIDE DEF n
<1>6. \A j \in 0 .. n - 1 : Whole(a + 2 * j, a + 2 * j + 2)
  <2> TAKE j \in 0 .. n - 1
  <2>1. Word(a + 2 * j) # None /\ a + 2 * j \in Int
    BY <1>5, CodeIsThere
  <2> QED BY <2>1, WordWhole
<1>7. \A k \in 0 .. n : Whole(a, a + 2 * k)
  <2> DEFINE G == {k \in 0 .. n : Whole(a, a + 2 * k)}
  <2>1. 0 \in G /\ 0 \in Nat /\ n \in Nat /\ 0 <= n
    BY <1>5 DEF Whole
  <2>2. \A k \in 0 .. n : k + 1 \in 0 .. n /\ k \in G => k + 1 \in G
    <3>1. ASSUME NEW k \in 0 .. n, k + 1 \in 0 .. n, k \in G PROVE k + 1 \in G
      <4>1. k \in 0 .. n - 1 /\ a + 2 * (k + 1) = a + 2 * k + 2
        BY <2>1, <3>1
      <4>2. Whole(a, a + 2 * k) /\ Whole(a + 2 * k, a + 2 * (k + 1))
        BY <1>6, <3>1, <4>1
      <4>3. Whole(a, a + 2 * (k + 1))
        BY <4>2, WholeJoins
      <4> QED BY <3>1, <4>3
    <3> QED BY <3>1
  <2> HIDE DEF G
  <2>3. \A k \in 0 .. n : k \in G
    BY <2>1, <2>2, IntervalInduction
  <2> QED BY <2>3 DEF G
<1>8. n \in 0 .. n
  BY <1>5
<1> QED BY <1>5, <1>7, <1>8 DEF n

LEMMA SlotType ==
  ASSUME image \in Images, NEW l \in ToSet(Variants), NEW a \in Int, NEW s
  PROVE  Slot(l, a, s) \in Int
<1>1. a + SlotOffset(l, s) \in Int
  BY LayoutFacts
<1>2. Word(a + SlotOffset(l, s)) \in Nat \union {None}
  BY <1>1, WordType
<1> QED BY <1>2 DEF Slot, None

WholeRegions(regions) == \A r \in regions : Whole(r[1], r[2])

LEMMA RegionsOf ==
  ASSUME NEW starts, NEW more
  PROVE  Nothing.regions = {} /\ Found(starts, more).regions = more
BY DEF Nothing, Found

LEMMA MethodTableExWhole ==
  ASSUME image \in Images, NEW l, NEW p \in Int
  PROVE  WholeRegions(MethodTableEx(l, p).regions)
<1> DEFINE n == Byte(p)
           EndOf == [q \in Int |-> ExMethodEnd(l, q)]
           starts == Walk(p + 1, n, EndOf)
           entries == {<<Word(e), MethodEnd(Word(e))>> : e \in ToSet(Front(starts))}
<1>1. MethodTableEx(l, p) =
        IF n \notin 1 .. MaxCount \/ starts = <<>> THEN Nothing
        ELSE Found(starts, {<<p, Last(starts)>>} \union entries)
  BY DEF MethodTableEx
<1>2. TakenWhole(EndOf)
  <2>1. \A q \in Int : Sound(q, EndOf[q])
    BY ExMethodSound
  <2> HIDE DEF EndOf
  <2> QED BY <2>1, TakenWholeIf
<1>3. CASE n \notin 1 .. MaxCount \/ starts = <<>>
  <2> HIDE DEF n, starts, entries
  <2> QED BY <1>1, <1>3, RegionsOf DEF WholeRegions
<1>4. CASE ~(n \notin 1 .. MaxCount \/ starts = <<>>)
  <2>1. n \in Nat /\ n # None /\ starts # <<>>
    BY <1>4 DEF None
  <2>2. Whole(p, p + 1)
    BY <2>1, ByteWhole
  <2>3. Whole(p + 1, Last(starts)) /\ \A e \in ToSet(Front(starts)) : e \in Int /\ EndOf[e] # None
    <3> HIDE DEF n, EndOf
    <3> QED BY <1>2, <2>1, WalkWhole
  <2>4. Whole(p, Last(starts))
    BY <2>2, <2>3, WholeJoins
  <2>5. ASSUME NEW e \in ToSet(Front(starts)) PROVE Whole(Word(e), MethodEnd(Word(e)))
    <3>1. e \in Int /\ EndOf[e] # None
      BY <2>3
    <3>2. ExMethodEnd(l, e) # None
      BY <3>1
    <3> QED BY <3>1, <3>2, ExMethodSound
  <2>6. \A r \in entries : Whole(r[1], r[2])
    <3> HIDE DEF starts
    <3> QED BY <2>5
  <2>7. MethodTableEx(l, p).regions = {<<p, Last(starts)>>} \union entries
    <3> HIDE DEF n, starts, entries
    <3> QED BY <1>1, <1>4, RegionsOf
  <2> HIDE DEF entries, starts
  <2> QED BY <2>4, <2>6, <2>7 DEF WholeRegions
<1> QED BY <1>3, <1>4

LEMMA MethodTableWhole ==
  ASSUME image \in Images, NEW l \in ToSet(Variants), NEW a \in Int
  PROVE  WholeRegions(MethodTable(l, a).regions)
<1> DEFINE p == Slot(l, a, "vmtMethodTable")
           n == Byte(p)
           EndOf == [q \in Int |-> MethodEnd(q)]
           starts == Walk(p + 1, n, EndOf)
           ex == MethodTableEx(l, Last(starts))
           none == ~Mapped(p) \/ n \notin 0 .. MaxCount \/ starts = <<>>
<1>1. MethodTable(l, a) = IF none THEN Nothing ELSE Found(starts, {<<p, Last(starts)>>} \union ex.regions)
  BY DEF MethodTable
<1>2. TakenWhole(EndOf)
  <2>1. \A q \in Int : Sound(q, EndOf[q])
    BY MethodSound
  <2> HIDE DEF EndOf
  <2> QED BY <2>1, TakenWholeIf
<1>3. p \in Int
  BY SlotType
<1>4. CASE none
  <2> HIDE DEF none, starts, ex
  <2> QED BY <1>1, <1>4, RegionsOf DEF WholeRegions
<1>5. CASE ~none
  <2> HIDE DEF p
  <2>1. n \in Nat /\ n # None /\ starts # <<>>
    BY <1>5 DEF None
  <2>2. Whole(p, p + 1)
    BY <1>3, <2>1, ByteWhole
  <2>3. Whole(p + 1, Last(starts))
    <3> HIDE DEF n, EndOf
    <3> QED BY <1>2, <1>3, <2>1, WalkWhole
  <2>4. Whole(p, Last(starts)) /\ Last(starts) \in Int
    BY <2>2, <2>3, WholeJoins DEF Whole
  <2>5. WholeRegions(ex.regions)
    <3> HIDE DEF starts
    <3> QED BY <2>4, MethodTableExWhole
  <2>6. MethodTable(l, a).regions = {<<p, Last(starts)>>} \union ex.regions
    <3> HIDE DEF none, starts, ex
    <3> QED BY <1>1, <1>5, RegionsOf
  <2> HIDE DEF ex, starts
  <2> QED BY <2>4, <2>5, <2>6 DEF WholeRegions
<1> QED BY <1>4, <1>5

LEMMA DynamicTableWhole ==
  ASSUME image \in Images, NEW l \in ToSet(Variants), NEW a \in Int
  PROVE  WholeRegions(DynamicTable(l, a).regions)
<1> DEFINE p == Slot(l, a, "vmtDynamicTable")
           n == Byte(p)
           EndOf == [h \in Int |-> IF Code(Word(h)) THEN h + Width ELSE None]
           starts == Walk(p + 1 + n, n, EndOf)
           none == ~Mapped(p) \/ n \notin 0 .. MaxCount \/ ~Readable(p + 1, n) \/ starts = <<>>
<1>1. DynamicTable(l, a) = IF none THEN Nothing ELSE Found(starts, {<<p, Last(starts)>>})
  BY DEF DynamicTable
<1>2. TakenWhole(EndOf)
  <2>1. ASSUME NEW q \in Int PROVE Sound(q, EndOf[q])
    <3>1. CASE Code(Word(q))
      <4>1. Whole(q, q + 2)
        BY <3>1, CodeIsThere, WordWhole
      <4> QED BY <3>1, <4>1 DEF Sound, Width
    <3>2. CASE ~Code(Word(q))
      BY <3>2 DEF Sound, None
    <3> QED BY <3>1, <3>2
  <2> HIDE DEF EndOf
  <2> QED BY <2>1, TakenWholeIf
<1>3. p \in Int
  BY SlotType
<1>4. CASE none
  <2> HIDE DEF none, starts
  <2> QED BY <1>1, <1>4, RegionsOf DEF WholeRegions
<1>5. CASE ~none
  <2> HIDE DEF p
  <2>1. n \in Nat /\ n # None /\ starts # <<>> /\ Readable(p + 1, n)
    BY <1>5 DEF None
  <2>2. Whole(p, p + 1) /\ Whole(p + 1, p + 1 + n)
    <3>1. Whole(p, p + 1)
      BY <1>3, <2>1, ByteWhole
    <3> HIDE DEF n
    <3>2. p + 1 \in Int
      BY <1>3
    <3> QED BY <2>1, <3>1, <3>2, WholeIsReadable
  <2>3. Whole(p + 1 + n, Last(starts))
    <3> HIDE DEF n, EndOf
    <3>1. p + 1 + n \in Int
      BY <1>3, <2>1
    <3> QED BY <1>2, <2>1, <3>1, WalkWhole
  <2>4. Whole(p, Last(starts))
    BY <2>2, <2>3, WholeJoins
  <2>6. DynamicTable(l, a).regions = {<<p, Last(starts)>>}
    <3> HIDE DEF none, starts
    <3> QED BY <1>1, <1>5, RegionsOf
  <2> HIDE DEF starts
  <2> QED BY <2>4, <2>6 DEF WholeRegions
<1> QED BY <1>4, <1>5

LEMMA FieldTableWhole ==
  ASSUME image \in Images, NEW l \in ToSet(Variants), NEW a \in Int
  PROVE  WholeRegions(FieldTable(l, a).regions)
<1> DEFINE p == Slot(l, a, "vmtFieldTable")
           n == Byte(p)
           ctab == Word(p + 1)
           k == Byte(ctab)
           ctabEnd == ctab + 1 + Width * k
           EndOf == [q \in Int |-> FieldEnd(q)]
           starts == Walk(p + 1 + Width, n, EndOf)
           classes == IF Mapped(ctab) /\ k \in 0 .. MaxCount /\ Readable(ctab, ctabEnd - ctab)
                      THEN {<<ctab, ctabEnd>>} ELSE {}
           none == ~Mapped(p) \/ n \notin 0 .. MaxCount \/ ctab = None \/ starts = <<>>
<1>1. FieldTable(l, a) =
        IF none THEN Nothing ELSE Found(starts, {<<p, Last(starts)>>} \union classes)
  BY DEF FieldTable
<1>2. TakenWhole(EndOf)
  <2>1. \A q \in Int : Sound(q, EndOf[q])
    BY FieldSound
  <2> HIDE DEF EndOf
  <2> QED BY <2>1, TakenWholeIf
<1>3. p \in Int
  BY SlotType
<1>4. CASE none
  <2> HIDE DEF none, starts, classes
  <2> QED BY <1>1, <1>4, RegionsOf DEF WholeRegions
<1>5. CASE ~none
  <2> HIDE DEF p
  <2>1. n \in Nat /\ n # None /\ starts # <<>> /\ ctab # None
    BY <1>5 DEF None
  <2>2. Whole(p, p + 1) /\ Whole(p + 1, p + 1 + Width) /\ ctab \in Int
    <3>1. p + 1 \in Int /\ Width = 2
      BY <1>3 DEF Width
    <3> QED BY <1>3, <2>1, <3>1, ByteWhole, WordWhole
  <2>3. Whole(p + 1 + Width, Last(starts))
    <3> HIDE DEF n, EndOf
    <3>1. p + 1 + Width \in Int
      BY <1>3 DEF Width
    <3> QED BY <1>2, <2>1, <3>1, WalkWhole
  <2>4. Whole(p, Last(starts))
    BY <2>2, <2>3, WholeJoins
  <2>5. \A r \in classes : Whole(r[1], r[2])
    <3> SUFFICES ASSUME Mapped(ctab), k \in 0 .. MaxCount, Readable(ctab, ctabEnd - ctab)
                 PROVE  Whole(ctab, ctabEnd)
      OBVIOUS
    <3> HIDE DEF ctab
    <3>1. ctabEnd - ctab \in Nat /\ ctab + (ctabEnd - ctab) = ctabEnd
      <4>1. k \in Nat
        BY Bounds, ReaderAssumption
      <4> HIDE DEF k
      <4> QED BY <2>2, <4>1 DEF Width
    <3> HIDE DEF ctabEnd
    <3> QED BY <2>2, <3>1, WholeIsReadable
  <2>6. FieldTable(l, a).regions = {<<p, Last(starts)>>} \union classes
    <3> HIDE DEF none, starts, classes
    <3> QED BY <1>1, <1>5, RegionsOf
  <2> HIDE DEF starts, classes
  <2> QED BY <2>4, <2>5, <2>6 DEF WholeRegions
<1> QED BY <1>4, <1>5

(* Of an InitTable all can be read, but for what its second shape skips.   *)
LEMMA InitTableWhole ==
  ASSUME image \in Images, NEW l \in ToSet(Variants), NEW a \in Int,
         NEW r \in InitTable(l, a).regions
  PROVE  LET p == Slot(l, a, "vmtInitTable")
         IN r[1] = p /\ \A x \in r[1] .. r[2] - 1 : x \in DOMAIN image \/ x = StrEnd(p + 1)
<1> DEFINE p == Slot(l, a, "vmtInitTable")
           size == Slot(l, a, "vmtInstanceSize")
           gap == StrEnd(p + 1)
           first(base) == base + 2 * Width
           EndOf(base) == [e \in Int |-> ManagedEnd(l, size, first(base), e)]
           At(base) == IF Word(base) = None \/ Word(base + Width) \notin 1 .. MaxCount THEN <<>>
                       ELSE Walk(first(base), Word(base + Width), EndOf(base))
           Fields(head) == At(gap + head)
           starts == IF Fields(0) # <<>> THEN Fields(0) ELSE Fields(1)
           none == ~Mapped(p) \/ Byte(p) # RecordKind \/ gap = None \/ starts = <<>>
<1>1. InitTable(l, a) = IF none THEN Nothing ELSE Found(starts, {<<p, Last(starts)>>})
  BY DEF InitTable
<1>2. p \in Int /\ size \in Int
  BY SlotType
<1>3. ASSUME NEW base \in Int, At(base) # <<>> PROVE Whole(base, Last(At(base)))
  <2> DEFINE n == Word(base + Width)
  <2>1. /\ Word(base) # None /\ n \in 1 .. MaxCount
        /\ At(base) = Walk(first(base), n, EndOf(base))
    BY <1>3
  <2>2. TakenWhole(EndOf(base))
    <3> DEFINE f == EndOf(base)
    <3>1. \A e \in Int : Sound(e, f[e])
      <4> HIDE DEF size
      <4> QED BY <1>2, ManagedSound
    <3> HIDE DEF f
    <3>2. TakenWhole(f)
      BY <3>1, TakenWholeIf
    <3> QED BY <3>2 DEF f
  <2>3. n \in Nat /\ n # None /\ Width = 2 /\ base + Width \in Int /\ first(base) \in Int
    BY <2>1 DEF None, Width
  <2>4. Whole(base, base + Width) /\ Whole(base + Width, base + 2 * Width)
    <3>1. (base + Width) + 2 = base + 2 * Width
      BY DEF Width
    <3> QED BY <2>1, <2>3, <3>1, WordWhole
  <2>5. Whole(first(base), Last(At(base)))
    <3> HIDE DEF n, At, EndOf, first
    <3> QED BY <1>3, <2>1, <2>2, <2>3, WalkWhole
  <2> HIDE DEF At
  <2> QED BY <2>4, <2>5, WholeJoins
<1>4. ~none
  <2> SUFFICES ASSUME none PROVE FALSE
    OBVIOUS
  <2> HIDE DEF none, starts
  <2> QED BY <1>1, RegionsOf
<1>5. r = <<p, Last(starts)>>
  <2> HIDE DEF none, starts, p
  <2>1. InitTable(l, a).regions = {<<p, Last(starts)>>}
    BY <1>1, <1>4, RegionsOf
  <2> QED BY <2>1
<1>6. PICK head \in {0, 1} : starts = Fields(head)
  <2> HIDE DEF Fields
  <2> QED OBVIOUS
<1>7. Byte(p) # None /\ gap # None /\ Fields(head) # <<>>
  <2>1. RecordKind # None
    BY TablesAssumption, Bounds DEF TypeKinds, None
  <2> HIDE DEF Fields, starts
  <2> QED BY <1>4, <1>6, <2>1
<1> HIDE DEF p, size, At, none
<1>8. Whole(p, p + 1) /\ Whole(p + 1, gap) /\ gap \in Int
  BY <1>2, <1>7, ByteWhole, StrWhole
<1>9. Whole(gap + head, Last(Fields(head)))
  BY <1>3, <1>7, <1>8
<1>10. Whole(p, gap)
  BY <1>8, WholeJoins
<1> HIDE DEF gap, Fields
<1>11. \A x \in p .. Last(Fields(head)) - 1 : x \in DOMAIN image \/ x = gap
  <2> SUFFICES ASSUME NEW x \in p .. Last(Fields(head)) - 1, x # gap PROVE x \in DOMAIN image
    OBVIOUS
  <2>1. p \in Int /\ gap \in Int /\ Last(Fields(head)) \in Int /\ x \in Int /\ head \in Int
    BY <1>8, <1>9, <1>10 DEF Whole
  <2>2. x \in p .. gap - 1 \/ x \in gap + head .. Last(Fields(head)) - 1
    BY <2>1
  <2> QED BY <1>9, <1>10, <2>2 DEF Whole
<1>12. r[1] = p /\ r[2] = Last(Fields(head))
  <2> HIDE DEF starts
  <2> QED BY <1>5, <1>6
<1>13. r[1] = p /\ \A x \in r[1] .. r[2] - 1 : x \in DOMAIN image \/ x = gap
  BY <1>11, <1>12
<1> QED BY <1>13 DEF p, gap

(* As many words as there is room for, or the cap.                         *)
Capped(room) == IF room > MaxCount THEN MaxCount ELSE room

LEMMA CappedIs ==
  ASSUME NEW room \in Nat
  PROVE  Capped(room) \in Nat /\ Capped(room) <= room
BY ReaderAssumption DEF Capped

LEMMA LeastOf ==
  ASSUME NEW S, S \subseteq Int, S # {}, NEW low \in Int, \A x \in S : low <= x
  PROVE  LET m == CHOOSE x \in S : \A y \in S : x <= y
         IN m \in S /\ \A y \in S : m <= y
<1> DEFINE T == {x - low : x \in S}
<1>1. T \subseteq Nat /\ T # {}
  <2>1. \A x \in S : x - low \in Nat
    OBVIOUS
  <2> QED BY <2>1
<1>2. PICK t \in T : \A u \in T : t <= u
  <2> HIDE DEF T
  <2> QED BY <1>1, LeastNatural
<1>3. PICK x \in S : t = x - low
  OBVIOUS
<1>4. \A y \in S : x <= y
  <2> SUFFICES ASSUME NEW y \in S PROVE x <= y
    OBVIOUS
  <2>1. x - low <= y - low
    BY <1>2, <1>3
  <2> QED BY <2>1
<1> QED BY <1>4

(* The words of one interface's vtable end where another's begin.          *)
LEMMA IntfSlotsFacts ==
  ASSUME image \in Images, NEW starts, starts \subseteq Int, NEW v \in Int
  PROVE  /\ IntfSlots(starts, v) \in Nat
         /\ Whole(v, v + 2 * IntfSlots(starts, v))
         /\ \A w \in starts : w > v => v + 2 * IntfSlots(starts, v) <= w
<1> DEFINE above == {s \in starts : s > v}
           next == CHOOSE s \in above : \A t \in above : s <= t
           room == (next - v) \div Width
           most == IF above = {} \/ room > MaxCount THEN MaxCount ELSE room
           n == CodeWords(v, most)
<1>1. IntfSlots(starts, v) = n
  BY DEF IntfSlots
<1>2. MaxCount \in Nat
  BY ReaderAssumption
<1>3. CASE above = {}
  <2>1. most \in Nat
    BY <1>2, <1>3
  <2> HIDE DEF most
  <2>2. n \in 0 .. most /\ Whole(v, v + 2 * n)
    BY <2>1, CodeWordsFacts
  <2> QED BY <1>1, <1>3, <2>1, <2>2
<1>4. CASE above # {}
  <2>1. next \in above /\ \A t \in above : next <= t
    <3>1. above \subseteq Int
      OBVIOUS
    <3>2. \A x \in above : x \in starts /\ x > v
      OBVIOUS
    <3>3. \A x \in above : v <= x
      <4> SUFFICES ASSUME NEW x \in above PROVE v <= x
        OBVIOUS
      <4>1. x \in Int /\ x > v
        BY <3>1, <3>2
      <4> QED BY <4>1
    <3> HIDE DEF above
    <3> QED BY <1>4, <3>1, <3>3, LeastOf
  <2>2. next \in Int /\ next > v
    BY <2>1
  <2> HIDE DEF next
  <2>3. room \in Nat /\ 2 * room <= next - v
    BY <2>2 DEF Width
  <2> HIDE DEF room
  <2>4. most \in Nat /\ most <= room
    BY <1>2, <1>4, <2>3
  <2> HIDE DEF most
  <2>5. n \in 0 .. most /\ Whole(v, v + 2 * n)
    BY <2>4, CodeWordsFacts
  <2> HIDE DEF n
  <2>6. v + 2 * n <= next
    BY <2>2, <2>3, <2>4, <2>5
  <2>7. \A w \in starts : w > v => next <= w
    BY <2>1
  <2>8. \A w \in starts : w > v => v + 2 * n <= w
    <3> SUFFICES ASSUME NEW w \in starts, w > v PROVE v + 2 * n <= w
      OBVIOUS
    <3>1. next <= w /\ w \in Int
      BY <2>7
    <3> QED BY <2>2, <2>4, <2>5, <2>6, <3>1
  <2> QED BY <1>1, <2>4, <2>5, <2>8
<1> QED BY <1>3, <1>4

LEMMA IntfTableWhole ==
  ASSUME image \in Images, NEW l \in ToSet(Variants), NEW a \in Int
  PROVE  /\ WholeRegions(IntfTable(l, a).regions)
         /\ \A r, s \in IntfTable(l, a).vtables : r # s => r[2] <= s[1] \/ s[2] <= r[1]
<1> DEFINE p == Slot(l, a, "vmtIntfTable")
           n == Word(p)
           EndOf == [e \in Int |-> IntfEnd(e)]
           starts == Walk(p + Width, n, EndOf)
           vtables == {v \in {Word(e + 1) : e \in ToSet(Front(starts))} : Mapped(v)}
           walked == {v \in vtables : IntfSlots(vtables, v) > 0}
           ends == {<<v, v + Width * IntfSlots(vtables, v)>> : v \in walked}
           none == ~Mapped(p) \/ n \notin 1 .. MaxCount \/ starts = <<>>
           table == IntfTable(l, a)
<1>1. table = IF none THEN [entries |-> <<>>, regions |-> {}, vtables |-> {}]
              ELSE [entries |-> Front(starts), regions |-> {<<p, Last(starts)>>} \union ends,
                    vtables |-> ends]
  BY DEF IntfTable
<1>2. TakenWhole(EndOf)
  <2>1. \A q \in Int : Sound(q, EndOf[q])
    BY IntfSound
  <2> HIDE DEF EndOf
  <2> QED BY <2>1, TakenWholeIf
<1>3. p \in Int
  BY SlotType
<1>4. CASE none
  <2>1. table.regions = {} /\ table.vtables = {}
    <3> HIDE DEF none, starts, ends
    <3> QED BY <1>1, <1>4
  <2> HIDE DEF table
  <2> QED BY <2>1 DEF WholeRegions, table
<1>5. CASE ~none
  <2>0. table.regions = {<<p, Last(starts)>>} \union ends /\ table.vtables = ends
    <3> HIDE DEF none, starts, ends, p
    <3> QED BY <1>1, <1>5
  <2> HIDE DEF p
  <2>1. n \in Nat /\ n # None /\ starts # <<>>
    BY <1>5 DEF None
  <2>2. Whole(p, p + Width)
    BY <1>3, <2>1, WordWhole DEF Width
  <2>3. Whole(p + Width, Last(starts)) /\ \A e \in ToSet(Front(starts)) : e \in Int /\ EndOf[e] # None
    <3>1. p + Width \in Int
      BY <1>3 DEF Width
    <3> HIDE DEF n, EndOf
    <3> QED BY <1>2, <2>1, <3>1, WalkWhole
  <2>4. Whole(p, Last(starts))
    BY <2>2, <2>3, WholeJoins
  <2>5. vtables \subseteq Int
    BY Bounds DEF Mapped
  <2> HIDE DEF vtables
  <2>6. ASSUME NEW v \in vtables
        PROVE  /\ v \in Int /\ IntfSlots(vtables, v) \in Nat
               /\ Whole(v, v + 2 * IntfSlots(vtables, v))
               /\ \A w \in vtables : w > v => v + 2 * IntfSlots(vtables, v) <= w
    BY <2>5, IntfSlotsFacts
  <2>7. \A r \in ends : \E v \in vtables : r[1] = v /\ r[2] = v + 2 * IntfSlots(vtables, v)
                                           /\ r = <<v, v + 2 * IntfSlots(vtables, v)>>
    BY DEF Width
  <2> HIDE DEF ends, starts
  <2>8. \A r \in ends : Whole(r[1], r[2])
    BY <2>6, <2>7
  <2>9. ASSUME NEW r \in ends, NEW s \in ends, r # s PROVE r[2] <= s[1] \/ s[2] <= r[1]
    <3>1. PICK v \in vtables : r[1] = v /\ r[2] = v + 2 * IntfSlots(vtables, v)
                               /\ r = <<v, v + 2 * IntfSlots(vtables, v)>>
      BY <2>7
    <3>2. PICK w \in vtables : s[1] = w /\ s[2] = w + 2 * IntfSlots(vtables, w)
                               /\ s = <<w, w + 2 * IntfSlots(vtables, w)>>
      BY <2>7
    <3>3. v # w /\ v \in Int /\ w \in Int
      BY <2>5, <2>9, <3>1, <3>2
    <3>4. w > v \/ v > w
      BY <3>3
    <3> QED BY <2>6, <3>1, <3>2, <3>4
  <2>10. WholeRegions(table.regions)
    BY <2>0, <2>4, <2>8 DEF WholeRegions
  <2> HIDE DEF table
  <2> QED BY <2>0, <2>9, <2>10 DEF table
<1> QED BY <1>4, <1>5

(* The virtual table ends before the nearest table behind the class, or in *)
(* its first byte when that is not a whole number of words away.           *)
LEMMA VtableFacts ==
  ASSUME image \in Images, NEW l \in ToSet(Variants), NEW a \in Int,
         NEW t \in TableSlots, Slot(l, a, t) >= a, (Slot(l, a, t) - a) % Width = 0
  PROVE  VtableEnd(l, a) <= Slot(l, a, t)
<1> DEFINE p == Slot(l, a, t)
           tables == {q \in {Slot(l, a, s) : s \in TableSlots} : q >= a}
           ceiling == CHOOSE q \in tables : \A u \in tables : q <= u
           room == (ceiling - a + Width - 1) \div Width
           most == IF tables = {} \/ room > MaxCount THEN MaxCount ELSE room
           n == CodeWords(a, most)
<1>1. VtableEnd(l, a) = a + Width * n
  BY DEF VtableEnd
<1>2. p \in tables /\ p \in Int /\ tables \subseteq Int
  BY SlotType
<1>3. ceiling \in tables /\ \A u \in tables : ceiling <= u
  <2>1. \A x \in tables : a <= x
    OBVIOUS
  <2> HIDE DEF tables, p
  <2> QED BY <1>2, <2>1, LeastOf
<1>4. ceiling \in Int /\ a <= ceiling /\ ceiling <= p
  <2>1. \A x \in tables : x >= a /\ x \in Int
    BY <1>2
  <2> HIDE DEF tables, ceiling, p
  <2> QED BY <1>2, <1>3, <2>1
<1>5. p >= a /\ (p - a) % 2 = 0
  BY DEF Width
<1> HIDE DEF ceiling, p
<1>6. room \in Nat /\ a + 2 * room <= p
  <2> DEFINE d == p - a
             c == ceiling - a
  <2>1. d \in Nat /\ d % 2 = 0 /\ c \in Nat /\ c <= d
    BY <1>2, <1>4, <1>5
  <2>2. room = (c + 1) \div 2
    <3>1. ceiling - a + Width - 1 = c + 1
      BY <1>4 DEF Width
    <3> QED BY <3>1 DEF Width
  <2> HIDE DEF d, c
  <2>3. (c + 1) \div 2 \in Nat /\ 2 * ((c + 1) \div 2) <= d
    BY <2>1
  <2> HIDE DEF room
  <2>4. 2 * room <= d /\ room \in Nat
    BY <2>2, <2>3
  <2> QED BY <1>2, <2>4 DEF d
<1> HIDE DEF room
<1>7. tables # {}
  BY <1>2
<1> HIDE DEF tables
<1>8. most \in Nat /\ most <= room
  BY <1>6, <1>7, ReaderAssumption
<1> HIDE DEF most
<1>9. n \in 0 .. most
  BY <1>8, CodeWordsFacts
<1> HIDE DEF n
<1>10. a + Width * n <= p
  BY <1>2, <1>6, <1>8, <1>9 DEF Width
<1> QED BY <1>1, <1>10 DEF p

(* What is taken from a class, whatever its header points at.              *)
SoundAt(v) ==
  LET intf == IntfTable(layout, v).vtables
      init == Slot(layout, v, "vmtInitTable")
  IN /\ \A r \in Regions(layout, v) : \A x \in r[1] .. r[2] - 1 :
          x \in DOMAIN image \/ (r[1] = init /\ x = StrEnd(init + 1))
     /\ \A r, s \in intf : r # s => r[2] <= s[1] \/ s[2] <= r[1]
     /\ \A t \in TableSlots :
          LET p == Slot(layout, v, t)
          IN p >= v /\ (p - v) % Width = 0 => VtableEnd(layout, v) <= p

LEMMA ClassIsSound ==
  ASSUME image \in Images, layout \in ToSet(Variants), NEW v \in Int, IsVmt(layout, v)
  PROVE  SoundAt(v)
<1> DEFINE name == Slot(layout, v, "vmtClassName")
           init == Slot(layout, v, "vmtInitTable")
           t == Tables(layout, v)
           Stands(r) == \A x \in r[1] .. r[2] - 1 : x \in DOMAIN image \/ (r[1] = init /\ x = StrEnd(init + 1))
<1>1. StrEnd(name) # None
  BY DEF IsVmt, ClassHead, ShapedLikeClass, IsName
<1>2. Whole(name, StrEnd(name))
  <2>1. name \in Int
    BY SlotType
  <2> HIDE DEF name
  <2> QED BY <1>1, <2>1, StrWhole
<1>3. /\ WholeRegions(t["intf"].regions) /\ WholeRegions(t["field"].regions)
      /\ WholeRegions(t["method"].regions) /\ WholeRegions(t["dynamic"].regions)
  <2>1. /\ t["intf"] = IntfTable(layout, v) /\ t["field"] = FieldTable(layout, v)
        /\ t["method"] = MethodTable(layout, v) /\ t["dynamic"] = DynamicTable(layout, v)
    BY DEF Tables
  <2> HIDE DEF t
  <2> QED BY <2>1, IntfTableWhole, FieldTableWhole, MethodTableWhole, DynamicTableWhole
<1>4. ASSUME NEW r \in t["init"].regions PROVE Stands(r)
  <2>1. t["init"] = InitTable(layout, v)
    BY DEF Tables
  <2> HIDE DEF t
  <2> QED BY <1>4, <2>1, InitTableWhole
<1>5. DOMAIN t = {"intf", "init", "field", "method", "dynamic"}
  BY DEF Tables
<1>6. Regions(layout, v) = {<<name, StrEnd(name)>>} \union UNION {t[k].regions : k \in DOMAIN t}
  BY DEF Regions
<1>7. ASSUME NEW r, Whole(r[1], r[2]) PROVE Stands(r)
  BY <1>7 DEF Whole
<1>8. ASSUME NEW r \in Regions(layout, v) PROVE Stands(r)
  <2>1. CASE r = <<name, StrEnd(name)>>
    <3>1. Whole(r[1], r[2])
      <4> HIDE DEF name
      <4> QED BY <1>2, <2>1
    <3> HIDE DEF Stands
    <3> QED BY <1>7, <3>1
  <2>2. CASE r # <<name, StrEnd(name)>>
    <3> HIDE DEF t, name, Stands
    <3>1. PICK k \in DOMAIN t : r \in t[k].regions
      BY <1>6, <1>8, <2>2
    <3>2. CASE k = "init"
      BY <1>4, <3>1, <3>2
    <3>3. CASE k # "init"
      <4>1. k \in {"intf", "field", "method", "dynamic"}
        BY <1>5, <3>1, <3>3
      <4>2. WholeRegions(t[k].regions)
        BY <1>3, <4>1
      <4> QED BY <1>7, <3>1, <4>2 DEF WholeRegions
    <3> QED BY <3>2, <3>3
  <2> QED BY <2>1, <2>2
<1>9. \A r, s \in IntfTable(layout, v).vtables : r # s => r[2] <= s[1] \/ s[2] <= r[1]
  BY IntfTableWhole
<1>10. ASSUME NEW u \in TableSlots, Slot(layout, v, u) >= v, (Slot(layout, v, u) - v) % Width = 0
       PROVE  VtableEnd(layout, v) <= Slot(layout, v, u)
  BY <1>10, VtableFacts
<1> HIDE DEF t, name
<1> QED BY <1>8, <1>9, <1>10 DEF SoundAt

LEMMA ClassesFound ==
  ASSUME SoFar, pass = "done"
  PROVE  /\ image \in Images /\ layout \in ToSet(Variants)
         /\ \A v \in vmts : v \in Int /\ IsVmt(layout, v)
<1>1. image \in Images /\ layout \in ToSet(Variants) /\ vmts = AllVmts
  BY DEF SoFar, Later
<1>2. CASE HasSelfPtr(layout)
  <2>1. HeaderSize(layout) \in Nat /\ \A a \in CodeStart .. CodeEnd - 1 : a \in Nat
    BY <1>1, LayoutFacts, Bounds
  <2> QED BY <1>1, <1>2, <2>1 DEF AllVmts, VmtsUpto
<1>3. CASE ~HasSelfPtr(layout)
  <2>1. ASSUME NEW v \in vmts PROVE v \in Int /\ IsVmt(layout, v)
    <3>1. v \in Heads(layout)
      BY <1>1, <1>3, <2>1 DEF AllVmts
    <3>2. PICK x \in Sizes : v = x - SlotOffset(layout, "vmtInstanceSize")
      BY <3>1 DEF Heads
    <3>3. ClassHead(layout, v)
      BY <3>1 DEF Heads
    <3>4. x \in Int /\ SlotOffset(layout, "vmtInstanceSize") \in Int
      BY <1>1, LayoutFacts, Bounds DEF Sizes
    <3> QED BY <1>3, <3>2, <3>3, <3>4 DEF IsVmt
  <2> QED BY <1>1, <2>1
<1> QED BY <1>1, <1>2, <1>3

(* For any image and whatever its bytes say, what a finished scan takes    *)
(* from a class can be read, its interface vtables share no word, and its  *)
(* virtual table stops at the next table (_attrdata_end,                   *)
(* parse_method_entry, _parse_intf_table, _parse_vtable).                  *)
THEOREM ScanTakesWhatIsThere == Spec => []RegionsSound
<1>1. SoFar => RegionsSound
  <2> SUFFICES ASSUME SoFar, pass = "done" PROVE \A v \in vmts : SoundAt(v)
    BY DEF RegionsSound, SoundAt
  <2> QED BY ClassesFound, ClassIsSound
<1>2. Spec => []SoFar
  BY SoFarInit, SoFarNext, PTL DEF Spec
<1> QED BY <1>1, <1>2, PTL

-----------------------------------------------------------------------------
(* What a parse reads of the bytes does not change.                        *)
LEMMA ItemsStable ==
  ASSUME image' = image
  PROVE  \A a, f : /\ Items(a, f)' = Items(a, f)
                   /\ ItemCount(Items(a, f))' = ItemCount(Items(a, f))
                   /\ ItemsEnd(a, f)' = ItemsEnd(a, f)
<1> SUFFICES ASSUME NEW a, NEW f
             PROVE  /\ Items(a, f)' = Items(a, f)
                    /\ ItemCount(Items(a, f))' = ItemCount(Items(a, f))
                    /\ ItemsEnd(a, f)' = ItemsEnd(a, f)
  OBVIOUS
<1> DEFINE items[i \in 0 .. MaxItems] ==
             IF i = 0 THEN a
             ELSE LET p == items[i - 1]
                  IN IF Byte(p) \in {None, 0} THEN None ELSE f[p]
<1>1. items' = items
  BY ReaderStable
<1>2. Items(a, f) = items /\ Items(a, f)' = items'
  BY DEF Items
<1> HIDE DEF items
<1>3. Items(a, f)' = Items(a, f)
  BY <1>1, <1>2
<1>4. \A x : Closed(x)' = Closed(x)
  BY ReaderStable DEF Closed
<1>5. \A x : ItemCount(x)' = ItemCount(x)
  BY <1>4 DEF ItemCount
<1>6. Closed(Items(a, f))' = Closed(Items(a, f)) /\ ItemCount(Items(a, f))' = ItemCount(Items(a, f))
  BY <1>3, <1>4, <1>5
<1> QED BY <1>3, <1>6 DEF ItemsEnd

LEMMA ValuesStable ==
  ASSUME image' = image PROVE ValueEnd' = ValueEnd
<1>1. \A a : Tag(a)' = Tag(a)
  BY ReaderStable DEF Tag
<1>2. \A a, n : Past(a, n)' = Past(a, n)
  BY ReaderStable DEF Past
<1>3. \A a, n : LongEnd(a, n)' = LongEnd(a, n)
  BY <1>2, ReaderStable DEF LongEnd
<1>4. \A a, f : ItemsEnd(a, f)' = ItemsEnd(a, f)
  BY ItemsStable
<1>5. \A a, f : PropsEndBy(a, f)' = PropsEndBy(a, f)
  BY <1>4, ReaderStable DEF PropsEndBy, PropEnds
<1>6. \A a, f : CollectionItemEnd(a, f)' = CollectionItemEnd(a, f)
  BY <1>1, <1>5 DEF CollectionItemEnd
<1>7. \A a, f : ValueEndBy(a, f)' = ValueEndBy(a, f)
  BY <1>1, <1>2, <1>3, <1>4, <1>6, ReaderStable DEF ValueEndBy
<1> QED BY <1>7 DEF ValueEnd

LEMMA ObjectsStable ==
  ASSUME image' = image
  PROVE  \A a : (HasMagic(a)' <=> HasMagic(a)) /\ ParseStream(a)' = ParseStream(a)
<1>1. \A a : Tag(a)' = Tag(a) /\ Chars(a)' = Chars(a)
  BY ReaderStable DEF Tag, Chars
<1>2. \A a : IsEvent(a)' <=> IsEvent(a)
  BY <1>1, ReaderStable DEF IsEvent
<1>3. \A a, f : ItemsEnd(a, f)' = ItemsEnd(a, f)
  BY ItemsStable
<1>4. \A a : PropsEnd(a)' = PropsEnd(a)
  BY <1>3, ReaderStable, ValuesStable DEF PropsEnd, PropsEndBy, PropEnds
<1>5. \A control, a : Events(control, a)' = Events(control, a)
  <2> SUFFICES ASSUME NEW control, NEW a PROVE Events(control, a)' = Events(control, a)
    OBVIOUS
  <2> DEFINE items == Items(a, PropEnds(ValueEnd))
             n == ItemCount(items)
             events == [i \in 1 .. n |-> EventOf(control, items[i - 1])]
  <2>1. \A c, p : EventOf(c, p)' = EventOf(c, p)
    BY <1>1, <1>2, ReaderStable DEF EventOf
  <2>2. PropEnds(ValueEnd)' = PropEnds(ValueEnd)
    BY ReaderStable, ValuesStable DEF PropEnds
  <2>3. items' = items /\ n' = n
    BY <2>2, ItemsStable
  <2>4. Events(control, a) = Joined(events) /\ Events(control, a)' = Joined(events')
    BY DEF Events
  <2>5. events' = events
    <3> HIDE DEF items, n
    <3> QED BY <2>1, <2>3
  <2> HIDE DEF events
  <2> QED BY <2>4, <2>5
<1>6. \A a : ClassAt(a)' = ClassAt(a)
  BY <1>1, ReaderStable, ValuesStable DEF ClassAt
<1>7. \A a : NameAt(a)' = NameAt(a) /\ PropsAt(a)' = PropsAt(a)
  BY <1>6, ReaderStable DEF NameAt, PropsAt
<1>8. \A a, d, b, f : ReadObjectBy(a, d, b, f)' = ReadObjectBy(a, d, b, f)
  BY <1>1, <1>4, <1>5, <1>7 DEF ReadObjectBy
<1>9. ReadChildren' = ReadChildren
  <2>1. \A a, d, b, t, f : ChildrenBy(a, d, b, t, f)' = ChildrenBy(a, d, b, t, f)
    BY <1>8, ReaderStable DEF ChildrenBy
  <2> QED BY <2>1 DEF ReadChildren
<1>10. \A a, d, b : ReadObject(a, d, b)' = ReadObject(a, d, b)
  BY <1>8, <1>9 DEF ReadObject
<1>11. \A a : HasMagic(a)' <=> HasMagic(a)
  BY ReaderStable DEF HasMagic
<1>12. \A a, root : StreamOf(a, root)' = StreamOf(a, root)
  BY <1>11 DEF StreamOf
<1>13. \A a : ParseStream(a)' = ParseStream(a)
  BY <1>10, <1>12 DEF ParseStream
<1> QED BY <1>11, <1>13

-----------------------------------------------------------------------------
(* What is parsed has its address, and two signatures share no byte.       *)
LEMMA ParsedFrom ==
  ASSUME NEW a, ParseStream(a) # NoStream
  PROVE  HasMagic(a) /\ ParseStream(a).addr = a + 4
<1>1. Len(MAGIC) = 4
  BY DEF MAGIC
<1> QED BY <1>1 DEF ParseStream, StreamOf

LEMMA SignaturesApart ==
  ASSUME NEW a \in Int, NEW b \in Int, HasMagic(a), HasMagic(b), a < b
  PROVE  a + 4 <= b
<1>1. Len(MAGIC) = 4 /\ MAGIC[1] = 84 /\ MAGIC[2] = 80 /\ MAGIC[3] = 70 /\ MAGIC[4] = 48
  BY DEF MAGIC
<1>2. image[b + 1 - 1] = 84
  BY <1>1 DEF HasMagic
<1>3. image[a + 2 - 1] = 80 /\ image[a + 3 - 1] = 70 /\ image[a + 4 - 1] = 48
  BY <1>1 DEF HasMagic
<1>4. b + 1 - 1 = b /\ a + 2 - 1 = a + 1 /\ a + 3 - 1 = a + 2 /\ a + 4 - 1 = a + 3
  OBVIOUS
<1>5. b # a + 1 /\ b # a + 2 /\ b # a + 3
  BY <1>2, <1>3, <1>4
<1> QED BY <1>5

(* One step of the search.                                                 *)
Taken(hits, known, a) == IF a \in hits THEN Extend(known, a, ParseStream(a)) ELSE known
FindNext(found, hits, from, f, a) == IF a = from THEN found ELSE Taken(hits, f[a - 1], a - 1)

LEMMA FindExists ==
  ASSUME NEW found, NEW hits, NEW from \in Nat, NEW to \in Nat, from <= to
  PROVE  \E f : f = [a \in from .. to |-> FindNext(found, hits, from, f, a)]
<1> DEFINE Bad == {m \in from .. to : ~\E f : f = [a \in from .. m |-> FindNext(found, hits, from, f, a)]}
<1>1. SUFFICES ASSUME Bad # {} PROVE FALSE
  OBVIOUS
<1>2. PICK m \in Bad : \A k \in Bad : m <= k
  <2>1. Bad \subseteq Nat
    OBVIOUS
  <2> HIDE DEF Bad
  <2> QED BY <1>1, <2>1, LeastNatural
<1>3. m # from
  <2> SUFFICES ASSUME m = from PROVE FALSE
    OBVIOUS
  <2> DEFINE f == [a \in from .. from |-> found]
  <2>1. f = [a \in from .. m |-> FindNext(found, hits, from, f, a)]
    BY DEF FindNext
  <2> QED BY <2>1
<1>4. PICK g : g = [a \in from .. m - 1 |-> FindNext(found, hits, from, g, a)]
  <2>1. m - 1 \in from .. to /\ m - 1 \notin Bad
    BY <1>2, <1>3
  <2> QED BY <2>1
<1> DEFINE h == [a \in from .. m |-> FindNext(found, hits, from, g, a)]
<1>5. \A a \in from .. m : FindNext(found, hits, from, h, a) = FindNext(found, hits, from, g, a)
  <2> TAKE a \in from .. m
  <2>1. CASE a = from
    BY <2>1 DEF FindNext
  <2>2. CASE a # from
    <3>1. a - 1 \in from .. m - 1 /\ a - 1 \in from .. m
      BY <2>2
    <3>2. h[a - 1] = g[a - 1]
      BY <1>4, <3>1
    <3> HIDE DEF h
    <3> QED BY <2>2, <3>2 DEF FindNext
  <2> QED BY <2>1, <2>2
<1>6. h = [a \in from .. m |-> FindNext(found, hits, from, h, a)]
  BY <1>5
<1> QED BY <1>6

LEMMA FindSteps ==
  ASSUME NEW found, NEW hits, NEW from \in Nat, NEW to \in Nat, from <= to
  PROVE  \E f : /\ f[from] = found /\ FindIn(found, hits, from, to) = f[to]
                /\ \A a \in from .. to - 1 : f[a + 1] = Taken(hits, f[a], a)
<1> DEFINE F == CHOOSE f : f = [a \in from .. to |-> FindNext(found, hits, from, f, a)]
<1>1. F = [a \in from .. to |-> FindNext(found, hits, from, F, a)]
  BY FindExists
<1>2. FindIn(found, hits, from, to) = F[to]
  BY Zenon DEF FindIn, FindNext, Taken
<1> HIDE DEF F
<1>3. \A a \in from .. to : F[a] = FindNext(found, hits, from, F, a)
  BY <1>1
<1>4. F[from] = found
  BY <1>3 DEF FindNext
<1>5. ASSUME NEW a \in from .. to - 1 PROVE F[a + 1] = Taken(hits, F[a], a)
  <2>1. a + 1 \in from .. to /\ a + 1 # from /\ (a + 1) - 1 = a
    OBVIOUS
  <2> QED BY <1>3, <2>1 DEF FindNext
<1> QED BY <1>2, <1>4, <1>5

-----------------------------------------------------------------------------
(* The streams found among the signatures below n.                         *)
Parsed == {ParseStream(a) : a \in Int}
Formed(a) == a \in CodeStart .. DataEnd - 4 /\ ParseStream(a) # NoStream
FoundUpto(n, found) ==
  /\ found \in Seq(Parsed)
  /\ \A i \in 1 .. Len(found) : \E a \in CodeStart .. n - 1 :
       /\ Formed(a) /\ found[i] = ParseStream(a)
       /\ \A j \in 1 .. i - 1 : ~(a < found[j].end)
  /\ \A i, j \in 1 .. Len(found) : i < j => found[i].addr < found[j].addr
  /\ \A a \in CodeStart .. n - 1 : Formed(a) =>
       \/ ParseStream(a) \in ToSet(found)
       \/ \E s \in ToSet(found) : s.addr < a + 4 /\ a < s.end

LEMMA TakenKeeps ==
  ASSUME NEW n \in CodeStart .. DataEnd - 1, NEW found, FoundUpto(n, found),
         NEW hits, n \in hits <=> n <= DataEnd - 4 /\ HasMagic(n)
  PROVE  FoundUpto(n + 1, Taken(hits, found, n))
<1> DEFINE s == ParseStream(n)
           inside == \E t \in ToSet(found) : n < t.end
<1>1. n \in Int /\ CodeStart \in Int /\ DataEnd \in Int /\ found \in Seq(Parsed) /\ s \in Parsed
  BY Bounds DEF FoundUpto, Parsed
<1>2. \A a : a \in CodeStart .. (n + 1) - 1 <=> a \in CodeStart .. n - 1 \/ a = n
  BY <1>1
<1>3. ASSUME NEW t \in ToSet(found) PROVE t.addr < n + 4
  <2>1. PICK i \in 1 .. Len(found) : t = found[i]
    BY <1>1, <1>3 DEF ToSet
  <2>2. PICK a \in CodeStart .. n - 1 : Formed(a) /\ found[i] = ParseStream(a)
    BY DEF FoundUpto
  <2>3. t.addr = a + 4
    BY <2>1, <2>2, ParsedFrom DEF Formed
  <2> QED BY <1>1, <2>2, <2>3
<1>4. CASE Formed(n) /\ ~inside
  <2> DEFINE new == Append(found, s)
  <2>1. s # NoStream /\ n \in hits
    <3>1. s # NoStream /\ n <= DataEnd - 4
      BY <1>1, <1>4 DEF Formed
    <3> QED BY <3>1, ParsedFrom
  <2>2. Taken(hits, found, n) = new
    BY <1>4, <2>1 DEF Taken, Extend
  <2>3. /\ new \in Seq(Parsed) /\ Len(new) = Len(found) + 1 /\ Len(found) \in Nat
        /\ new[Len(found) + 1] = s /\ \A i \in 1 .. Len(found) : new[i] = found[i]
    BY <1>1
  <2>4. \A t : t \in ToSet(new) <=> t \in ToSet(found) \/ t = s
    BY <1>1, <2>3 DEF ToSet
  <2> HIDE DEF new, s
  <2>5. ASSUME NEW i \in 1 .. Len(new)
        PROVE  \E a \in CodeStart .. (n + 1) - 1 :
                 /\ Formed(a) /\ new[i] = ParseStream(a)
                 /\ \A j \in 1 .. i - 1 : ~(a < new[j].end)
    <3>1. CASE i = Len(found) + 1
      <4>1. \A j \in 1 .. i - 1 : new[j] \in ToSet(found)
        BY <1>1, <2>3, <3>1 DEF ToSet
      <4>2. \A j \in 1 .. i - 1 : ~(n < new[j].end)
        BY <1>4, <4>1
      <4> QED BY <1>2, <1>4, <2>3, <3>1, <4>2 DEF s
    <3>2. CASE i # Len(found) + 1
      <4>1. i \in 1 .. Len(found)
        BY <2>3, <3>2
      <4>2. PICK a \in CodeStart .. n - 1 :
               /\ Formed(a) /\ found[i] = ParseStream(a)
               /\ \A j \in 1 .. i - 1 : ~(a < found[j].end)
        BY <4>1 DEF FoundUpto
      <4>3. \A j \in 1 .. i - 1 : j \in 1 .. Len(found)
        BY <2>3, <4>1
      <4>4. \A j \in 1 .. i - 1 : ~(a < new[j].end)
        BY <2>3, <4>2, <4>3
      <4> QED BY <1>2, <2>3, <4>1, <4>2, <4>4
    <3> QED BY <3>1, <3>2
  <2>6. ASSUME NEW i \in 1 .. Len(new), NEW j \in 1 .. Len(new), i < j
        PROVE  new[i].addr < new[j].addr
    <3>1. i \in 1 .. Len(found) /\ new[i] = found[i] /\ found[i] \in ToSet(found)
      BY <1>1, <2>3, <2>6 DEF ToSet
    <3>2. CASE j = Len(found) + 1
      <4>1. new[j].addr = n + 4
        BY <2>1, <2>3, <3>2, ParsedFrom DEF s
      <4> QED BY <1>3, <3>1, <4>1
    <3>3. CASE j # Len(found) + 1
      <4>1. j \in 1 .. Len(found) /\ new[j] = found[j]
        BY <2>3, <3>3
      <4> QED BY <2>6, <3>1, <4>1 DEF FoundUpto
    <3> QED BY <3>2, <3>3
  <2>7. ASSUME NEW a \in CodeStart .. (n + 1) - 1, Formed(a)
        PROVE  \/ ParseStream(a) \in ToSet(new)
               \/ \E t \in ToSet(new) : t.addr < a + 4 /\ a < t.end
    <3>1. CASE a = n
      BY <2>4, <3>1 DEF s
    <3>2. CASE a \in CodeStart .. n - 1
      BY <2>4, <2>7, <3>2 DEF FoundUpto
    <3> QED BY <1>2, <3>1, <3>2
  <2> QED BY <2>2, <2>3, <2>5, <2>6, <2>7 DEF FoundUpto
<1>5. CASE ~(Formed(n) /\ ~inside)
  <2>1. Taken(hits, found, n) = found
    <3>1. CASE n \in hits
      <4>1. n <= DataEnd - 4
        BY <3>1
      <4>2. s = NoStream \/ inside
        BY <1>1, <1>5, <4>1 DEF Formed
      <4> QED BY <3>1, <4>2 DEF Taken, Extend
    <3>2. CASE n \notin hits
      BY <3>2 DEF Taken
    <3> QED BY <3>1, <3>2
  <2>2. ASSUME NEW a \in CodeStart .. (n + 1) - 1, Formed(a)
        PROVE  \/ ParseStream(a) \in ToSet(found)
               \/ \E t \in ToSet(found) : t.addr < a + 4 /\ a < t.end
    <3>1. CASE a = n
      BY <1>3, <1>5, <2>2, <3>1
    <3>2. CASE a \in CodeStart .. n - 1
      BY <2>2, <3>2 DEF FoundUpto
    <3> QED BY <1>2, <3>1, <3>2
  <2>3. \A i \in 1 .. Len(found) : \E a \in CodeStart .. (n + 1) - 1 :
          /\ Formed(a) /\ found[i] = ParseStream(a)
          /\ \A j \in 1 .. i - 1 : ~(a < found[j].end)
    BY <1>2 DEF FoundUpto
  <2> QED BY <1>1, <2>1, <2>2, <2>3 DEF FoundUpto
<1> QED BY <1>4, <1>5

(* The hits of a block are the signatures that are there.                  *)
HitsAre(hits, from, to) ==
  \A a \in from .. to - 1 : a \in hits <=> a <= DataEnd - 4 /\ HasMagic(a)

LEMMA FindKeeps ==
  ASSUME NEW from \in Nat, NEW to \in Nat, from < to, CodeStart <= from, to <= DataEnd,
         NEW found, FoundUpto(from, found),
         NEW hits, HitsAre(hits, from, to)
  PROVE  FoundUpto(to, FindIn(found, hits, from, to))
<1>1. PICK f : /\ f[from] = found /\ FindIn(found, hits, from, to) = f[to]
               /\ \A a \in from .. to - 1 : f[a + 1] = Taken(hits, f[a], a)
  <2>1. from <= to
    OBVIOUS
  <2> QED BY <2>1, FindSteps
<1> DEFINE G == {a \in from .. to : FoundUpto(a, f[a])}
<1>2. ASSUME NEW a \in from .. to, a + 1 \in from .. to, a \in G PROVE a + 1 \in G
  <2>1. a \in from .. to - 1 /\ a \in CodeStart .. DataEnd - 1
    BY <1>2, Bounds
  <2>2. FoundUpto(a, f[a]) /\ (a \in hits <=> a <= DataEnd - 4 /\ HasMagic(a))
    BY <1>2, <2>1 DEF HitsAre
  <2>3. FoundUpto(a + 1, Taken(hits, f[a], a))
    BY <2>1, <2>2, TakenKeeps
  <2>4. FoundUpto(a + 1, f[a + 1])
    BY <1>1, <2>1, <2>3
  <2> QED BY <1>2, <2>4
<1>3. from \in G /\ from <= to /\ to \in from .. to
  BY <1>1
<1> HIDE DEF G
<1>4. \A a \in from .. to : a + 1 \in from .. to /\ a \in G => a + 1 \in G
  BY <1>2
<1>5. to \in G
  BY <1>3, <1>4, IntervalInduction
<1> QED BY <1>1, <1>5 DEF G

(* Each block of the last pass leaves what is up to the next.              *)
StreamsSoFar ==
  /\ pass \notin {"streams", "done", "cancelled"} => streams = <<>>
  /\ pass = "accept" => at = CodeStart
  /\ pass = "streams" => at \in CodeStart .. DataEnd - 1 /\ FoundUpto(at, streams)
  /\ pass = "done" => FoundUpto(DataEnd, streams)

LEMMA FoundStable ==
  ASSUME image' = image
  PROVE  \A n, found : FoundUpto(n, found)' <=> FoundUpto(n, found)
<1>1. Parsed' = Parsed
  BY ObjectsStable DEF Parsed
<1>2. \A a : Formed(a)' <=> Formed(a)
  BY ObjectsStable DEF Formed
<1> QED BY <1>1, <1>2, ObjectsStable DEF FoundUpto

LEMMA NothingFound == FoundUpto(CodeStart, <<>>)
<1>1. <<>> \in Seq(Parsed) /\ Len(<<>>) = 0
  OBVIOUS
<1>2. CodeStart .. CodeStart - 1 = {}
  BY Bounds
<1> QED BY <1>1, <1>2 DEF FoundUpto

LEMMA StreamsInit == Init => StreamsSoFar
BY DEF Init, StreamsSoFar

(* A block sees the signatures that begin in it and lie in the segment.    *)
LEMMA BlockSees ==
  ASSUME NEW from \in CodeStart .. DataEnd - 1, NEW stop, stop = Least(from + FormChunk, DataEnd)
  PROVE  /\ from \in Nat /\ stop \in Nat /\ from < stop /\ stop <= DataEnd
         /\ \A a \in from .. stop - 1 :
              a \in Signatures(from, stop) <=> a <= DataEnd - 4 /\ HasMagic(a)
<1>1. FormChunk \in Nat /\ FormChunk >= 1 /\ from \in Nat /\ from < DataEnd /\ DataEnd \in Nat
  BY Bounds, ScannerAssumption
<1>2. stop \in Nat /\ from < stop /\ stop <= DataEnd
  BY <1>1 DEF Least
<1>3. Len(MAGIC) = 4
  BY DEF MAGIC
<1> DEFINE ahead == Least(stop + 4 - 1, DataEnd)
<1>4. /\ ahead \in Int
      /\ (ahead = stop + 3 /\ stop + 3 <= DataEnd) \/ (ahead = DataEnd /\ DataEnd <= stop + 3)
  BY <1>1, <1>2 DEF Least
<1>5. Signatures(from, stop) = {a \in from .. stop - 1 : a + 4 <= ahead /\ HasMagic(a)}
  BY <1>3 DEF Signatures
<1> HIDE DEF ahead
<1>6. \A a \in from .. stop - 1 : a + 4 <= ahead <=> a <= DataEnd - 4
  BY <1>1, <1>2, <1>4
<1> QED BY <1>1, <1>2, <1>5, <1>6

LEMMA StreamsNext == SoFar /\ StreamsSoFar /\ [Next]_vars => StreamsSoFar'
<1> SUFFICES ASSUME SoFar, StreamsSoFar, [Next]_vars PROVE StreamsSoFar'
  OBVIOUS
<1>1. CASE Detect \/ ScanRecords \/ ScanLinked \/ ScanStrings \/ ScanRuns \/ ScanReferences
  <2>1. /\ pass' = "accept" => at' = CodeStart
        /\ pass \notin {"streams", "done", "cancelled"} /\ streams' = streams
        /\ pass' \notin {"streams", "done", "cancelled"}
    BY <1>1 DEF Detect, ScanRecords, ScanLinked, ScanStrings, ScanRuns, ScanReferences, Advance
  <2> QED BY <2>1 DEF StreamsSoFar
<1>2. CASE Accept
  <2>1. pass = "accept" /\ pass' = "streams" /\ streams' = streams /\ at' = at /\ image' = image
    BY <1>2 DEF Accept
  <2>2. streams = <<>>
    BY <2>1 DEF StreamsSoFar
  <2>3. at = CodeStart
    BY <2>1 DEF StreamsSoFar
  <2>4. FoundUpto(at, streams)'
    BY <2>1, <2>2, <2>3, NothingFound, FoundStable
  <2>5. at' \in CodeStart .. DataEnd - 1
    <3>1. at' = CodeStart /\ CodeStart \in Nat /\ DataEnd \in Nat /\ CodeStart < DataEnd
      BY <2>1, <2>3, ReaderAssumption
    <3> QED BY <3>1
  <2> QED BY <2>1, <2>4, <2>5 DEF StreamsSoFar
<1>3. CASE ScanStreams
  <2>1. /\ pass = "streams" /\ image' = image /\ at \in CodeStart .. DataEnd - 1
        /\ FoundUpto(at, streams)
    BY <1>3 DEF ScanStreams, StreamsSoFar
  <2>2. PICK stop \in Nat : stop = Least(at + FormChunk, DataEnd)
    BY <2>1, BlockSees
  <2>3. /\ streams' = FindIn(streams, Signatures(at, stop), at, stop)
        /\ Advance(stop, DataEnd, "done")
    BY <1>3, <2>2 DEF ScanStreams
  <2>4. /\ at \in Nat /\ at < stop /\ stop <= DataEnd
        /\ \A a \in at .. stop - 1 :
             a \in Signatures(at, stop) <=> a <= DataEnd - 4 /\ HasMagic(a)
    BY <2>1, <2>2, BlockSees
  <2>5. FoundUpto(stop, streams')
    <3>1. CodeStart <= at
      BY <2>1, Bounds
    <3> QED BY <2>1, <2>3, <2>4, <3>1, FindKeeps DEF HitsAre
  <2>6. FoundUpto(stop, streams)'
    BY <2>1, <2>5, FoundStable
  <2>7. CASE stop < DataEnd
    <3>1. pass' = "streams" /\ at' = stop
      BY <2>1, <2>3, <2>7 DEF Advance
    <3>2. stop \in CodeStart .. DataEnd - 1
      BY <2>1, <2>4, <2>7, Bounds
    <3>3. FoundUpto(at, streams)'
      BY <2>6, <3>1
    <3> QED BY <3>1, <3>2, <3>3, Bounds DEF StreamsSoFar
  <2>8. CASE ~(stop < DataEnd)
    <3>1. pass' = "done" /\ stop = DataEnd
      BY <2>3, <2>4, <2>8, Bounds DEF Advance
    <3> QED BY <2>6, <3>1 DEF StreamsSoFar
  <2> QED BY <2>7, <2>8
<1>4. CASE Cancel
  BY <1>4 DEF Cancel, StreamsSoFar
<1>5. CASE UNCHANGED vars
  <2>1. pass' = pass /\ at' = at /\ streams' = streams /\ image' = image
    BY <1>5 DEF vars
  <2>2. FoundUpto(at, streams)' <=> FoundUpto(at, streams)
    BY <2>1, FoundStable
  <2>3. FoundUpto(DataEnd, streams)' <=> FoundUpto(DataEnd, streams)
    BY <2>1, FoundStable
  <2> QED BY <2>1, <2>2, <2>3 DEF StreamsSoFar
<1>6. CASE Ended
  BY <1>5, <1>6 DEF Ended
<1> QED BY <1>1, <1>2, <1>3, <1>4, <1>5, <1>6 DEF Next

-----------------------------------------------------------------------------
(* Where something ends that begins at a: nowhere, or further on, with all *)
(* between there to be read.                                               *)
Ahead(a, end) == end = None \/ (a < end /\ Whole(a, end))
AheadFrom(a, f) == \A p \in Nat : p >= a => Ahead(p, f[p])
ItemNext(p, f) == IF Byte(p) \in {None, 0} THEN None ELSE f[p]

LEMMA NothingBefore ==
  ASSUME image \in Images, NEW p, Byte(p) # None
  PROVE  p \in Nat /\ p # None
<1>1. p \in DOMAIN image
  BY DEF Byte
<1> QED BY <1>1, ScannerAssumption DEF None

(* Where items begin: one behind the other, all there.                     *)
LEMMA ItemsFacts ==
  ASSUME image \in Images, NEW a \in Int, NEW f, AheadFrom(a, f)
  PROVE  /\ Items(a, f)[0] = a
         /\ \A i \in 1 .. MaxItems : Items(a, f)[i] = ItemNext(Items(a, f)[i - 1], f)
         /\ \A i \in 1 .. MaxItems : Items(a, f)[i] = None \/ Whole(a, Items(a, f)[i])
<1> DEFINE T == {None} \union {p \in Int : p >= a}
           step == [p \in T |-> ItemNext(p, f)]
           next(g, i) == IF i = 0 THEN a ELSE LET p == g[i - 1] IN IF Byte(p) \in {None, 0} THEN None ELSE f[p]
           F == CHOOSE g : g = [i \in 0 .. MaxItems |-> next(g, i)]
<1>0. MaxItems \in Nat
  BY FormsAssumption
<1>1. ASSUME NEW p \in T, ItemNext(p, f) # None
      PROVE  p \in Nat /\ p >= a /\ p < f[p] /\ Whole(p, f[p]) /\ ItemNext(p, f) = f[p]
  <2>1. Byte(p) \notin {None, 0} /\ ItemNext(p, f) = f[p]
    BY <1>1 DEF ItemNext
  <2>2. p \in Nat /\ p >= a
    BY <2>1, NothingBefore
  <2>3. Ahead(p, f[p])
    BY <2>2 DEF AheadFrom
  <2> QED BY <1>1, <2>1, <2>2, <2>3 DEF Ahead
<1>2. step \in [T -> T] /\ a \in T
  <2>1. ASSUME NEW p \in T PROVE ItemNext(p, f) \in T
    <3>1. CASE ItemNext(p, f) = None
      BY <3>1
    <3>2. CASE ItemNext(p, f) # None
      <4>1. p \in Nat /\ p >= a /\ p < f[p] /\ f[p] \in Int /\ ItemNext(p, f) = f[p]
        BY <1>1, <3>2 DEF Whole
      <4> QED BY <4>1
    <3> QED BY <3>1, <3>2
  <2> QED BY <2>1
<1>3. PICK g \in [0 .. MaxItems -> T] : Stepwise(g, 0, MaxItems, a, step)
  <2> HIDE DEF step, T
  <2>1. 0 \in Nat /\ 0 <= MaxItems
    BY <1>0
  <2> QED BY <1>0, <1>2, <2>1, StepsExist
<1>4. g = [i \in 0 .. MaxItems |-> next(g, i)]
  <2>1. ASSUME NEW i \in 0 .. MaxItems PROVE g[i] = next(g, i)
    <3>1. g[i] = IF i = 0 THEN a ELSE step[g[i - 1]]
      BY <1>3 DEF Stepwise
    <3>2. i # 0 => g[i - 1] \in T
      <4>1. i # 0 => i - 1 \in 0 .. MaxItems
        BY <1>0
      <4> HIDE DEF T
      <4> QED BY <4>1
    <3>3. i # 0 => step[g[i - 1]] = ItemNext(g[i - 1], f)
      <4> HIDE DEF T
      <4> QED BY <3>2
    <3> HIDE DEF step, T
    <3> QED BY <3>1, <3>3 DEF ItemNext
  <2> HIDE DEF next, T
  <2> QED BY <2>1
<1>5. F = [i \in 0 .. MaxItems |-> next(F, i)]
  <2> HIDE DEF next, T
  <2> QED BY <1>4
<1>6. Items(a, f) = F
  BY Zenon DEF Items
<1>7. \A i \in 0 .. MaxItems : F[i] = next(F, i)
  <2> HIDE DEF next, F
  <2> QED BY <1>5
<1> HIDE DEF F
<1>8. F[0] = a
  BY <1>0, <1>7
<1>9. \A i \in 1 .. MaxItems : F[i] = ItemNext(F[i - 1], f)
  <2> TAKE i \in 1 .. MaxItems
  <2>1. i \in 0 .. MaxItems /\ i # 0
    BY <1>0
  <2> QED BY <1>7, <2>1 DEF ItemNext
<1>10. \A i \in 0 .. MaxItems : F[i] = None \/ Whole(a, F[i])
  <2> DEFINE G == {k \in 0 .. MaxItems : F[k] = None \/ Whole(a, F[k])}
  <2>1. 0 \in G
    BY <1>0, <1>8 DEF Whole
  <2>2. ASSUME NEW k \in 0 .. MaxItems, k + 1 \in 0 .. MaxItems, k \in G PROVE k + 1 \in G
    <3>1. k + 1 \in 1 .. MaxItems /\ (k + 1) - 1 = k
      BY <1>0, <2>2
    <3>2. F[k + 1] = ItemNext(F[k], f) /\ (F[k] = None \/ Whole(a, F[k]))
      BY <1>9, <2>2, <3>1
    <3>3. F[k] \in T
      BY <3>2 DEF Whole
    <3>4. CASE ItemNext(F[k], f) = None
      BY <2>2, <3>2, <3>4
    <3>5. CASE ItemNext(F[k], f) # None
      <4> HIDE DEF T
      <4>1. F[k] \in Nat /\ Whole(F[k], ItemNext(F[k], f))
        BY <1>1, <3>3, <3>5
      <4>2. Whole(a, F[k])
        BY <3>2, <4>1, NothingBefore DEF None
      <4>3. Whole(a, F[k + 1])
        BY <3>2, <4>1, <4>2, WholeJoins
      <4> QED BY <2>2, <4>3
    <3> QED BY <3>4, <3>5
  <2>3. \A k \in 0 .. MaxItems : k + 1 \in 0 .. MaxItems /\ k \in G => k + 1 \in G
    BY <2>2
  <2>4. 0 \in Nat /\ 0 <= MaxItems
    BY <1>0
  <2> HIDE DEF G
  <2>5. \A k \in 0 .. MaxItems : k \in G
    BY <1>0, <2>1, <2>3, <2>4, IntervalInduction
  <2> QED BY <2>5 DEF G
<1>11. \A i \in 1 .. MaxItems : i \in 0 .. MaxItems
  BY <1>0
<1> QED BY <1>6, <1>8, <1>9, <1>10, <1>11

(* Items end further on, wherever the first of them begins.                *)
LEMMA ItemsAhead ==
  ASSUME image \in Images, NEW a \in Int, NEW f, AheadFrom(a, f)
  PROVE  Ahead(a, ItemsEnd(a, f))
<1> DEFINE items == Items(a, f)
           closed == {i \in 0 .. MaxItems - 1 : Byte(items[i]) = 0}
<1>1. /\ items[0] = a
      /\ \A i \in 1 .. MaxItems : items[i] = None \/ Whole(a, items[i])
      /\ ItemsEnd(a, f) = IF closed = {} THEN None
                          ELSE items[CHOOSE i \in closed : TRUE] + 1
  BY ItemsFacts DEF ItemsEnd, Closed, ItemCount
<1> HIDE DEF items
<1>2. CASE closed = {}
  BY <1>1, <1>2 DEF Ahead
<1>3. CASE closed # {}
  <2>1. PICK i \in closed : ItemsEnd(a, f) = items[i] + 1
    BY <1>1, <1>3
  <2>2. Byte(items[i]) # None /\ (i = 0 \/ i \in 1 .. MaxItems)
    BY FormsAssumption DEF None
  <2>3. items[i] \in Nat /\ items[i] # None
    BY <2>2, NothingBefore
  <2>4. Whole(items[i], items[i] + 1)
    BY <2>2, <2>3, ByteWhole
  <2>5. Whole(a, items[i])
    <3>1. CASE i = 0
      BY <1>1, <3>1 DEF Whole
    <3>2. CASE i # 0
      BY <1>1, <2>2, <2>3, <3>2
    <3> QED BY <3>1, <3>2
  <2>6. Whole(a, items[i] + 1)
    BY <2>4, <2>5, WholeJoins
  <2>7. a < items[i] + 1
    BY <2>3, <2>5 DEF Whole
  <2> HIDE DEF closed
  <2> QED BY <2>1, <2>6, <2>7 DEF Ahead
<1> QED BY <1>2, <1>3

(* They end where they do by what lies ahead alone.                        *)
LEMMA ItemsSame ==
  ASSUME image \in Images, NEW a \in Int, NEW f, AheadFrom(a, f),
         NEW g, \A p \in Nat : p >= a => f[p] = g[p]
  PROVE  ItemsEnd(a, g) = ItemsEnd(a, f)
<1> DEFINE x == Items(a, f)
           y == Items(a, g)
<1>1. AheadFrom(a, g)
  BY DEF AheadFrom
<1>2. /\ x[0] = a
      /\ \A i \in 1 .. MaxItems : x[i] = ItemNext(x[i - 1], f)
      /\ \A i \in 1 .. MaxItems : x[i] = None \/ Whole(a, x[i])
  BY ItemsFacts
<1>3. /\ y[0] = a
      /\ \A i \in 1 .. MaxItems : y[i] = ItemNext(y[i - 1], g)
  BY <1>1, ItemsFacts
<1> DEFINE byX == {i \in 0 .. MaxItems - 1 : Byte(x[i]) = 0}
           byY == {i \in 0 .. MaxItems - 1 : Byte(y[i]) = 0}
<1>9. ItemsEnd(a, f) = IF byX = {} THEN None ELSE x[CHOOSE i \in byX : TRUE] + 1
  BY DEF ItemsEnd, Closed, ItemCount
<1>10. ItemsEnd(a, g) = IF byY = {} THEN None ELSE y[CHOOSE i \in byY : TRUE] + 1
  BY DEF ItemsEnd, Closed, ItemCount
<1> HIDE DEF x, y
<1>4. MaxItems \in Nat
  BY FormsAssumption
<1> DEFINE G == {i \in 0 .. MaxItems : x[i] = y[i]}
<1>5. 0 \in G
  BY <1>2, <1>3, <1>4
<1>6. ASSUME NEW k \in 0 .. MaxItems, k + 1 \in 0 .. MaxItems, k \in G PROVE k + 1 \in G
  <2>1. k + 1 \in 1 .. MaxItems /\ (k + 1) - 1 = k /\ (k = 0 \/ k \in 1 .. MaxItems)
    BY <1>4, <1>6
  <2>2. x[k] = y[k] /\ x[k + 1] = ItemNext(x[k], f) /\ y[k + 1] = ItemNext(x[k], g)
    BY <1>2, <1>3, <1>6, <2>1
  <2>3. x[k] = None \/ Whole(a, x[k])
    BY <1>2, <2>1 DEF Whole
  <2>4. ItemNext(x[k], f) = ItemNext(x[k], g)
    <3>1. CASE Byte(x[k]) \in {None, 0}
      BY <3>1 DEF ItemNext
    <3>2. CASE Byte(x[k]) \notin {None, 0}
      <4>1. x[k] \in Nat /\ x[k] # None
        BY <3>2, NothingBefore
      <4>2. x[k] >= a
        BY <2>3, <4>1 DEF Whole
      <4> QED BY <3>2, <4>1, <4>2 DEF ItemNext
    <3> QED BY <3>1, <3>2
  <2> QED BY <1>6, <2>2, <2>4
<1>7. \A i \in 0 .. MaxItems : x[i] = y[i]
  <2>1. \A k \in 0 .. MaxItems : k + 1 \in 0 .. MaxItems /\ k \in G => k + 1 \in G
    BY <1>6
  <2>2. 0 \in Nat /\ 0 <= MaxItems
    BY <1>4
  <2> HIDE DEF G
  <2>3. \A k \in 0 .. MaxItems : k \in G
    BY <1>4, <1>5, <2>1, <2>2, IntervalInduction
  <2> QED BY <2>3 DEF G
<1>8. byX = byY /\ byX \subseteq 0 .. MaxItems
  BY <1>4, <1>7
<1> HIDE DEF byX, byY
<1>11. byX # {} => (CHOOSE i \in byX : TRUE) \in 0 .. MaxItems
  BY <1>8
<1> QED BY <1>7, <1>8, <1>9, <1>10, <1>11

-----------------------------------------------------------------------------
(* Values end further on, by what lies ahead alone.                        *)
LEMMA NameAhead ==
  ASSUME image \in Images, NEW a \in Int
  PROVE  Ahead(a, NameEnd(a)) /\ Ahead(a, StrEnd(a))
<1>1. Ahead(a, StrEnd(a))
  BY StrWhole DEF Ahead
<1> QED BY <1>1 DEF NameEnd, Ahead

(* One thing behind another. *)
LEMMA AheadJoins ==
  ASSUME NEW a, NEW b, NEW c, Ahead(a, b), b # None, Ahead(b, c)
  PROVE  Ahead(a, c)
BY DEF Ahead, Whole

LEMMA AheadLater ==
  ASSUME NEW a \in Int, NEW b \in Int, a <= b, NEW f, AheadFrom(a, f)
  PROVE  AheadFrom(b, f)
BY DEF AheadFrom

LEMMA TagAhead ==
  ASSUME image \in Images, NEW a, Tag(a) # "none"
  PROVE  a \in Nat /\ Whole(a, a + 1) /\ Ahead(a, a + 1)
<1>1. Byte(a) + 1 \in DOMAIN VALUE_TYPES
  BY DEF Tag
<1>2. Byte(a) # None
  <2>1. DOMAIN VALUE_TYPES = 1 .. 22
    BY DEF VALUE_TYPES
  <2> QED BY <1>1, <2>1 DEF None
<1>3. a \in Nat /\ Whole(a, a + 1)
  BY <1>2, NothingBefore, ByteWhole
<1> QED BY <1>3 DEF Ahead

LEMMA PropsAhead ==
  ASSUME image \in Images, NEW a \in Int, NEW f, AheadFrom(a, f)
  PROVE  /\ Ahead(a, PropsEndBy(a, f))
         /\ \A g : (\A p \in Nat : p >= a => f[p] = g[p]) => PropsEndBy(a, g) = PropsEndBy(a, f)
<1> DEFINE by(h) == [p \in Nat |-> IF NameEnd(p) = None THEN None ELSE h[NameEnd(p)]]
<1>1. ASSUME NEW p \in Nat, p >= a, NameEnd(p) # None
      PROVE  NameEnd(p) \in Nat /\ NameEnd(p) >= a /\ Ahead(p, f[NameEnd(p)])
  <2>1. Ahead(p, NameEnd(p)) /\ p < NameEnd(p) /\ NameEnd(p) \in Int
    BY <1>1, NameAhead DEF Ahead, Whole
  <2>2. NameEnd(p) \in Nat /\ NameEnd(p) >= a
    BY <1>1, <2>1
  <2>3. Ahead(NameEnd(p), f[NameEnd(p)])
    BY <2>2 DEF AheadFrom
  <2>4. Ahead(p, f[NameEnd(p)])
    BY <1>1, <2>1, <2>3, AheadJoins
  <2> QED BY <2>2, <2>4
<1>2. AheadFrom(a, by(f))
  <2> SUFFICES ASSUME NEW p \in Nat, p >= a PROVE Ahead(p, by(f)[p])
    BY DEF AheadFrom
  <2>1. CASE NameEnd(p) = None
    BY <2>1 DEF Ahead
  <2>2. CASE NameEnd(p) # None
    BY <1>1, <2>2
  <2> QED BY <2>1, <2>2
<1>3. ASSUME NEW g, \A p \in Nat : p >= a => f[p] = g[p]
      PROVE  ItemsEnd(a, by(g)) = ItemsEnd(a, by(f))
  <2>1. \A p \in Nat : p >= a => by(f)[p] = by(g)[p]
    BY <1>1, <1>3
  <2> HIDE DEF by
  <2> QED BY <1>2, <2>1, ItemsSame
<1> HIDE DEF by
<1>4. Ahead(a, ItemsEnd(a, by(f)))
  BY <1>2, ItemsAhead
<1> QED BY <1>3, <1>4 DEF PropsEndBy, PropEnds, by

LEMMA CollectionItemAhead ==
  ASSUME image \in Images, NEW a \in Int, NEW f, AheadFrom(a, f), NEW p \in Nat, p >= a
  PROVE  /\ Ahead(p, CollectionItemEnd(p, f))
         /\ \A g : (\A x \in Nat : x >= a => f[x] = g[x]) =>
              CollectionItemEnd(p, g) = CollectionItemEnd(p, f)
<1> DEFINE start(h) == IF Tag(p) \in INT_TAGS THEN h[p] ELSE p
           q == start(f)
<1>1. q = p \/ Ahead(p, q)
  BY DEF AheadFrom
<1>2. \A g : (\A x \in Nat : x >= a => f[x] = g[x]) => start(g) = q
  OBVIOUS
<1>3. \A h : CollectionItemEnd(p, h) =
         IF start(h) = None \/ Tag(start(h)) # "vaList" THEN None ELSE PropsEndBy(start(h) + 1, h)
  BY DEF CollectionItemEnd
<1> HIDE DEF start
<1>4. CASE q = None \/ Tag(q) # "vaList"
  <2>1. CollectionItemEnd(p, f) = None
    BY <1>3, <1>4
  <2>2. ASSUME NEW g, \A x \in Nat : x >= a => f[x] = g[x] PROVE CollectionItemEnd(p, g) = None
    <3>1. start(g) = q
      BY <1>2, <2>2
    <3> QED BY <1>3, <1>4, <3>1
  <2> QED BY <2>1, <2>2 DEF Ahead
<1>5. CASE q # None /\ Tag(q) = "vaList"
  <2>1. q \in Nat /\ Ahead(q, q + 1) /\ q + 1 # None
    <3>1. Tag(q) # "none"
      BY <1>5
    <3>2. q \in Nat /\ Ahead(q, q + 1)
      BY <3>1, TagAhead
    <3> QED BY <3>2 DEF None
  <2>2. p <= q
    <3>1. q = p \/ p < q
      BY <1>1, <1>5 DEF Ahead
    <3> QED BY <2>1, <3>1
  <2>3. AheadFrom(q + 1, f) /\ q + 1 \in Int /\ q + 1 >= a
    <3>1. a <= q + 1 /\ q + 1 \in Int
      BY <2>1, <2>2
    <3> QED BY <3>1, AheadLater
  <2>4. Ahead(q + 1, PropsEndBy(q + 1, f))
    BY <2>3, PropsAhead
  <2>5. Ahead(p, q + 1)
    <3>1. CASE q = p
      BY <2>1, <3>1
    <3>2. CASE q # p
      BY <1>1, <1>5, <2>1, <3>2, AheadJoins
    <3> QED BY <3>1, <3>2
  <2>6. Ahead(p, CollectionItemEnd(p, f))
    <3>1. CollectionItemEnd(p, f) = PropsEndBy(q + 1, f)
      BY <1>3, <1>5
    <3> QED BY <2>1, <2>4, <2>5, <3>1, AheadJoins
  <2>7. ASSUME NEW g, \A x \in Nat : x >= a => f[x] = g[x]
        PROVE  CollectionItemEnd(p, g) = CollectionItemEnd(p, f)
    <3>1. start(g) = q
      BY <1>2, <2>7
    <3>2. CollectionItemEnd(p, g) = PropsEndBy(q + 1, g) /\ CollectionItemEnd(p, f) = PropsEndBy(q + 1, f)
      BY <1>3, <1>5, <3>1
    <3>3. \A x \in Nat : x >= q + 1 => f[x] = g[x]
      BY <2>1, <2>3, <2>7
    <3>4. PropsEndBy(q + 1, g) = PropsEndBy(q + 1, f)
      BY <2>3, <3>3, PropsAhead
    <3> QED BY <3>2, <3>4
  <2> QED BY <2>6, <2>7
<1> QED BY <1>4, <1>5

LEMMA LongAhead ==
  ASSUME image \in Images, NEW a \in Int, NEW width \in {1, 2}
  PROVE  Ahead(a, LongEnd(a, width))
<1> DEFINE n == Word(a)
           m == n * width
<1>1. CASE LongEnd(a, width) = None
  BY <1>1 DEF Ahead
<1>2. CASE LongEnd(a, width) # None
  <2>1. n # None /\ LongEnd(a, width) = Past(a + 2, m) /\ Past(a + 2, m) # None
    BY <1>2 DEF LongEnd, Width
  <2>2. n \in Nat /\ Whole(a, a + 2)
    BY <2>1, WordWhole
  <2>3. m \in Nat
    <3> HIDE DEF n
    <3>1. width = 1 \/ width = 2
      OBVIOUS
    <3> QED BY <2>2, <3>1
  <2> HIDE DEF m, n
  <2>4. Readable(a + 2, m) /\ Past(a + 2, m) = a + 2 + m
    BY <2>1 DEF Past
  <2>5. Whole(a + 2, a + 2 + m)
    BY <2>3, <2>4, WholeIsReadable
  <2>6. Whole(a, a + 2 + m) /\ a < a + 2 + m
    BY <2>2, <2>3, <2>5, WholeJoins
  <2> QED BY <2>1, <2>4, <2>6 DEF Ahead
<1> QED BY <1>1, <1>2

LEMMA ValueAhead ==
  ASSUME image \in Images, NEW a \in Nat, NEW f, AheadFrom(a + 1, f)
  PROVE  /\ Ahead(a, ValueEndBy(a, f))
         /\ \A g : (\A p \in Nat : p >= a + 1 => f[p] = g[p]) => ValueEndBy(a, g) = ValueEndBy(a, f)
<1> DEFINE tag == Tag(a)
           b == a + 1
<1>1. b \in Int /\ AheadFrom(b, f)
  OBVIOUS
<1>2. DOMAIN FixedSize = {"vaNull", "vaFalse", "vaTrue", "vaNil", "vaInt8", "vaInt16", "vaInt32",
                          "vaSingle", "vaExtended", "vaCurrency", "vaDate", "vaInt64", "vaDouble"}
      /\ \A t \in DOMAIN FixedSize : FixedSize[t] \in Nat
  BY DEF FixedSize
<1>3. ASSUME NEW end, tag # "none", Ahead(b, end) PROVE Ahead(a, end)
  <2>1. Ahead(a, b) /\ b # None
    BY <1>3, TagAhead DEF None
  <2> QED BY <1>3, <2>1, AheadJoins
<1> HIDE DEF tag
<1>4. CASE tag \in DOMAIN FixedSize
  <2> DEFINE n == FixedSize[tag]
  <2>1. \A h : ValueEndBy(a, h) = Past(b, n)
    BY <1>2, <1>4 DEF ValueEndBy, tag
  <2>2. n \in Nat
    BY <1>2, <1>4
  <2>3. tag # "none"
    BY <1>2, <1>4
  <2> HIDE DEF n
  <2>4. CASE Past(b, n) = None
    BY <2>1, <2>4 DEF Ahead
  <2>5. CASE Past(b, n) # None
    <3>1. Readable(b, n) /\ Past(b, n) = b + n
      BY <2>5 DEF Past
    <3>2. Whole(b, b + n)
      BY <2>2, <3>1, WholeIsReadable
    <3>3. Whole(a, b)
      BY <2>3, TagAhead DEF tag
    <3>4. Whole(a, b + n) /\ a < b + n
      BY <2>2, <3>2, <3>3, WholeJoins
    <3> QED BY <2>1, <3>1, <3>4 DEF Ahead
  <2> QED BY <2>4, <2>5
<1>5. CASE tag \in {"vaString", "vaIdent"}
  <2>1. \A h : ValueEndBy(a, h) = StrEnd(b)
    BY <1>2, <1>5 DEF ValueEndBy, tag
  <2> QED BY <1>1, <1>3, <1>5, <2>1, NameAhead
<1>6. CASE tag \in {"vaBinary", "vaLString", "vaUTF8String"}
  <2>1. \A h : ValueEndBy(a, h) = LongEnd(b, 1)
    BY <1>2, <1>6 DEF ValueEndBy, tag
  <2> QED BY <1>1, <1>3, <1>6, <2>1, LongAhead
<1>7. CASE tag = "vaWString"
  <2>1. \A h : ValueEndBy(a, h) = LongEnd(b, 2)
    BY <1>2, <1>7 DEF ValueEndBy, tag
  <2> QED BY <1>1, <1>3, <1>7, <2>1, LongAhead
<1>8. CASE tag = "vaSet"
  <2> DEFINE names == [p \in Nat |-> NameEnd(p)]
  <2>1. \A h : ValueEndBy(a, h) = ItemsEnd(b, names)
    BY <1>2, <1>8 DEF ValueEndBy, tag
  <2>2. AheadFrom(b, names)
    BY NameAhead DEF AheadFrom
  <2> HIDE DEF names
  <2>3. Ahead(b, ItemsEnd(b, names))
    BY <1>1, <2>2, ItemsAhead
  <2> QED BY <1>3, <1>8, <2>1, <2>3
<1>9. CASE tag = "vaList"
  <2>1. \A h : ValueEndBy(a, h) = ItemsEnd(b, h)
    BY <1>2, <1>9 DEF ValueEndBy, tag
  <2>2. Ahead(b, ItemsEnd(b, f))
    BY <1>1, ItemsAhead
  <2>3. \A g : (\A p \in Nat : p >= b => f[p] = g[p]) => ItemsEnd(b, g) = ItemsEnd(b, f)
    BY <1>1, ItemsSame
  <2> QED BY <1>3, <1>9, <2>1, <2>2, <2>3
<1>10. CASE tag = "vaCollection"
  <2> DEFINE items(h) == [p \in Nat |-> CollectionItemEnd(p, h)]
  <2>1. \A h : ValueEndBy(a, h) = ItemsEnd(b, items(h))
    BY <1>2, <1>10 DEF ValueEndBy, tag
  <2>2. AheadFrom(b, items(f))
    <3>1. \A p \in Nat : p >= b => Ahead(p, CollectionItemEnd(p, f))
      BY <1>1, CollectionItemAhead
    <3> QED BY <3>1 DEF AheadFrom
  <2>3. ASSUME NEW g, \A p \in Nat : p >= b => f[p] = g[p]
        PROVE  ItemsEnd(b, items(g)) = ItemsEnd(b, items(f))
    <3>1. \A p \in Nat : p >= b => CollectionItemEnd(p, g) = CollectionItemEnd(p, f)
      BY <1>1, <2>3, CollectionItemAhead
    <3>2. \A p \in Nat : p >= b => items(f)[p] = items(g)[p]
      BY <3>1
    <3> HIDE DEF items
    <3> QED BY <1>1, <2>2, <3>2, ItemsSame
  <2> HIDE DEF items
  <2>4. Ahead(b, ItemsEnd(b, items(f)))
    BY <1>1, <2>2, ItemsAhead
  <2> QED BY <1>3, <1>10, <2>1, <2>3, <2>4
<1>11. CASE tag \notin (DOMAIN FixedSize) \union
             {"vaString", "vaIdent", "vaBinary", "vaLString", "vaUTF8String", "vaWString",
              "vaSet", "vaList", "vaCollection"}
  <2>1. \A h : ValueEndBy(a, h) = None
    BY <1>2, <1>11 DEF ValueEndBy, tag
  <2> QED BY <2>1 DEF Ahead
<1> QED BY <1>4, <1>5, <1>6, <1>7, <1>8, <1>9, <1>10, <1>11

-----------------------------------------------------------------------------
(* An image ends somewhere. *)
LEMMA ImageEnds ==
  ASSUME image \in Images
  PROVE  \E n \in Nat : \A a : Byte(a) # None => a < n
<1>1. IsFiniteSet(DOMAIN image) /\ DOMAIN image \subseteq Nat
  BY ScannerAssumption
<1>2. CASE DOMAIN image = {}
  BY <1>2 DEF Byte
<1>3. CASE DOMAIN image # {}
  <2> DEFINE f == [a \in DOMAIN image |-> a]
  <2>1. \A a \in DOMAIN image : f[a] \in Nat
    BY <1>1
  <2> HIDE DEF f
  <2>2. PICK t \in DOMAIN image : \A u \in DOMAIN image : f[u] <= f[t]
    BY <1>1, <1>3, <2>1, GreatestExists
  <2>3. \A u \in DOMAIN image : u <= t
    BY <2>2 DEF f
  <2>4. t + 1 \in Nat /\ \A u \in DOMAIN image : u < t + 1
    BY <1>1, <2>3
  <2> QED BY <2>4 DEF Byte
<1> QED BY <1>2, <1>3

(* What reading back from its end shows of all of an image.                *)
LEMMA FromTheEnd ==
  ASSUME NEW n \in Nat, NEW G, n \in G, \A k \in 1 .. n : k \in G => k - 1 \in G
  PROVE  0 \in G
<1> DEFINE H == {j \in 0 .. n : n - j \in G}
<1>1. 0 \in H
  OBVIOUS
<1>2. ASSUME NEW j \in 0 .. n, j + 1 \in 0 .. n, j \in H PROVE j + 1 \in H
  <2>1. n - j \in 1 .. n /\ n - j \in G /\ (n - j) - 1 = n - (j + 1)
    BY <1>2
  <2> QED BY <1>2, <2>1
<1>3. 0 \in Nat /\ 0 <= n /\ n \in 0 .. n
  OBVIOUS
<1> HIDE DEF H
<1>4. \A j \in 0 .. n : j + 1 \in 0 .. n /\ j \in H => j + 1 \in H
  BY <1>2
<1>5. n \in H
  BY <1>1, <1>3, <1>4, IntervalInduction
<1> QED BY <1>5 DEF H

(* Lists in lists come to an end: there is a function that read_value is.  *)
LEMMA ValueExists ==
  ASSUME image \in Images
  PROVE  \E f : f = [a \in Nat |-> ValueEndBy(a, f)]
<1> DEFINE Reads(f, k) == \A a \in Nat : a >= k => f[a] = ValueEndBy(a, f) /\ Ahead(a, f[a])
           G == {k \in Nat : \E f : f = [a \in Nat |-> f[a]] /\ Reads(f, k)}
<1>1. PICK n \in Nat : \A a : Byte(a) # None => a < n
  BY ImageEnds
<1>2. n \in G
  <2> DEFINE f == [a \in Nat |-> None]
  <2>1. ASSUME NEW a \in Nat, a >= n PROVE ValueEndBy(a, f) = None
    <3>1. Tag(a) = "none"
      BY <1>1, <2>1, TagAhead DEF Tag, VALUE_TYPES, None
    <3> QED BY <3>1 DEF ValueEndBy, FixedSize
  <2>2. Reads(f, n)
    BY <2>1 DEF Ahead
  <2> QED BY <2>2
<1>3. ASSUME NEW k \in 1 .. n, k \in G PROVE k - 1 \in G
  <2> DEFINE i == k - 1
  <2>1. i \in Nat /\ \A a \in Nat : a >= i => a = i \/ a >= k
    OBVIOUS
  <2>2. PICK f : f = [a \in Nat |-> f[a]] /\ Reads(f, k)
    BY <1>3
  <2> DEFINE h == [a \in Nat |-> IF a = i THEN ValueEndBy(i, f) ELSE f[a]]
  <2>3. \A a \in Nat : a >= k => h[a] = f[a]
    OBVIOUS
  <2>4. h[i] = ValueEndBy(i, f)
    BY <2>1
  <2>5. h = [a \in Nat |-> h[a]]
    OBVIOUS
  <2> HIDE DEF h
  <2>6. ASSUME NEW a \in Nat, a >= i
        PROVE  ValueEndBy(a, h) = ValueEndBy(a, f) /\ Ahead(a, ValueEndBy(a, f))
    <3>1. \A p \in Nat : p >= a + 1 => p >= k
      BY <2>6
    <3>2. AheadFrom(a + 1, f)
      BY <2>2, <3>1 DEF AheadFrom
    <3>3. \A p \in Nat : p >= a + 1 => f[p] = h[p]
      BY <2>3, <3>1
    <3> QED BY <3>2, <3>3, ValueAhead
  <2> HIDE DEF i
  <2>7. Reads(h, i)
    BY <2>1, <2>2, <2>3, <2>4, <2>6
  <2> HIDE DEF Reads
  <2> QED BY <2>1, <2>5, <2>7 DEF i
<1> HIDE DEF G
<1>4. 0 \in G
  BY <1>2, <1>3, FromTheEnd
<1>5. PICK f : f = [a \in Nat |-> f[a]] /\ Reads(f, 0)
  BY <1>4 DEF G
<1>6. \A a \in Nat : f[a] = ValueEndBy(a, f)
  BY <1>5
<1>7. f = [a \in Nat |-> ValueEndBy(a, f)]
  <2> HIDE DEF Reads
  <2> QED BY <1>5, <1>6
<1> QED BY <1>7

(* read_value comes to an end, further on.                                 *)
LEMMA ValueEndIs ==
  ASSUME image \in Images
  PROVE  /\ \A a \in Nat : ValueEnd[a] = ValueEndBy(a, ValueEnd)
         /\ AheadFrom(0, ValueEnd)
<1>1. ValueEnd = [a \in Nat |-> ValueEndBy(a, ValueEnd)]
  BY ValueExists DEF ValueEnd
<1>2. \A a \in Nat : ValueEnd[a] = ValueEndBy(a, ValueEnd)
  BY <1>1
<1> DEFINE G == {k \in Nat : AheadFrom(k, ValueEnd)}
<1>3. PICK n \in Nat : \A a : Byte(a) # None => a < n
  BY ImageEnds
<1>4. n \in G
  <2> SUFFICES ASSUME NEW a \in Nat, a >= n PROVE Ahead(a, ValueEnd[a])
    BY DEF AheadFrom
  <2>1. Tag(a) = "none"
    BY <1>3 DEF Tag, VALUE_TYPES, None
  <2>2. ValueEndBy(a, ValueEnd) = None
    BY <2>1 DEF ValueEndBy, FixedSize
  <2> QED BY <1>2, <2>2 DEF Ahead
<1>5. ASSUME NEW k \in 1 .. n, k \in G PROVE k - 1 \in G
  <2> DEFINE i == k - 1
  <2>1. i \in Nat /\ i + 1 = k /\ \A a \in Nat : a >= i => a = i \/ a >= k
    OBVIOUS
  <2>2. AheadFrom(i + 1, ValueEnd)
    BY <1>5, <2>1
  <2>3. Ahead(i, ValueEnd[i])
    <3> HIDE DEF i
    <3> QED BY <1>2, <2>1, <2>2, ValueAhead
  <2>4. AheadFrom(i, ValueEnd)
    <3> HIDE DEF i
    <3> QED BY <2>1, <2>2, <2>3 DEF AheadFrom
  <2> QED BY <2>1, <2>4
<1> HIDE DEF G
<1>6. 0 \in G
  BY <1>4, <1>5, FromTheEnd
<1> QED BY <1>2, <1>6 DEF G

-----------------------------------------------------------------------------
(* An object that can be read ends further on, with all of it in the image.*)
LEMMA NowhereAhead ==
  ASSUME image \in Images, NEW end, Ahead(None, end)
  PROVE  end = None
<1>1. SUFFICES ASSUME end # None PROVE FALSE
  OBVIOUS
<1>2. None < end /\ Whole(None, end)
  BY <1>1 DEF Ahead
<1>3. None \in DOMAIN image
  BY <1>2 DEF Whole, None
<1> QED BY <1>3, ScannerAssumption DEF None

LEMMA HeadAhead ==
  ASSUME image \in Images, NEW a \in Nat
  PROVE  Ahead(a, PropsEnd(PropsAt(a)))
<1> DEFINE c == ClassAt(a)
           n == NameAt(a)
           p == PropsAt(a)
<1>1. a + 1 \in Nat /\ AheadFrom(0, ValueEnd)
  BY ValueEndIs
<1>2. c = a \/ c = a + 1 \/ c = ValueEnd[a + 1] \/ c = None
  BY DEF ClassAt
<1>3. c = None \/ (c \in Int /\ c >= a /\ (c = a \/ Whole(a, c)))
  <2>1. CASE c = a + 1 \/ c = ValueEnd[a + 1]
    <3>1. CASE Byte(a) = None
      <4>1. c = a
        BY <3>1, FormsAssumption DEF ClassAt, None
      <4> QED BY <4>1
    <3>2. CASE Byte(a) # None
      <4>1. Whole(a, a + 1)
        BY <3>2, ByteWhole
      <4>2. Ahead(a + 1, ValueEnd[a + 1])
        BY <1>1 DEF AheadFrom
      <4>3. c = a + 1 \/ c = None \/ (a + 1 < c /\ Whole(a + 1, c))
        BY <2>1, <4>2 DEF Ahead
      <4>4. c # None => Whole(a, c)
        BY <4>1, <4>3, WholeJoins
      <4> HIDE DEF c
      <4> QED BY <4>4 DEF Whole
    <3> QED BY <3>1, <3>2
  <2>2. CASE c = a \/ c = None
    BY <2>2
  <2> QED BY <1>2, <2>1, <2>2
<1>4. n = NameEnd(c) /\ (p = None \/ p = StrEnd(n))
  BY DEF NameAt, PropsAt
<1> HIDE DEF c, n, p
<1>5. CASE p = None
  <2>1. None \in Int /\ AheadFrom(None, ValueEnd)
    BY <1>1 DEF AheadFrom, None
  <2>2. Ahead(None, PropsEndBy(None, ValueEnd))
    BY <2>1, PropsAhead
  <2>3. PropsEnd(p) = None
    BY <1>5, <2>2, NowhereAhead DEF PropsEnd
  <2> QED BY <2>3 DEF Ahead, p
<1>6. CASE p # None
  <2>1. c # None /\ n # None
    <3>1. ASSUME NEW x, x = None PROVE StrEnd(x) = None /\ NameEnd(x) = None
      <4>1. None \in Int /\ Ahead(None, StrEnd(None)) /\ Ahead(None, NameEnd(None))
        BY NameAhead DEF None
      <4> QED BY <3>1, <4>1, NowhereAhead
    <3> QED BY <1>4, <1>6, <3>1
  <2>2. Ahead(c, n)
    BY <1>3, <1>4, <2>1, NameAhead
  <2>3. n \in Int /\ a < n /\ Whole(a, n)
    BY <1>3, <2>1, <2>2, WholeJoins DEF Ahead, Whole
  <2>4. Ahead(a, n) /\ Ahead(n, p)
    BY <1>4, <1>6, <2>3, NameAhead DEF Ahead
  <2>5. Ahead(a, p)
    BY <2>1, <2>4, AheadJoins
  <2>6. p \in Int /\ p >= 0
    BY <1>6, <2>5 DEF Ahead, Whole
  <2>7. AheadFrom(p, ValueEnd)
    BY <1>1, <2>6, AheadLater
  <2>8. Ahead(p, PropsEnd(p))
    BY <2>6, <2>7, PropsAhead DEF PropsEnd
  <2>9. Ahead(a, PropsEnd(p))
    BY <1>6, <2>5, <2>8, AheadJoins
  <2> QED BY <2>9 DEF p
<1> QED BY <1>5, <1>6

Tuples == Nat \X Nat \X Nat \X Nat
(* What reading objects from a gives. *)
IsRead(a, r) ==
  /\ r = [end |-> r.end, events |-> r.events, budget |-> r.budget]
  /\ r.budget \in Nat
  /\ Ahead(a, r.end)
ReadFrom(a, f) == \A c \in Tuples : c[1] >= a => IsRead(c[1], f[c])

LEMMA NotAnObjectIs == \A a : IsRead(a, NotAnObject) /\ NotAnObject.end = None
BY DEF IsRead, NotAnObject, Ahead

LEMMA BeforeIs ==
  ASSUME NEW a, NEW b, Ahead(a, b), b # None, NEW r, IsRead(b, r), NEW events
  PROVE  IsRead(a, Before(events, r))
<1>1. Before(events, r) = [end |-> r.end, events |-> events \o r.events, budget |-> r.budget]
  <2>1. PICK x, y, z : x = r.end /\ y = r.events /\ z = r.budget
    OBVIOUS
  <2>2. r = [end |-> x, events |-> y, budget |-> z]
    BY <2>1 DEF IsRead
  <2>3. \A w : [r EXCEPT !.events = w] = [end |-> x, events |-> w, budget |-> z]
    BY <2>2
  <2>4. Before(events, r) = [r EXCEPT !.events = events \o r.events]
    BY Zenon DEF Before
  <2> QED BY <2>1, <2>3, <2>4
<1>2. Ahead(a, r.end)
  BY AheadJoins DEF IsRead
<1> QED BY <1>1, <1>2 DEF IsRead

LEMMA ObjectAhead ==
  ASSUME image \in Images, NEW a \in Nat, NEW depth \in Nat, NEW budget \in Nat,
         NEW f, ReadFrom(a + 1, f)
  PROVE  /\ IsRead(a, ReadObjectBy(a, depth, budget, f))
         /\ \A g : (\A c \in Tuples : c[1] >= a + 1 => f[c] = g[c]) =>
              ReadObjectBy(a, depth, budget, g) = ReadObjectBy(a, depth, budget, f)
<1> DEFINE q == PropsEnd(PropsAt(a))
           c == <<q, depth + 1, budget - 1, MaxItems>>
           events == Events(Chars(NameAt(a)), PropsAt(a))
<1>1. CASE depth > MaxDepth \/ budget = 0 \/ q = None
  <2>1. \A h : ReadObjectBy(a, depth, budget, h) = NotAnObject
    BY <1>1 DEF ReadObjectBy
  <2> QED BY <2>1, NotAnObjectIs
<1>2. CASE ~(depth > MaxDepth \/ budget = 0 \/ q = None)
  <2>1. \A h : ReadObjectBy(a, depth, budget, h) = Before(events, h[c])
    BY <1>2 DEF ReadObjectBy
  <2>2. Ahead(a, q) /\ q # None /\ budget # 0
    BY <1>2, HeadAhead
  <2> HIDE DEF q, events
  <2>3. q \in Nat /\ q >= a + 1
    BY <2>2 DEF Ahead, Whole
  <2>4. c \in Tuples /\ c[1] = q
    BY <2>2, <2>3, FormsAssumption DEF Tuples
  <2> HIDE DEF c
  <2>5. IsRead(q, f[c])
    BY <2>3, <2>4 DEF ReadFrom
  <2>6. IsRead(a, Before(events, f[c]))
    BY <2>2, <2>5, BeforeIs
  <2>7. \A g : (\A x \in Tuples : x[1] >= a + 1 => f[x] = g[x]) => f[c] = g[c]
    BY <2>3, <2>4
  <2> QED BY <2>1, <2>6, <2>7
<1> QED BY <1>1, <1>2

LEMMA ChildrenAhead ==
  ASSUME image \in Images, NEW c \in Tuples, NEW f, ReadFrom(c[1] + 1, f)
  PROVE  /\ IsRead(c[1], ChildrenBy(c[1], c[2], c[3], c[4], f))
         /\ \A g : (\A x \in Tuples : x[1] >= c[1] + 1 => f[x] = g[x]) =>
              ChildrenBy(c[1], c[2], c[3], c[4], g) = ChildrenBy(c[1], c[2], c[3], c[4], f)
<1>1. PICK a \in Nat, depth \in Nat, budget \in Nat, turns \in Nat :
        c[1] = a /\ c[2] = depth /\ c[3] = budget /\ c[4] = turns
  BY DEF Tuples
<1> DEFINE child(h) == ReadObjectBy(a, depth, budget, h)
           next(h) == <<child(h).end, depth, child(h).budget, turns - 1>>
           Same(g) == \A x \in Tuples : x[1] >= a + 1 => f[x] = g[x]
           By(h) == ChildrenBy(a, depth, budget, turns, h)
<1>2. ReadFrom(a + 1, f)
  BY <1>1
<1>3. IsRead(a, child(f)) /\ \A g : Same(g) => child(g) = child(f)
  <2> HIDE <1>1
  <2> QED BY <1>2, ObjectAhead
<1>4. \A h : By(h) = IF turns = 0 \/ Byte(a) = None THEN NotAnObject
                     ELSE IF Byte(a) = 0 THEN [end |-> a + 1, events |-> <<>>, budget |-> budget]
                     ELSE IF child(h).end = None THEN NotAnObject
                     ELSE Before(child(h).events, h[next(h)])
  BY DEF ChildrenBy
<1> HIDE DEF child, By
<1>5. IsRead(a, By(f)) /\ \A g : Same(g) => By(g) = By(f)
  <2>1. CASE turns = 0 \/ Byte(a) = None
    <3>1. \A h : By(h) = NotAnObject
      BY <1>4, <2>1
    <3> QED BY <3>1, NotAnObjectIs
  <2>2. CASE turns # 0 /\ Byte(a) = 0
    <3>1. Byte(a) # None
      BY <2>2 DEF None
    <3>2. \A h : By(h) = [end |-> a + 1, events |-> <<>>, budget |-> budget]
      BY <1>4, <2>2, <3>1
    <3>3. Ahead(a, a + 1)
      BY <3>1, ByteWhole DEF Ahead
    <3>4. IsRead(a, [end |-> a + 1, events |-> <<>>, budget |-> budget])
      BY <3>3 DEF IsRead
    <3> QED BY <3>2, <3>4
  <2>3. CASE turns # 0 /\ Byte(a) \notin {None, 0}
    <3>1. \A h : By(h) = IF child(h).end = None THEN NotAnObject
                         ELSE Before(child(h).events, h[next(h)])
      BY <1>4, <2>3
    <3>2. CASE child(f).end = None
      <4>1. By(f) = NotAnObject
        BY <3>1, <3>2
      <4>2. ASSUME NEW g, Same(g) PROVE By(g) = NotAnObject
        <5>1. child(g) = child(f)
          BY <1>3, <4>2
        <5> QED BY <3>1, <3>2, <5>1
      <4> QED BY <4>1, <4>2, NotAnObjectIs
    <3>3. CASE child(f).end # None
      <4>1. PICK q, left : q = child(f).end /\ left = child(f).budget
        OBVIOUS
      <4>2. Ahead(a, q) /\ q # None /\ left \in Nat
        BY <1>3, <3>3, <4>1 DEF IsRead
      <4>3. q \in Nat /\ q >= a + 1
        BY <4>2 DEF Ahead, Whole
      <4> DEFINE n == <<q, depth, left, turns - 1>>
      <4>4. n \in Tuples /\ n[1] = q
        BY <2>3, <4>2, <4>3 DEF Tuples
      <4>5. next(f) = n
        BY <4>1
      <4> HIDE DEF n, next
      <4>6. IsRead(q, f[n])
        BY <1>2, <4>3, <4>4 DEF ReadFrom
      <4>7. By(f) = Before(child(f).events, f[n])
        BY <3>1, <3>3, <4>5
      <4>8. IsRead(a, By(f))
        BY <4>2, <4>6, <4>7, BeforeIs
      <4>9. ASSUME NEW g, Same(g) PROVE By(g) = By(f)
        <5>1. child(g) = child(f)
          BY <1>3, <4>9
        <5>2. next(g) = n
          BY <4>5, <5>1 DEF next
        <5>3. g[n] = f[n]
          BY <4>3, <4>4, <4>9
        <5>4. By(g) = Before(child(g).events, g[next(g)])
          BY <3>1, <3>3, <5>1
        <5> QED BY <4>7, <5>1, <5>2, <5>3, <5>4
      <4> QED BY <4>8, <4>9
    <3> QED BY <3>2, <3>3
  <2> QED BY <2>1, <2>2, <2>3
<1> QED BY <1>1, <1>5 DEF By

-----------------------------------------------------------------------------
(* The objects of c, given what is read of those further on.               *)
Children(c, f) == ChildrenBy(c[1], c[2], c[3], c[4], f)

(* Objects in objects come to an end.                                      *)
LEMMA ChildrenExist ==
  ASSUME image \in Images
  PROVE  \E f : f = [c \in Tuples |-> Children(c, f)]
<1> DEFINE Reads(f, k) == \A c \in Tuples : c[1] >= k => f[c] = Children(c, f) /\ IsRead(c[1], f[c])
           G == {k \in Nat : \E f : f = [c \in Tuples |-> f[c]] /\ Reads(f, k)}
<1>0. \A c \in Tuples : c[1] \in Nat
  BY DEF Tuples
<1>1. PICK n \in Nat : \A a : Byte(a) # None => a < n
  BY ImageEnds
<1>2. n \in G
  <2> DEFINE f == [c \in Tuples |-> NotAnObject]
  <2>1. ASSUME NEW c \in Tuples, c[1] >= n PROVE Children(c, f) = NotAnObject
    <3>1. Byte(c[1]) = None
      BY <1>0, <1>1, <2>1
    <3> HIDE DEF f
    <3> QED BY <3>1 DEF Children, ChildrenBy
  <2>2. Reads(f, n)
    BY <2>1, NotAnObjectIs
  <2> QED BY <2>2
<1>3. ASSUME NEW k \in 1 .. n, k \in G PROVE k - 1 \in G
  <2> DEFINE i == k - 1
  <2>1. i \in Nat /\ \A c \in Tuples : c[1] >= i => c[1] = i \/ c[1] >= k
    BY <1>0
  <2>2. PICK f : f = [c \in Tuples |-> f[c]] /\ Reads(f, k)
    BY <1>3
  <2> DEFINE h == [c \in Tuples |-> IF c[1] = i THEN Children(c, f) ELSE f[c]]
  <2>3. \A c \in Tuples : c[1] >= k => h[c] = f[c]
    BY <1>0
  <2>4. \A c \in Tuples : c[1] = i => h[c] = Children(c, f)
    BY <2>1
  <2>5. h = [c \in Tuples |-> h[c]]
    OBVIOUS
  <2> HIDE DEF h
  <2>6. ASSUME NEW c \in Tuples, c[1] >= i
        PROVE  Children(c, h) = Children(c, f) /\ IsRead(c[1], Children(c, f))
    <3>1. \A x \in Tuples : x[1] >= c[1] + 1 => x[1] >= k
      BY <1>0, <2>6
    <3>2. ReadFrom(c[1] + 1, f)
      BY <2>2, <3>1 DEF ReadFrom
    <3>3. \A x \in Tuples : x[1] >= c[1] + 1 => f[x] = h[x]
      BY <2>3, <3>1
    <3> QED BY <3>2, <3>3, ChildrenAhead DEF Children
  <2> HIDE DEF i
  <2>7. Reads(h, i)
    BY <2>1, <2>2, <2>3, <2>4, <2>6
  <2> HIDE DEF Reads
  <2> QED BY <2>1, <2>5, <2>7 DEF i
<1> HIDE DEF G
<1>4. 0 \in G
  BY <1>2, <1>3, FromTheEnd
<1>5. PICK f : f = [c \in Tuples |-> f[c]] /\ Reads(f, 0)
  BY <1>4 DEF G
<1>6. \A c \in Tuples : f[c] = Children(c, f)
  BY <1>0, <1>5
<1>7. f = [c \in Tuples |-> Children(c, f)]
  <2> HIDE DEF Reads
  <2> QED BY <1>5, <1>6
<1> QED BY <1>7

(* _read_object comes to an end, further on.                               *)
LEMMA ChildrenAre ==
  ASSUME image \in Images
  PROVE  ReadFrom(0, ReadChildren)
<1>0. \A c \in Tuples : c[1] \in Nat
  BY DEF Tuples
<1>1. ReadChildren = [c \in Tuples |-> Children(c, ReadChildren)]
  BY ChildrenExist DEF ReadChildren, Children, Tuples
<1>2. \A c \in Tuples : ReadChildren[c] = Children(c, ReadChildren)
  BY <1>1
<1> DEFINE G == {k \in Nat : ReadFrom(k, ReadChildren)}
<1>3. PICK n \in Nat : \A a : Byte(a) # None => a < n
  BY ImageEnds
<1>4. n \in G
  <2> SUFFICES ASSUME NEW c \in Tuples, c[1] >= n PROVE IsRead(c[1], ReadChildren[c])
    BY DEF ReadFrom
  <2>1. Byte(c[1]) = None
    BY <1>0, <1>3
  <2>2. ReadChildren[c] = NotAnObject
    BY <1>2, <2>1 DEF Children, ChildrenBy
  <2> QED BY <2>2, NotAnObjectIs
<1>5. ASSUME NEW k \in 1 .. n, k \in G PROVE k - 1 \in G
  <2> DEFINE i == k - 1
  <2>1. i \in Nat /\ i + 1 = k /\ \A c \in Tuples : c[1] >= i => c[1] = i \/ c[1] >= k
    BY <1>0
  <2>2. ReadFrom(k, ReadChildren)
    BY <1>5
  <2>3. ASSUME NEW c \in Tuples, c[1] = i PROVE IsRead(c[1], ReadChildren[c])
    <3>1. ReadFrom(c[1] + 1, ReadChildren)
      BY <2>1, <2>2, <2>3
    <3>2. IsRead(c[1], Children(c, ReadChildren))
      BY <3>1, ChildrenAhead DEF Children
    <3> QED BY <1>2, <3>2
  <2>4. ReadFrom(i, ReadChildren)
    <3> HIDE DEF i
    <3> QED BY <2>1, <2>2, <2>3 DEF ReadFrom
  <2> QED BY <2>1, <2>4
<1> HIDE DEF G
<1>6. 0 \in G
  BY <1>4, <1>5, FromTheEnd
<1> QED BY <1>6 DEF G

(* A stream that can be parsed ends past its signature, and is all there.  *)
LEMMA StreamEnds ==
  ASSUME image \in Images, NEW a \in Nat, ParseStream(a) # NoStream
  PROVE  /\ a + 4 < ParseStream(a).end
         /\ Whole(a + 4, ParseStream(a).end)
<1>1. Len(MAGIC) = 4 /\ a + 4 \in Nat /\ MaxItems \in Nat
  BY FormsAssumption DEF MAGIC
<1> DEFINE r == ReadObject(a + 4, 0, MaxItems)
<1>2. ParseStream(a) = StreamOf(a, r)
  BY <1>1 DEF ParseStream
<1>3. IsRead(a + 4, r)
  <2>1. ReadFrom(a + 4 + 1, ReadChildren)
    BY <1>1, ChildrenAre DEF ReadFrom, Tuples
  <2> QED BY <1>1, <2>1, ObjectAhead DEF ReadObject
<1> HIDE DEF r
<1>4. r.end # None /\ ParseStream(a).end = r.end
  BY <1>2 DEF StreamOf, NoStream
<1>5. Ahead(a + 4, r.end)
  BY <1>3 DEF IsRead
<1> QED BY <1>4, <1>5 DEF Ahead

-----------------------------------------------------------------------------
(* What the last block leaves is what stands in the segment.               *)
LEMMA StreamsAreSettled == image \in Images /\ StreamsSoFar => StreamsSettled
<1> DEFINE kept == ToSet(streams)
           Inside(a) == \E s \in kept : s.addr <= a /\ a < s.end
           signatures == {a \in CodeStart .. DataEnd - 4 : HasMagic(a)}
           outside == {ParseStream(a) : a \in {x \in signatures : ~Inside(x)}} \ {NoStream}
<1>1. Len(MAGIC) = 4
  BY DEF MAGIC
<1>2. SUFFICES ASSUME image \in Images, FoundUpto(DataEnd, streams)
               PROVE  /\ kept = outside
                      /\ \A i, j \in DOMAIN streams :
                           i < j => streams[i].end + 4 <= streams[j].addr
                      /\ \A s \in kept : s.addr < s.end /\ Readable(s.addr, s.end - s.addr)
  BY <1>1 DEF StreamsSoFar, StreamsSettled
<1>3. streams \in Seq(Parsed) /\ DOMAIN streams = 1 .. Len(streams)
  BY <1>2 DEF FoundUpto
<1>4. \A t : t \in kept <=> \E i \in 1 .. Len(streams) : t = streams[i]
  BY <1>3 DEF ToSet
<1>5. \A i, j \in 1 .. Len(streams) : i < j => streams[i].addr < streams[j].addr
  BY <1>2 DEF FoundUpto
<1> HIDE DEF kept
<1>6. ASSUME NEW t \in kept PROVE t \in outside
  <2>1. PICK i \in 1 .. Len(streams) : t = streams[i]
    BY <1>4
  <2>2. PICK a \in CodeStart .. DataEnd - 1 :
          /\ Formed(a) /\ streams[i] = ParseStream(a)
          /\ \A j \in 1 .. i - 1 : ~(a < streams[j].end)
    BY <1>2 DEF FoundUpto
  <2>3. ASSUME NEW s \in kept, s.addr <= a, a < s.end PROVE FALSE
    <3>1. PICK j \in 1 .. Len(streams) : s = streams[j]
      BY <1>4
    <3>2. j \notin 1 .. i - 1
      BY <2>2, <2>3, <3>1
    <3>3. streams[i].addr = a + 4 /\ a \in Int
      BY <2>2, ParsedFrom, Bounds DEF Formed
    <3>4. CASE j = i
      BY <2>3, <3>1, <3>3, <3>4
    <3>5. CASE j # i
      <4>1. PICK b \in CodeStart .. DataEnd - 1 : Formed(b) /\ streams[j] = ParseStream(b)
        BY <1>2 DEF FoundUpto
      <4>2. streams[j].addr = b + 4 /\ b \in Int
        BY <4>1, ParsedFrom, Bounds DEF Formed
      <4>3. i < j
        BY <2>1, <3>1, <3>2, <3>5
      <4>4. streams[i].addr < streams[j].addr
        BY <1>5, <4>3
      <4> QED BY <2>3, <3>1, <3>3, <4>2, <4>4
    <3> QED BY <3>4, <3>5
  <2>4. a \in signatures /\ ~Inside(a) /\ ParseStream(a) # NoStream
    BY <2>2, <2>3, ParsedFrom DEF Formed
  <2> HIDE DEF signatures, Inside
  <2> QED BY <2>1, <2>2, <2>4
<1>7. ASSUME NEW t \in outside PROVE t \in kept
  <2>1. PICK a \in signatures : ~Inside(a) /\ t = ParseStream(a) /\ t # NoStream
    OBVIOUS
  <2>2. Formed(a) /\ a \in CodeStart .. DataEnd - 1 /\ a \in Int /\ HasMagic(a)
    BY <2>1, Bounds DEF Formed
  <2>3. CASE \E s \in kept : s.addr < a + 4 /\ a < s.end
    <3>1. PICK s \in kept : s.addr < a + 4 /\ a < s.end
      BY <2>3
    <3>2. PICK i \in 1 .. Len(streams) : s = streams[i]
      BY <1>4
    <3>3. PICK b \in CodeStart .. DataEnd - 1 : Formed(b) /\ s = ParseStream(b)
      BY <1>2, <3>2 DEF FoundUpto
    <3>4. s.addr = b + 4 /\ b \in Int /\ HasMagic(b)
      BY <3>3, ParsedFrom, Bounds DEF Formed
    <3>5. b < a
      BY <2>2, <3>1, <3>4
    <3>6. b + 4 <= a
      BY <2>2, <3>4, <3>5, SignaturesApart
    <3>7. Inside(a)
      BY <3>1, <3>4, <3>6
    <3> QED BY <2>1, <3>7
  <2>4. CASE ~\E s \in kept : s.addr < a + 4 /\ a < s.end
    BY <1>2, <2>1, <2>2, <2>4 DEF FoundUpto, kept
  <2> QED BY <2>3, <2>4
<1>8. ASSUME NEW i \in 1 .. Len(streams)
      PROVE  /\ streams[i].addr \in Int
             /\ streams[i].addr < streams[i].end
             /\ Whole(streams[i].addr, streams[i].end)
             /\ \A j \in 1 .. i - 1 : ~(streams[i].addr - 4 < streams[j].end)
  <2>1. PICK a \in CodeStart .. DataEnd - 1 :
          /\ Formed(a) /\ streams[i] = ParseStream(a)
          /\ \A j \in 1 .. i - 1 : ~(a < streams[j].end)
    BY <1>2 DEF FoundUpto
  <2>2. a \in Nat /\ ParseStream(a) # NoStream
    BY <2>1, Bounds DEF Formed
  <2>3. streams[i].addr = a + 4
    BY <2>1, <2>2, ParsedFrom
  <2>4. a + 4 < streams[i].end /\ Whole(a + 4, streams[i].end)
    BY <1>2, <2>1, <2>2, StreamEnds
  <2>5. a = streams[i].addr - 4
    BY <2>2, <2>3
  <2> QED BY <2>1, <2>2, <2>3, <2>4, <2>5
<1>9. \A i, j \in 1 .. Len(streams) : i < j => streams[i].end + 4 <= streams[j].addr
  <2> SUFFICES ASSUME NEW i \in 1 .. Len(streams), NEW j \in 1 .. Len(streams), i < j
               PROVE  streams[i].end + 4 <= streams[j].addr
    OBVIOUS
  <2>1. i \in 1 .. j - 1 /\ streams[i].end \in Int /\ streams[j].addr \in Int
    BY <1>3, <1>8 DEF Whole
  <2>2. ~(streams[j].addr - 4 < streams[i].end)
    BY <1>8, <2>1
  <2> QED BY <2>1, <2>2
<1>10. ASSUME NEW s \in kept PROVE s.addr < s.end /\ Readable(s.addr, s.end - s.addr)
  <2>1. PICK i \in 1 .. Len(streams) : s = streams[i]
    BY <1>4
  <2>2. s.addr \in Int /\ s.addr < s.end /\ Whole(s.addr, s.end)
    BY <1>8, <2>1
  <2>3. s.end - s.addr \in Nat /\ s.addr + (s.end - s.addr) = s.end
    BY <2>2 DEF Whole
  <2> QED BY <2>2, <2>3, WholeIsReadable
<1> HIDE DEF outside
<1> QED BY <1>3, <1>6, <1>7, <1>9, <1>10

(* A finished scan has found the streams that can be parsed at a signature *)
(* of the segment and do not begin inside another, and nothing else; they  *)
(* are in order, share no byte and end in the image, for any image and any *)
(* size of blocks (find_streams, parse_stream, read_value, _read_object).  *)
THEOREM ScanSettlesStreams == Spec => []StreamsSettled
<1>1. Spec => [](SoFar /\ StreamsSoFar)
  <2>1. Init => SoFar /\ StreamsSoFar
    BY SoFarInit, StreamsInit
  <2>2. SoFar /\ StreamsSoFar /\ [Next]_vars => (SoFar /\ StreamsSoFar)'
    BY SoFarNext, StreamsNext
  <2> QED BY <2>1, <2>2, PTL DEF Spec
<1>2. SoFar /\ StreamsSoFar => StreamsSettled
  BY StreamsAreSettled DEF SoFar
<1> QED BY <1>1, <1>2, PTL

-----------------------------------------------------------------------------
(* What is written in an image is there to be read, each part of it too.   *)
LEMMA WrittenConcat ==
  ASSUME NEW s \in Seq(Nat), NEW t \in Seq(Nat), NEW a \in Int, WrittenAt(a, s \o t)
  PROVE  WrittenAt(a, s) /\ WrittenAt(a + Len(s), t)
<1> DEFINE both == s \o t
<1>1. /\ Len(both) = Len(s) + Len(t) /\ Len(s) \in Nat /\ Len(t) \in Nat
      /\ \A i \in 1 .. Len(s) : both[i] = s[i]
      /\ \A i \in 1 .. Len(t) : both[Len(s) + i] = t[i]
  OBVIOUS
<1>2. \A i \in 1 .. Len(both) : Byte(a + i - 1) = both[i]
  BY DEF WrittenAt
<1> HIDE DEF both
<1>3. ASSUME NEW i \in 1 .. Len(s) PROVE Byte(a + i - 1) = s[i]
  <2>1. i \in 1 .. Len(both)
    BY <1>1
  <2> QED BY <1>1, <1>2, <2>1
<1>4. ASSUME NEW i \in 1 .. Len(t) PROVE Byte(a + Len(s) + i - 1) = t[i]
  <2>1. Len(s) + i \in 1 .. Len(both) /\ a + (Len(s) + i) - 1 = a + Len(s) + i - 1
    BY <1>1
  <2>2. Byte(a + (Len(s) + i) - 1) = both[Len(s) + i]
    BY <1>2, <2>1
  <2> QED BY <1>1, <2>1, <2>2
<1> QED BY <1>3, <1>4 DEF WrittenAt

LEMMA WrittenThere ==
  ASSUME NEW s \in Seq(Nat), NEW a \in Int, WrittenAt(a, s)
  PROVE  /\ Readable(a, Len(s)) /\ Past(a, Len(s)) = a + Len(s)
         /\ \A i \in 1 .. Len(s) : Byte(a + i - 1) = s[i] /\ image[a + i - 1] = s[i]
<1>1. ASSUME NEW i \in 1 .. Len(s)
      PROVE  Byte(a + i - 1) = s[i] /\ image[a + i - 1] = s[i] /\ a + i - 1 \in DOMAIN image
  <2>1. Byte(a + i - 1) = s[i] /\ s[i] \in Nat
    BY DEF WrittenAt
  <2>2. Byte(a + i - 1) # None
    BY <2>1 DEF None
  <2> QED BY <2>1, <2>2 DEF Byte
<1>2. ASSUME NEW x \in a .. a + Len(s) - 1 PROVE x \in DOMAIN image
  <2>1. x - a + 1 \in 1 .. Len(s) /\ a + (x - a + 1) - 1 = x
    OBVIOUS
  <2> QED BY <1>1, <2>1
<1>3. Readable(a, Len(s))
  BY <1>2 DEF Readable
<1> QED BY <1>1, <1>3 DEF Past

(* A byte, and what is behind it. *)
LEMMA WrittenByte ==
  ASSUME NEW n \in Nat, NEW t \in Seq(Nat), NEW a \in Int, WrittenAt(a, <<n>> \o t)
  PROVE  /\ Byte(a) = n /\ WrittenAt(a + 1, t) /\ <<n>> \o t \in Seq(Nat)
         /\ Len(<<n>> \o t) = 1 + Len(t) /\ (<<n>> \o t)[1] = n
<1> DEFINE s == <<n>>
<1>1. s \in Seq(Nat) /\ Len(s) = 1 /\ s[1] = n
  OBVIOUS
<1>2. s \o t \in Seq(Nat) /\ Len(s \o t) = 1 + Len(t) /\ (s \o t)[1] = n
  OBVIOUS
<1> HIDE DEF s
<1>3. WrittenAt(a, s) /\ WrittenAt(a + Len(s), t)
  BY <1>1, WrittenConcat DEF s
<1>4. Byte(a + 1 - 1) = n /\ a + 1 - 1 = a
  BY <1>1, <1>3 DEF WrittenAt
<1> QED BY <1>1, <1>2, <1>3, <1>4 DEF s

LEMMA StrIs ==
  ASSUME NEW chars \in Seq(Nat)
  PROVE  Str(chars) \in Seq(Nat) /\ Len(Str(chars)) = 1 + Len(chars) /\ Str(chars)[1] = Len(chars)
<1>1. Len(chars) \in Nat
  OBVIOUS
<1> QED BY <1>1 DEF Str

LEMMA StrRead ==
  ASSUME NEW chars \in Seq(Nat), NEW a \in Int, WrittenAt(a, Str(chars))
  PROVE  /\ StrEnd(a) = a + Len(Str(chars)) /\ Byte(a) = Len(chars)
         /\ Chars(a) = chars
         /\ \A i \in 1 .. Len(chars) : image[a + i] = chars[i]
<1> DEFINE n == Len(chars)
<1>1. n \in Nat /\ Len(Str(chars)) = 1 + n
  BY StrIs
<1>2. Byte(a) = n /\ WrittenAt(a + 1, chars)
  BY <1>1, WrittenByte DEF Str
<1>3. /\ Readable(a + 1, n)
      /\ \A i \in 1 .. n : image[a + 1 + i - 1] = chars[i]
  BY <1>2, WrittenThere
<1>4. \A i \in 1 .. n : image[a + i] = chars[i]
  <2>1. \A i \in 1 .. n : a + 1 + i - 1 = a + i
    OBVIOUS
  <2> QED BY <1>3, <2>1
<1>5. StrEnd(a) = a + 1 + n
  BY <1>1, <1>2, <1>3 DEF StrEnd, None
<1>6. chars = [i \in 1 .. n |-> chars[i]]
  OBVIOUS
<1> HIDE DEF n
<1>7. Chars(a) = chars
  BY <1>2, <1>4, <1>6 DEF Chars
<1> QED BY <1>1, <1>2, <1>4, <1>5, <1>7 DEF n

(* Identifiers are bytes, and one is read where one is written.            *)
LEMMA NameRead ==
  ASSUME NEW chars \in Seq(Ident), NEW a \in Nat
  PROVE  /\ chars \in Seq(Nat)
         /\ WrittenAt(a, Str(chars)) =>
              /\ IsName(a, 0)
              /\ chars # <<>> => NameEnd(a) = a + Len(Str(chars))
<1>1. \A c \in Ident : c \in Nat
  BY ReaderAssumption
<1>2. chars \in Seq(Nat)
  <2>1. Len(chars) \in Nat /\ chars = [i \in 1 .. Len(chars) |-> chars[i]]
        /\ \A i \in 1 .. Len(chars) : chars[i] \in Ident
    OBVIOUS
  <2> QED BY <1>1, <2>1
<1>3. ASSUME WrittenAt(a, Str(chars))
      PROVE  IsName(a, 0) /\ (chars # <<>> => NameEnd(a) = a + Len(Str(chars)))
  <2>1. /\ StrEnd(a) = a + Len(Str(chars)) /\ Byte(a) = Len(chars)
        /\ \A i \in 1 .. Len(chars) : image[a + i] = chars[i]
    BY <1>2, <1>3, StrRead
  <2>2. Len(Str(chars)) = 1 + Len(chars) /\ Len(chars) \in Nat
    BY <1>2, StrIs
  <2>3. ASSUME NEW x \in a + 1 .. StrEnd(a) - 1 PROVE image[x] \in Ident
    <3>1. x - a \in 1 .. Len(chars) /\ a + (x - a) = x
      BY <2>1, <2>2
    <3>2. image[x] = chars[x - a]
      BY <2>1, <3>1
    <3> QED BY <3>1, <3>2
  <2>4. StrEnd(a) # None
    BY <2>1, <2>2 DEF None
  <2>5. \A min \in Nat : min <= Len(chars) => IsName(a, min)
    BY <2>1, <2>2, <2>3, <2>4 DEF IsName
  <2>6. chars # <<>> => 1 <= Len(chars)
    OBVIOUS
  <2>7. IsName(a, 0) /\ (chars # <<>> => IsName(a, 1))
    BY <2>2, <2>5, <2>6
  <2> QED BY <2>1, <2>7 DEF NameEnd
<1> QED BY <1>2, <1>3

LEMMA LongRead ==
  ASSUME NEW chars \in Seq(Nat), NEW width \in {1, 2}, NEW a \in Nat,
         Len(chars) <= MaxBlob, Len(chars) % width = 0, WrittenAt(a, Long(chars, width))
  PROVE  LongEnd(a, width) = a + Len(Long(chars, width))
<1> DEFINE l == Len(chars)
           n == l \div width
           lo == n % Base
           hi == n \div Base
           words == <<lo, hi>>
<1>1. l \in Nat /\ n \in Nat /\ n * width = l
  BY SMT
<1>2. lo \in Nat /\ hi \in Nat /\ lo + Base * hi = n
  <2>1. Base \in Nat /\ Base > 0
    BY ReaderAssumption
  <2> HIDE DEF n
  <2>2. n = Base * hi + lo /\ hi \in Nat /\ lo \in Nat
    BY <1>1, <2>1
  <2> HIDE DEF lo, hi
  <2>3. \A x, y \in Nat : x * y \in Nat
    OBVIOUS
  <2>4. Base * hi \in Nat
    BY <2>1, <2>2, <2>3
  <2> QED BY <2>2, <2>4
<1> HIDE DEF n, lo, hi, l
<1>3. words \in Seq(Nat) /\ Len(words) = 2 /\ words[1] = lo /\ words[2] = hi
  BY <1>2
<1>4. Long(chars, width) = words \o chars
  BY DEF Long, words, lo, hi, n, l
<1>5. Len(words \o chars) = 2 + l
  BY <1>3 DEF l
<1> HIDE DEF words
<1>6. WrittenAt(a, words) /\ WrittenAt(a + 2, chars)
  <2>1. a \in Int /\ WrittenAt(a, words \o chars)
    BY <1>4
  <2>2. WrittenAt(a, words) /\ WrittenAt(a + Len(words), chars)
    BY <1>3, <2>1, WrittenConcat
  <2> QED BY <1>3, <2>2
<1>7. Readable(a, 2) /\ image[a] = lo /\ image[a + 1] = hi
  <2>1. a \in Int /\ 1 \in 1 .. 2 /\ 2 \in 1 .. 2
    OBVIOUS
  <2>2. Readable(a, Len(words)) /\ \A i \in 1 .. Len(words) : image[a + i - 1] = words[i]
    BY <1>3, <1>6, <2>1, WrittenThere
  <2>3. Readable(a, 2) /\ image[a + 1 - 1] = lo /\ image[a + 2 - 1] = hi
    BY <1>3, <2>1, <2>2
  <2>4. a + 1 - 1 = a /\ a + 2 - 1 = a + 1
    OBVIOUS
  <2> QED BY <2>3, <2>4
<1>8. Word(a) = n
  BY <1>2, <1>7 DEF Word, Width
<1>9. Past(a + 2, l) = a + 2 + l
  <2>1. a + 2 \in Int
    OBVIOUS
  <2> QED BY <1>6, <2>1, WrittenThere DEF l
<1>10. l <= MaxBlob /\ n # None
  BY <1>1 DEF l, None
<1>11. LongEnd(a, width) = Past(a + 2, n * width)
  BY <1>1, <1>8, <1>10 DEF LongEnd, Width
<1>12. a + 2 + l = a + (2 + l)
  BY <1>1
<1> QED BY <1>1, <1>4, <1>5, <1>9, <1>11, <1>12

(* The parts of a list, one behind the other, and the byte that ends it.   *)
LEMMA ListedParts ==
  ASSUME NEW a \in Nat, NEW parts, Len(parts) \in Nat,
         \A i \in 1 .. Len(parts) : /\ parts[i].bytes \in Seq(Nat) /\ parts[i].bytes # <<>>
                                    /\ parts[i].bytes[1] # 0,
         WrittenAt(a, Listed(parts))
  PROVE  \E place :
           /\ place[0] = a /\ Byte(place[Len(parts)]) = 0
           /\ place[Len(parts)] \in Nat
           /\ a + Len(Listed(parts)) = place[Len(parts)] + 1
           /\ \A k \in 1 .. Len(parts) :
                /\ WrittenAt(place[k - 1], parts[k].bytes)
                /\ place[k] = place[k - 1] + Len(parts[k].bytes)
                /\ Byte(place[k - 1]) \notin {None, 0}
                /\ place[k - 1] \in Nat /\ place[k - 1] >= a
<1> DEFINE n == Len(parts)
           lists == [i \in 1 .. n |-> parts[i].bytes]
<1>1. n \in Nat
  OBVIOUS
<1>2. Len(lists) = n /\ \A i \in 1 .. n : lists[i] = parts[i].bytes
  BY <1>1
<1>3. \A i \in 1 .. n : lists[i] \in Seq(Nat)
  BY <1>2
<1>4. Listed(parts) = Joined(lists) \o <<0>>
  BY DEF Listed
<1> HIDE DEF lists
<1>5. PICK g : /\ Partly(lists, g)
               /\ \A k \in 0 .. n : g[k] \in Seq(Nat) /\ Begins(g[k], g[n])
               /\ Joined(lists) = g[n]
  <2>1. Len(lists) \in Nat /\ \A i \in 1 .. Len(lists) : lists[i] \in Seq(Nat)
    <3> HIDE DEF n
    <3> QED BY <1>1, <1>2, <1>3
  <2>2. PICK g : /\ Partly(lists, g)
                 /\ \A k \in 0 .. Len(lists) : g[k] \in Seq(Nat) /\ Begins(g[k], g[Len(lists)])
                 /\ Joined(lists) = g[Len(lists)]
    BY <2>1, JoinedInParts
  <2>3. Len(lists) = n
    BY <1>2
  <2> HIDE DEF n
  <2> QED BY <2>2, <2>3
<1> DEFINE place(k) == a + Len(g[k])
<1>6. \A k \in 0 .. n : Len(g[k]) \in Nat
  BY <1>5
<1>7. g[n] \in Seq(Nat) /\ 0 \in 0 .. n /\ n \in 0 .. n
  BY <1>1, <1>5
<1>8. /\ WrittenAt(a, g[n]) /\ Byte(place(n)) = 0
      /\ a + Len(Listed(parts)) = place(n) + 1
  <2> DEFINE s == g[n]
             z == <<0>>
  <2>1. s \in Seq(Nat) /\ z \in Seq(Nat) /\ Len(z) = 1 /\ z[1] = 0 /\ Len(s) \in Nat
        /\ Len(s \o z) = Len(s) + 1
    BY <1>7
  <2>2. Listed(parts) = s \o z
    BY <1>4, <1>5
  <2> HIDE DEF s, z
  <2>3. WrittenAt(a, s) /\ WrittenAt(a + Len(s), z)
    BY <2>1, <2>2, WrittenConcat
  <2>4. Byte(a + Len(s) + 1 - 1) = 0 /\ a + Len(s) + 1 - 1 = a + Len(s)
    BY <2>1, <2>3 DEF WrittenAt
  <2>5. a + Len(Listed(parts)) = a + Len(s) + 1
    <3>1. Len(Listed(parts)) = Len(s) + 1
      BY <2>1, <2>2
    <3> QED BY <2>1, <3>1
  <2> QED BY <2>3, <2>4, <2>5 DEF s
<1>9. \A k \in 0 .. n : WrittenAt(a, g[k])
  <2>1. \A k \in 0 .. n : /\ Len(g[k]) <= Len(g[n])
                          /\ \A i \in 1 .. Len(g[k]) : g[k][i] = g[n][i]
    BY <1>5 DEF Begins
  <2>2. ASSUME NEW k \in 0 .. n, NEW i \in 1 .. Len(g[k]) PROVE Byte(a + i - 1) = g[k][i]
    <3>1. i \in 1 .. Len(g[n])
      BY <1>6, <1>7, <2>1
    <3> QED BY <1>8, <2>1, <3>1 DEF WrittenAt
  <2> QED BY <2>2 DEF WrittenAt
<1>10. ASSUME NEW k \in 1 .. n
       PROVE  /\ WrittenAt(place(k - 1), parts[k].bytes)
              /\ place(k) = place(k - 1) + Len(parts[k].bytes)
              /\ Byte(place(k - 1)) \notin {None, 0}
              /\ place(k - 1) \in Nat /\ place(k - 1) >= a
  <2>1. k \in 0 .. n /\ k - 1 \in 0 .. n
    OBVIOUS
  <2>2. PICK s \in Seq(Nat), t \in Seq(Nat) : s = g[k - 1] /\ t = parts[k].bytes
    BY <1>5, <2>1
  <2>3. g[k] = s \o t
    <3>1. g[k] = g[k - 1] \o lists[k]
      BY <1>2, <1>5 DEF Partly
    <3> QED BY <1>2, <2>2, <3>1
  <2>4. Len(s \o t) = Len(s) + Len(t) /\ Len(s) \in Nat /\ Len(t) \in Nat
    OBVIOUS
  <2>5. WrittenAt(a + Len(s), t)
    <3>1. WrittenAt(a, g[k]) /\ a \in Int
      BY <1>9, <2>1
    <3>2. WrittenAt(a, s \o t)
      BY <2>3, <3>1
    <3> QED BY <3>1, <3>2, WrittenConcat
  <2>6. t # <<>> /\ t[1] # 0 /\ t[1] \in Nat /\ 1 \in 1 .. Len(t)
    BY <2>2
  <2>7. Byte(a + Len(s) + 1 - 1) = t[1] /\ a + Len(s) + 1 - 1 = a + Len(s)
    BY <2>4, <2>5, <2>6 DEF WrittenAt
  <2>8. Byte(a + Len(s)) \notin {None, 0}
    BY <2>6, <2>7 DEF None
  <2>9. place(k) = a + Len(s) + Len(t) /\ place(k - 1) = a + Len(s)
    <3>1. Len(g[k]) = Len(s) + Len(t)
      BY <2>3, <2>4
    <3>2. a + (Len(s) + Len(t)) = a + Len(s) + Len(t)
      BY <2>4
    <3> QED BY <2>2, <3>1, <3>2
  <2>10. a + Len(s) \in Nat /\ a + Len(s) >= a
    BY <2>4
  <2> HIDE DEF place
  <2> QED BY <2>2, <2>5, <2>8, <2>9, <2>10
<1> HIDE DEF place
<1> DEFINE places == [k \in 0 .. n |-> place(k)]
<1>11. \A k \in 0 .. n : places[k] = place(k)
  OBVIOUS
<1>12. places[0] = a /\ Byte(places[n]) = 0 /\ places[n] \in Nat /\ a + Len(Listed(parts)) = places[n] + 1
  <2>1. place(0) = a
    <3>1. g[0] = <<>>
      BY <1>5 DEF Partly
    <3>2. Len(<<>>) = 0
      OBVIOUS
    <3> QED BY <3>1, <3>2 DEF place
  <2>2. place(n) \in Nat
    BY <1>6, <1>7 DEF place
  <2> HIDE DEF places
  <2> QED BY <1>7, <1>8, <1>11, <2>1, <2>2
<1>13. ASSUME NEW k \in 1 .. n
       PROVE  /\ WrittenAt(places[k - 1], parts[k].bytes)
              /\ places[k] = places[k - 1] + Len(parts[k].bytes)
              /\ Byte(places[k - 1]) \notin {None, 0}
              /\ places[k - 1] \in Nat /\ places[k - 1] >= a
  <2>1. places[k] = place(k) /\ places[k - 1] = place(k - 1)
    <3>1. k \in 0 .. n /\ k - 1 \in 0 .. n
      OBVIOUS
    <3> HIDE DEF places
    <3> QED BY <1>11, <3>1
  <2> HIDE DEF places
  <2> QED BY <1>10, <2>1
<1> HIDE DEF places
<1> QED BY <1>12, <1>13

(* A list, when each of its parts is read to its end.                      *)
LEMMA ListedRead ==
  ASSUME image \in Images, NEW a \in Nat, NEW f, AheadFrom(a, f),
         NEW parts, Len(parts) \in 0 .. MaxItems - 1,
         \A i \in 1 .. Len(parts) : /\ parts[i].bytes \in Seq(Nat) /\ parts[i].bytes # <<>>
                                    /\ parts[i].bytes[1] # 0
                                    /\ \A p \in Nat : p >= a /\ WrittenAt(p, parts[i].bytes)
                                         => f[p] = p + Len(parts[i].bytes),
         WrittenAt(a, Listed(parts))
  PROVE  /\ ItemsEnd(a, f) = a + Len(Listed(parts))
         /\ ItemCount(Items(a, f)) = Len(parts)
         /\ \A i \in 1 .. Len(parts) : /\ Items(a, f)[i - 1] \in Nat
                                       /\ Items(a, f)[i - 1] >= a
                                       /\ WrittenAt(Items(a, f)[i - 1], parts[i].bytes)
<1> DEFINE n == Len(parts)
<1>1. n \in Nat /\ n < MaxItems /\ MaxItems \in Nat
  BY FormsAssumption
<1>2. 0 \in 0 .. n /\ n \in 0 .. n
  BY <1>1
<1>3. PICK place :
        /\ place[0] = a /\ Byte(place[n]) = 0
        /\ place[n] \in Nat
        /\ a + Len(Listed(parts)) = place[n] + 1
        /\ \A k \in 1 .. n :
             /\ WrittenAt(place[k - 1], parts[k].bytes)
             /\ place[k] = place[k - 1] + Len(parts[k].bytes)
             /\ Byte(place[k - 1]) \notin {None, 0}
             /\ place[k - 1] \in Nat /\ place[k - 1] >= a
  BY <1>1, ListedParts
<1> DEFINE items == Items(a, f)
<1>4. /\ items[0] = a
       /\ \A i \in 1 .. MaxItems : items[i] = ItemNext(items[i - 1], f)
  BY ItemsFacts
<1> HIDE DEF items
<1>5. \A k \in 0 .. n : items[k] = place[k]
  <2> DEFINE G == {k \in 0 .. n : items[k] = place[k]}
  <2>1. 0 \in G
    BY <1>2, <1>3, <1>4
  <2>2. ASSUME NEW k \in 0 .. n, k + 1 \in 0 .. n, k \in G PROVE k + 1 \in G
    <3>1. k + 1 \in 1 .. n /\ k + 1 \in 1 .. MaxItems /\ (k + 1) - 1 = k
      BY <1>1, <2>2
    <3>2. items[k + 1] = ItemNext(place[k], f)
      BY <1>4, <2>2, <3>1
    <3>3. /\ WrittenAt(place[k], parts[k + 1].bytes) /\ Byte(place[k]) \notin {None, 0}
          /\ place[k + 1] = place[k] + Len(parts[k + 1].bytes)
          /\ place[k] \in Nat /\ place[k] >= a
      BY <1>3, <3>1
    <3>4. f[place[k]] = place[k] + Len(parts[k + 1].bytes)
      BY <3>1, <3>3
    <3> QED BY <2>2, <3>2, <3>3, <3>4 DEF ItemNext
  <2>3. \A k \in 0 .. n : k + 1 \in 0 .. n /\ k \in G => k + 1 \in G
    BY <2>2
  <2>4. 0 \in Nat /\ 0 <= n
    BY <1>1
  <2> HIDE DEF G
  <2>5. \A k \in 0 .. n : k \in G
    BY <1>1, <2>1, <2>3, <2>4, IntervalInduction
  <2> QED BY <2>5 DEF G
<1>6. \A k \in n + 1 .. MaxItems : items[k] = None
  <2> DEFINE G == {k \in n + 1 .. MaxItems : items[k] = None}
  <2>1. n + 1 \in G
    <3>1. n + 1 \in 1 .. MaxItems /\ (n + 1) - 1 = n /\ n + 1 \in n + 1 .. MaxItems
      BY <1>1
    <3>2. items[n + 1] = ItemNext(place[n], f)
      BY <1>2, <1>4, <1>5, <3>1
    <3>3. items[n + 1] = None
      BY <1>3, <3>2 DEF ItemNext
    <3> QED BY <3>1, <3>3
  <2>2. ASSUME NEW k \in n + 1 .. MaxItems, k + 1 \in n + 1 .. MaxItems, k \in G PROVE k + 1 \in G
    <3>1. k + 1 \in 1 .. MaxItems /\ (k + 1) - 1 = k
      BY <1>1, <2>2
    <3>2. items[k + 1] = ItemNext(None, f)
      BY <1>4, <2>2, <3>1
    <3>3. Byte(None) = None
      BY NothingBefore
    <3> QED BY <2>2, <3>2, <3>3 DEF ItemNext
  <2>3. \A k \in n + 1 .. MaxItems : k + 1 \in n + 1 .. MaxItems /\ k \in G => k + 1 \in G
    BY <2>2
  <2>4. n + 1 \in Nat /\ n + 1 <= MaxItems
    BY <1>1
  <2> HIDE DEF G
  <2>5. \A k \in n + 1 .. MaxItems : k \in G
    BY <1>1, <2>1, <2>3, <2>4, IntervalInduction
  <2> QED BY <2>5 DEF G
<1>7. Closed(items) = {n}
  <2>1. n \in 0 .. MaxItems - 1 /\ Byte(items[n]) = 0
    BY <1>1, <1>2, <1>3, <1>5
  <2>2. ASSUME NEW k \in 0 .. MaxItems - 1, Byte(items[k]) = 0 PROVE k = n
    <3>1. CASE k < n
      <4>1. k + 1 \in 1 .. n /\ (k + 1) - 1 = k /\ k \in 0 .. n
        BY <1>1, <3>1
      <4> QED BY <1>3, <1>5, <2>2, <4>1
    <3>2. CASE k > n
      <4>1. k \in n + 1 .. MaxItems
        BY <1>1, <3>2
      <4>2. Byte(None) = None
        BY NothingBefore
      <4> QED BY <1>6, <2>2, <4>1, <4>2 DEF None
    <3> QED BY <1>1, <3>1, <3>2
  <2> QED BY <2>1, <2>2 DEF Closed
<1>8. ItemCount(items) = n /\ ItemsEnd(a, f) = place[n] + 1
  <2>1. ItemCount(items) = n
    BY <1>7 DEF ItemCount
  <2>2. ItemsEnd(a, f) = items[n] + 1
    BY <1>7, <2>1 DEF ItemsEnd, items
  <2> QED BY <1>2, <1>5, <2>1, <2>2
<1>9. ASSUME NEW i \in 1 .. n
       PROVE  items[i - 1] \in Nat /\ items[i - 1] >= a /\ WrittenAt(items[i - 1], parts[i].bytes)
  <2>1. i - 1 \in 0 .. n
    OBVIOUS
  <2> QED BY <1>3, <1>5, <2>1
<1> QED BY <1>3, <1>8, <1>9 DEF items

LEMMA ConcatIs ==
  ASSUME NEW s \in Seq(Nat), NEW t \in Seq(Nat)
  PROVE  /\ s \o t \in Seq(Nat) /\ Len(s \o t) = Len(s) + Len(t)
         /\ Len(s) \in Nat /\ Len(t) \in Nat
         /\ \A k \in 1 .. Len(s) : (s \o t)[k] = s[k]
OBVIOUS

(* The tags. *)
LEMMA TagsAre ==
  /\ DOMAIN VALUE_TYPES = 1 .. 22 /\ Len(VALUE_TYPES) = 22
  /\ \A c \in 0 .. 21 :
       /\ VALUE_TYPES[c + 1] = "vaNull" => c = 0
       /\ VALUE_TYPES[c + 1] = "vaList" => c = 1
       /\ VALUE_TYPES[c + 1] \in INT_TAGS => c \in 2 .. 4
       /\ VALUE_TYPES[c + 1] \in DOMAIN FixedSize \union STRS \union LONGS \union LISTS
  /\ VALUE_TYPES[2] = "vaList"
BY DEF VALUE_TYPES, INT_TAGS, FixedSize, STRS, LONGS, LISTS

LEMMA KindsAre ==
  /\ DOMAIN FixedSize = {"vaNull", "vaFalse", "vaTrue", "vaNil", "vaInt8", "vaInt16", "vaInt32",
                         "vaSingle", "vaExtended", "vaCurrency", "vaDate", "vaInt64", "vaDouble"}
  /\ \A k \in DOMAIN FixedSize :
       /\ FixedSize[k] \in Nat
       /\ k \notin STRS /\ k \notin LONGS /\ k \notin LISTS
       /\ \A f, a : a \in Nat /\ Tag(a) = k => ValueEndBy(a, f) = Past(a + 1, FixedSize[k])
  /\ INT_TAGS \subseteq DOMAIN FixedSize
BY DEF FixedSize, STRS, LONGS, LISTS, INT_TAGS, ValueEndBy

(* The bytes of a list are those of its parts, and one more.               *)
LEMMA ListedIs ==
  ASSUME NEW parts, Len(parts) \in Nat, \A i \in 1 .. Len(parts) : parts[i].bytes \in Seq(Nat)
  PROVE  /\ Listed(parts) \in Seq(Nat)
         /\ \A i \in 1 .. Len(parts) : Len(parts[i].bytes) < Len(Listed(parts))
<1> DEFINE lists == [i \in 1 .. Len(parts) |-> parts[i].bytes]
           j == Joined(lists)
<1>1. Len(lists) = Len(parts) /\ \A i \in 1 .. Len(parts) : lists[i] = parts[i].bytes
  OBVIOUS
<1>2. Listed(parts) = j \o <<0>>
  BY DEF Listed
<1> HIDE DEF lists
<1>3. Len(lists) \in Nat /\ \A i \in 1 .. Len(lists) : lists[i] \in Seq(Nat)
  BY <1>1
<1>4. j \in Seq(Nat) /\ \A i \in 1 .. Len(lists) : Len(lists[i]) <= Len(j)
  BY <1>3, NoneLonger
<1> HIDE DEF j
<1>5. j \o <<0>> \in Seq(Nat) /\ Len(j \o <<0>>) = Len(j) + 1 /\ Len(j) \in Nat
  BY <1>4
<1>6. ASSUME NEW i \in 1 .. Len(parts) PROVE Len(parts[i].bytes) < Len(Listed(parts))
  <2>1. Len(parts[i].bytes) <= Len(j) /\ Len(parts[i].bytes) \in Nat
    BY <1>1, <1>4
  <2>2. Len(Listed(parts)) = Len(j) + 1
    BY <1>2, <1>5
  <2> DEFINE x == Len(parts[i].bytes)
             y == Len(Listed(parts))
             z == Len(j)
  <2>3. x \in Nat /\ x <= z /\ y = z + 1 /\ z \in Nat
    BY <1>5, <2>1, <2>2
  <2> HIDE DEF x, y, z
  <2>4. x < y
    BY <2>3
  <2> QED BY <2>4 DEF x, y
<1> QED BY <1>2, <1>5, <1>6

(* An integer is a value of a fixed size; what it is written as.           *)
LEMMA ValueIs ==
  ASSUME NEW v \in Values
  PROVE  /\ IsValue(v) /\ v.code \in 0 .. 21 /\ v.bytes \in Seq(Nat)
         /\ Kind(v) = VALUE_TYPES[v.code + 1]
         /\ v.bytes = <<v.code>> \o Payload(v)
         /\ v.bytes # <<>> /\ v.bytes[1] = v.code
<1>1. IsValue(v)
  BY WriterAssumption
<1>2. v.code \in 0 .. 21 /\ v.bytes \in Seq(Nat) /\ v.bytes = <<v.code>> \o Payload(v)
  BY <1>1, TagsAre, SMTT(30) DEF IsValue
<1> QED BY <1>1, <1>2 DEF Kind

(* A property is its name and its value, neither of them empty.            *)
LEMMA PropIs ==
  ASSUME NEW props, AreProps(props), NEW i \in 1 .. Len(props)
  PROVE  LET p == props[i]
         IN /\ p.name \in Seq(Ident) /\ p.name \in Seq(Nat) /\ p.name # <<>>
            /\ p.value \in Values /\ p.bytes = Str(p.name) \o p.value.bytes
            /\ p.bytes \in Seq(Nat) /\ p.bytes # <<>> /\ p.bytes[1] # 0
            /\ Len(p.value.bytes) < Len(p.bytes)
            /\ Len(p.bytes) = Len(Str(p.name)) + Len(p.value.bytes)
            /\ Len(Str(p.name)) \in Nat
<1>1. PICK name, value, bytes : name = props[i].name /\ value = props[i].value /\ bytes = props[i].bytes
  OBVIOUS
<1>2. Identifier(name) /\ value \in Values /\ bytes = Str(name) \o value.bytes
  BY <1>1 DEF AreProps
<1>3. name \in Seq(Ident) /\ name # <<>> /\ 0 \in Nat
  BY <1>2 DEF Identifier
<1>4. name \in Seq(Nat)
  BY <1>3, NameRead
<1>5. PICK s, t : s = Str(name) /\ t = value.bytes
  OBVIOUS
<1>6. s \in Seq(Nat) /\ Len(s) = 1 + Len(name) /\ s[1] = Len(name) /\ t \in Seq(Nat)
  BY <1>2, <1>4, <1>5, StrIs, ValueIs
<1>7. Len(name) \in Nat /\ Len(name) # 0
  BY <1>3
<1>8. /\ s \o t \in Seq(Nat) /\ Len(s \o t) = Len(s) + Len(t) /\ Len(t) \in Nat
      /\ \A k \in 1 .. Len(s) : (s \o t)[k] = s[k]
  BY <1>6, ConcatIs
<1>9. s \o t # <<>> /\ (s \o t)[1] # 0 /\ Len(t) < Len(s \o t) /\ Len(s) \in Nat
  <2>1. Len(s) \in Nat /\ Len(s) > 0 /\ 1 \in 1 .. Len(s)
    BY <1>6, <1>7
  <2>2. (s \o t)[1] = s[1]
    BY <1>8, <2>1
  <2>3. Len(s \o t) > 0 /\ Len(t) < Len(s \o t)
    BY <1>8, <2>1
  <2>4. s \o t # <<>>
    BY <1>8, <2>3
  <2> QED BY <1>6, <1>7, <2>1, <2>2, <2>3, <2>4
<1> QED BY <1>1, <1>2, <1>3, <1>4, <1>5, <1>6, <1>8, <1>9

LEMMA PropsAre ==
  ASSUME NEW props, AreProps(props)
  PROVE  /\ Len(props) \in 0 .. MaxItems - 1
         /\ Listed(props) \in Seq(Nat)
         /\ \A i \in 1 .. Len(props) : Len(props[i].value.bytes) < Len(Listed(props))
<1>1. Len(props) \in 0 .. MaxItems - 1
  BY DEF AreProps
<1>2. \A i \in 1 .. Len(props) : /\ props[i].bytes \in Seq(Nat)
                                 /\ Len(props[i].value.bytes) < Len(props[i].bytes)
                                 /\ props[i].value \in Values
  BY PropIs
<1>3. Len(props) \in Nat /\ \A i \in 1 .. Len(props) : props[i].bytes \in Seq(Nat)
  BY <1>1, <1>2
<1>4. /\ Listed(props) \in Seq(Nat)
      /\ \A i \in 1 .. Len(props) : Len(props[i].bytes) < Len(Listed(props))
  BY <1>3, ListedIs
<1>5. ASSUME NEW i \in 1 .. Len(props) PROVE Len(props[i].value.bytes) < Len(Listed(props))
  <2>1. PICK x, y, z : x = Len(props[i].value.bytes) /\ y = Len(props[i].bytes)
                       /\ z = Len(Listed(props))
    OBVIOUS
  <2>2. x \in Nat /\ y \in Nat /\ z \in Nat
    <3>1. props[i].value.bytes \in Seq(Nat)
      BY <1>2, ValueIs
    <3> QED BY <1>2, <1>4, <2>1, <3>1
  <2>3. x < y /\ y < z
    BY <1>2, <1>4, <2>1
  <2>4. x < z
    BY <2>2, <2>3
  <2> QED BY <2>1, <2>4
<1> QED BY <1>1, <1>4, <1>5

LEMMA FixedIs ==
  ASSUME NEW v \in Values, Kind(v) \in DOMAIN FixedSize
  PROVE  /\ Payload(v) = v.chars /\ v.chars \in Seq(Nat)
         /\ Len(v.chars) = FixedSize[Kind(v)]
<1>1. Kind(v) \notin STRS /\ Kind(v) \notin LONGS /\ Kind(v) \notin LISTS
  BY KindsAre
<1>2. IsValue(v)
  BY ValueIs
<1> QED BY <1>1, <1>2 DEF Payload, IsValue

LEMMA IndexIs ==
  ASSUME NEW x \in Integers8To32
  PROVE  /\ \E v \in Values : x = v.bytes /\ Kind(v) \in INT_TAGS
         /\ x \in Seq(Nat) /\ Len(x) \in Nat /\ Len(x) > 0 /\ x # <<>> /\ x[1] \in 2 .. 4
<1>1. PICK v \in Values : x = v.bytes /\ Kind(v) \in INT_TAGS
  BY DEF Integers8To32
<1>2. v.code \in 2 .. 4 /\ x = <<v.code>> \o Payload(v) /\ x \in Seq(Nat)
  BY <1>1, ValueIs, TagsAre
<1>3. PICK code, t : code = v.code /\ t = Payload(v)
  OBVIOUS
<1>4. x = <<code>> \o t
  BY <1>2, <1>3
<1>5. t \in Seq(Nat)
  BY <1>1, <1>3, FixedIs, KindsAre
<1>6. Len(x) = 1 + Len(t) /\ x[1] = code /\ Len(t) \in Nat
  BY <1>4, <1>5
<1>7. Len(x) > 0 /\ x[1] \in 2 .. 4 /\ Len(x) \in Nat /\ x # <<>>
  <2>1. code \in 2 .. 4
    BY <1>2, <1>3
  <2>2. Len(x) > 0 /\ x[1] \in 2 .. 4 /\ Len(x) \in Nat
    BY <1>6, <2>1
  <2>3. x # <<>>
    BY <2>2
  <2> QED BY <2>2, <2>3
<1> QED BY <1>1, <1>2, <1>7

(* What a value begins with, and what is behind. *)
LEMMA PartIs ==
  ASSUME NEW v \in Values, Kind(v) \in LISTS, NEW i \in 1 .. Len(v.parts)
  PROVE  LET x == v.parts[i] IN x.bytes \in Seq(Nat) /\ x.bytes # <<>> /\ x.bytes[1] # 0
<1>1. PICK x, kind : x = v.parts[i] /\ kind = Kind(v)
  OBVIOUS
<1>2. IsPart(kind, x) /\ kind \in LISTS
  BY <1>1, ValueIs DEF IsValue
<1>3. CASE kind = "vaSet"
  <2>1. x.name \in Seq(Ident) /\ x.name # <<>> /\ x.bytes = Str(x.name)
    BY <1>2, <1>3 DEF IsPart, Identifier
  <2>2. PICK name : name = x.name
    OBVIOUS
  <2>3. name \in Seq(Nat) /\ 0 \in Nat
    BY <2>1, <2>2, NameRead
  <2>4. Str(name) \in Seq(Nat) /\ Len(Str(name)) = 1 + Len(name) /\ Str(name)[1] = Len(name)
    BY <2>3, StrIs
  <2>5. Len(name) \in Nat /\ Len(name) # 0
    BY <2>1, <2>2, <2>3
  <2>6. Str(name) # <<>>
    BY <2>4, <2>5
  <2> QED BY <1>1, <2>1, <2>2, <2>4, <2>5, <2>6
<1>4. CASE kind = "vaList"
  <2>1. x \in Values /\ Kind(x) # "vaNull"
    BY <1>2, <1>4 DEF IsPart
  <2>2. /\ x.code \in 0 .. 21 /\ Kind(x) = VALUE_TYPES[x.code + 1]
        /\ x.bytes \in Seq(Nat)
    BY <2>1, ValueIs
  <2>3. x.code # 0
    <3>1. VALUE_TYPES[0 + 1] = "vaNull"
      BY DEF VALUE_TYPES
    <3> QED BY <2>1, <2>2, <3>1
  <2>4. x.bytes # <<>> /\ x.bytes[1] # 0
    BY <2>1, <2>3, ValueIs
  <2> QED BY <1>1, <2>2, <2>4
<1>5. CASE kind = "vaCollection"
  <2>1. PICK s, l : s = x.index /\ l = Listed(x.props)
    OBVIOUS
  <2>2. x.bytes = s \o <<1>> \o l /\ AreProps(x.props)
        /\ s \in {<<>>} \union Integers8To32
    BY <1>2, <1>5, <2>1 DEF IsPart
  <2>3. l \in Seq(Nat)
    BY <2>1, <2>2, PropsAre
  <2>4. CASE s = <<>>
    <3>1. s \o <<1>> \o l = <<1>> \o l
      BY <2>3, <2>4
    <3>2. <<1>> \o l \in Seq(Nat) /\ <<1>> \o l # <<>> /\ (<<1>> \o l)[1] = 1
      BY <2>3
    <3>3. PICK w : w = <<1>> \o l
      OBVIOUS
    <3>4. x.bytes = w /\ w \in Seq(Nat) /\ w # <<>> /\ w[1] # 0
      BY <2>2, <3>1, <3>2, <3>3
    <3> QED BY <1>1, <3>4
  <2>5. CASE s # <<>>
    <3>1. s \in Seq(Nat) /\ s[1] \in 2 .. 4 /\ Len(s) > 0
      BY <2>2, <2>5, IndexIs
    <3> DEFINE t == <<1>> \o l
    <3>2. t \in Seq(Nat)
      BY <2>3
    <3>3. s \o <<1>> \o l = s \o t
      BY <2>3, <3>1
    <3> HIDE DEF t
    <3>4. /\ s \o t \in Seq(Nat) /\ Len(s \o t) = Len(s) + Len(t)
          /\ Len(s) \in Nat /\ Len(t) \in Nat
          /\ \A k \in 1 .. Len(s) : (s \o t)[k] = s[k]
      BY <3>1, <3>2, ConcatIs
    <3>5. (s \o t)[1] # 0 /\ Len(s \o t) > 0
      BY <3>1, <3>4
    <3>6. s \o t # <<>>
      BY <3>4, <3>5
    <3>7. PICK w : w = s \o t
      OBVIOUS
    <3>8. x.bytes = w /\ w \in Seq(Nat) /\ w # <<>> /\ w[1] # 0
      BY <2>2, <3>3, <3>4, <3>5, <3>6, <3>7
    <3> QED BY <1>1, <3>8
  <2> QED BY <2>4, <2>5
<1> QED BY <1>2, <1>3, <1>4, <1>5 DEF LISTS

LEMMA LongIs ==
  ASSUME NEW chars \in Seq(Nat), NEW width \in {1, 2}
  PROVE  Long(chars, width) \in Seq(Nat)
<1>1. PICK n : n = Len(chars) \div width
  OBVIOUS
<1>2. n \in Nat /\ Base \in Nat /\ Base > 0
  BY <1>1, ReaderAssumption
<1>3. PICK lo, hi : lo = n % Base /\ hi = n \div Base
  OBVIOUS
<1>4. lo \in Nat /\ hi \in Nat
  BY <1>2, <1>3
<1>5. <<lo, hi>> \in Seq(Nat)
  BY <1>4
<1>6. Long(chars, width) = <<lo, hi>> \o chars
  BY <1>1, <1>3 DEF Long
<1> QED BY <1>5, <1>6

LEMMA PayloadIs ==
  ASSUME NEW v \in Values
  PROVE  Payload(v) \in Seq(Nat)
<1>1. IsValue(v) /\ Kind(v) \in DOMAIN FixedSize \union STRS \union LONGS \union LISTS
  BY ValueIs, TagsAre
<1>2. v.chars \in Seq(Nat)
  BY <1>1 DEF IsValue
<1>3. CASE Kind(v) \in LISTS
  <2>1. Payload(v) = Listed(v.parts)
    <3>1. Kind(v) \notin STRS /\ Kind(v) \notin LONGS
      BY <1>3 DEF STRS, LISTS, LONGS
    <3> QED BY <1>3, <3>1 DEF Payload
  <2>2. PICK parts : parts = v.parts
    OBVIOUS
  <2>3. Len(parts) \in Nat
    BY <1>1, <1>3, <2>2 DEF IsValue
  <2>4. \A i \in 1 .. Len(parts) : parts[i].bytes \in Seq(Nat)
    BY <1>3, <2>2, PartIs
  <2> QED BY <2>1, <2>2, <2>3, <2>4, ListedIs
<1>4. CASE Kind(v) \in STRS
  <2>1. Kind(v) \notin LISTS /\ Kind(v) \notin LONGS
    BY <1>4 DEF STRS, LISTS, LONGS
  <2>2. Payload(v) = Str(v.chars)
    BY <1>4, <2>1 DEF Payload
  <2> QED BY <1>2, <2>2, StrIs
<1>5. CASE Kind(v) \in LONGS
  <2>1. Kind(v) \notin LISTS /\ Kind(v) \notin STRS /\ CharSize(Kind(v)) \in {1, 2}
    BY <1>5 DEF STRS, LISTS, LONGS, CharSize
  <2>2. Payload(v) = Long(v.chars, CharSize(Kind(v)))
    BY <1>5, <2>1 DEF Payload
  <2> QED BY <1>2, <2>1, <2>2, LongIs
<1>6. CASE Kind(v) \in DOMAIN FixedSize
  BY <1>6, FixedIs
<1> QED BY <1>1, <1>3, <1>4, <1>5, <1>6

LEMMA ValueStarts ==
  ASSUME NEW v \in Values, Payload(v) \in Seq(Nat), NEW a \in Nat, WrittenAt(a, v.bytes)
  PROVE  /\ Tag(a) = Kind(v) /\ WrittenAt(a + 1, Payload(v))
         /\ Len(v.bytes) = 1 + Len(Payload(v)) /\ Len(Payload(v)) \in Nat
<1>1. PICK code, t : code = v.code /\ t = Payload(v)
  OBVIOUS
<1>2. code \in 0 .. 21 /\ v.bytes = <<code>> \o t
  BY <1>1, ValueIs
<1>3. t \in Seq(Nat) /\ code \in Nat /\ a \in Int
  <2>1. t \in Seq(Nat)
    BY <1>1, Zenon
  <2>2. code \in 0 .. 21
    BY <1>2, Zenon
  <2>3. code \in Nat
    BY <2>2
  <2>4. a \in Int
    OBVIOUS
  <2> QED BY <2>1, <2>3, <2>4, Zenon
<1>4. WrittenAt(a, <<code>> \o t)
  BY <1>2
<1>5. Byte(a) = code /\ WrittenAt(a + 1, t) /\ Len(<<code>> \o t) = 1 + Len(t) /\ Len(t) \in Nat
  BY <1>3, <1>4, WrittenByte
<1>6. code + 1 \in DOMAIN VALUE_TYPES /\ Kind(v) = VALUE_TYPES[code + 1]
  <2>1. code + 1 \in 1 .. 22
    BY <1>2
  <2> QED BY <1>1, <2>1, TagsAre DEF Kind
<1>7. Tag(a) = Kind(v)
  BY <1>5, <1>6 DEF Tag
<1> QED BY <1>1, <1>2, <1>5, <1>7

(* A value is read to its own end, wherever it stands.                     *)
Reads(v) == \A p \in Nat : WrittenAt(p, v.bytes) => ValueEnd[p] = p + Len(v.bytes)

LEMMA FixedRead ==
  ASSUME image \in Images, NEW v \in Values, Kind(v) \in DOMAIN FixedSize
  PROVE  Reads(v)
<1> SUFFICES ASSUME NEW a \in Nat, WrittenAt(a, v.bytes) PROVE ValueEnd[a] = a + Len(v.bytes)
  BY DEF Reads
<1>1. PICK t : t = Payload(v)
  OBVIOUS
<1>2. t \in Seq(Nat) /\ Len(t) = FixedSize[Kind(v)]
  BY <1>1, FixedIs
<1>3. Tag(a) = Kind(v) /\ WrittenAt(a + 1, t) /\ Len(v.bytes) = 1 + Len(t) /\ Len(t) \in Nat
  BY <1>1, <1>2, ValueStarts
<1>4. ValueEnd[a] = Past(a + 1, Len(t))
  BY <1>2, <1>3, KindsAre, ValueEndIs
<1>5. Past(a + 1, Len(t)) = a + 1 + Len(t)
  <2>1. a + 1 \in Int
    OBVIOUS
  <2> QED BY <1>2, <1>3, <2>1, WrittenThere
<1> QED BY <1>3, <1>4, <1>5

LEMMA PropEndsAhead ==
  ASSUME image \in Images
  PROVE  AheadFrom(0, PropEnds(ValueEnd))
<1> SUFFICES ASSUME NEW p \in Nat PROVE Ahead(p, PropEnds(ValueEnd)[p])
  BY DEF AheadFrom
<1>1. CASE NameEnd(p) = None
  <2>1. PropEnds(ValueEnd)[p] = None
    BY <1>1 DEF PropEnds
  <2> QED BY <2>1 DEF Ahead
<1>2. CASE NameEnd(p) # None
  <2>1. PropEnds(ValueEnd)[p] = ValueEnd[NameEnd(p)]
    BY <1>2 DEF PropEnds
  <2>2. Ahead(p, NameEnd(p)) /\ p < NameEnd(p) /\ NameEnd(p) \in Int
    BY <1>2, NameAhead DEF Ahead, Whole
  <2>3. NameEnd(p) \in Nat
    BY <2>2
  <2>4. Ahead(NameEnd(p), ValueEnd[NameEnd(p)])
    BY <2>3, ValueEndIs DEF AheadFrom
  <2> QED BY <1>2, <2>1, <2>2, <2>4, AheadJoins
<1> QED BY <1>1, <1>2

(* A property is read where it stands: its name, its value, and its end.   *)
LEMMA PropRead ==
  ASSUME image \in Images, NEW props, AreProps(props), NEW i \in 1 .. Len(props),
         Reads(props[i].value), NEW p \in Nat, WrittenAt(p, props[i].bytes)
  PROVE  /\ PropEnds(ValueEnd)[p] = p + Len(props[i].bytes)
         /\ WrittenAt(p, Str(props[i].name))
         /\ StrEnd(p) \in Nat /\ WrittenAt(StrEnd(p), props[i].value.bytes)
<1>1. PICK name, value : name = props[i].name /\ value = props[i].value
  OBVIOUS
<1>2. PICK s, t : s = Str(name) /\ t = value.bytes
  OBVIOUS
<1>3. /\ name \in Seq(Ident) /\ name \in Seq(Nat) /\ name # <<>> /\ value \in Values
      /\ props[i].bytes = s \o t /\ Len(props[i].bytes) = Len(s) + Len(t)
  BY <1>1, <1>2, PropIs
<1>4. s \in Seq(Nat) /\ t \in Seq(Nat) /\ Len(s) \in Nat /\ Len(t) \in Nat /\ p \in Int
  <2>1. value.bytes \in Seq(Nat)
    BY <1>3, ValueIs
  <2>2. s \in Seq(Nat)
    BY <1>2, <1>3, StrIs
  <2> QED BY <1>2, <2>1, <2>2
<1>5. WrittenAt(p, s) /\ WrittenAt(p + Len(s), t)
  <2>1. WrittenAt(p, s \o t)
    BY <1>3
  <2> QED BY <1>4, <2>1, WrittenConcat
<1>6. NameEnd(p) = p + Len(s) /\ StrEnd(p) = p + Len(s)
  BY <1>2, <1>3, <1>4, <1>5, NameRead, StrRead
<1>7. p + Len(s) \in Nat /\ p + Len(s) # None
  BY <1>4 DEF None
<1>8. PropEnds(ValueEnd)[p] = ValueEnd[p + Len(s)]
  BY <1>6, <1>7 DEF PropEnds
<1>9. ValueEnd[p + Len(s)] = p + Len(s) + Len(t)
  <2>1. Reads(value)
    BY <1>1
  <2> QED BY <1>2, <1>5, <1>7, <2>1 DEF Reads
<1>10. p + Len(s) + Len(t) = p + (Len(s) + Len(t))
  BY <1>4
<1> QED BY <1>1, <1>2, <1>3, <1>5, <1>6, <1>7, <1>8, <1>9, <1>10

LEMMA PropsRead ==
  ASSUME image \in Images, NEW a \in Nat, NEW props, AreProps(props),
         \A i \in 1 .. Len(props) : Reads(props[i].value),
         WrittenAt(a, Listed(props))
  PROVE  /\ PropsEnd(a) = a + Len(Listed(props))
         /\ ItemCount(Items(a, PropEnds(ValueEnd))) = Len(props)
         /\ \A i \in 1 .. Len(props) :
              /\ Items(a, PropEnds(ValueEnd))[i - 1] \in Nat
              /\ WrittenAt(Items(a, PropEnds(ValueEnd))[i - 1], props[i].bytes)
<1> DEFINE F == PropEnds(ValueEnd)
<1>1. AheadFrom(a, F)
  BY PropEndsAhead DEF AheadFrom
<1>2. \A i \in 1 .. Len(props) : /\ props[i].bytes \in Seq(Nat) /\ props[i].bytes # <<>>
                                 /\ props[i].bytes[1] # 0
  BY PropIs
<1>3. \A i \in 1 .. Len(props) : \A p \in Nat :
        WrittenAt(p, props[i].bytes) => F[p] = p + Len(props[i].bytes)
  BY PropRead
<1>4. Len(props) \in 0 .. MaxItems - 1
  BY PropsAre
<1>5. PropsEnd(a) = ItemsEnd(a, F)
  BY DEF PropsEnd, PropsEndBy
<1> HIDE DEF F
<1>6. \A i \in 1 .. Len(props) : /\ props[i].bytes \in Seq(Nat) /\ props[i].bytes # <<>>
                                 /\ props[i].bytes[1] # 0
                                 /\ \A p \in Nat : p >= a /\ WrittenAt(p, props[i].bytes)
                                      => F[p] = p + Len(props[i].bytes)
  BY <1>2, <1>3
<1>7. /\ ItemsEnd(a, F) = a + Len(Listed(props))
      /\ ItemCount(Items(a, F)) = Len(props)
      /\ \A i \in 1 .. Len(props) : /\ Items(a, F)[i - 1] \in Nat
                                    /\ Items(a, F)[i - 1] >= a
                                    /\ WrittenAt(Items(a, F)[i - 1], props[i].bytes)
  BY <1>1, <1>4, <1>6, ListedRead
<1> QED BY <1>5, <1>7 DEF F

(* So is an item of a collection.                                          *)
LEMMA CollectionItemRead ==
  ASSUME image \in Images, NEW index, index \in {<<>>} \union Integers8To32,
         NEW props, AreProps(props), \A i \in 1 .. Len(props) : Reads(props[i].value),
         NEW p \in Nat, WrittenAt(p, index \o << 1 >> \o Listed(props))
  PROVE  CollectionItemEnd(p, ValueEnd) = p + Len(index \o <<1>> \o Listed(props))
<1>1. PICK l : l = Listed(props)
  OBVIOUS
<1>2. l \in Seq(Nat)
  BY <1>1, PropsAre
<1> DEFINE t == <<1>> \o l
<1>3. t \in Seq(Nat) /\ Len(t) = 1 + Len(l) /\ Len(l) \in Nat
  BY <1>2
<1>4. index \in Seq(Nat) /\ Len(index) \in Nat
  <2>1. CASE index = <<>>
    BY <2>1
  <2>2. CASE index \in Integers8To32
    BY <2>2, IndexIs
  <2> QED BY <2>1, <2>2
<1>5. index \o <<1>> \o l = index \o t
  BY <1>2, <1>4, SMTT(30)
<1>6. ASSUME NEW q \in Nat, WrittenAt(q, t)
      PROVE  Tag(q) = "vaList" /\ PropsEndBy(q + 1, ValueEnd) = q + Len(t)
  <2>1. Byte(q) = 1 /\ WrittenAt(q + 1, l)
    <3>1. 1 \in Nat /\ q \in Int /\ WrittenAt(q, <<1>> \o l)
      BY <1>6
    <3> HIDE DEF t
    <3> QED BY <1>2, <3>1, WrittenByte
  <2>2. Tag(q) = "vaList"
    <3>1. 1 + 1 \in DOMAIN VALUE_TYPES /\ VALUE_TYPES[1 + 1] = "vaList"
      BY TagsAre
    <3> QED BY <2>1, <3>1 DEF Tag
  <2>3. PropsEnd(q + 1) = q + 1 + Len(l)
    BY <1>1, <2>1, PropsRead
  <2> HIDE DEF t
  <2> QED BY <1>3, <2>2, <2>3 DEF PropsEnd
<1> HIDE DEF t
<1>7. WrittenAt(p + Len(index), t) /\ Len(index \o t) = Len(index) + Len(t)
      /\ WrittenAt(p, index)
  <2>1. WrittenAt(p, index \o <<1>> \o l) /\ p \in Int
    BY <1>1
  <2>3. WrittenAt(p, index \o t)
    BY <1>5, <2>1
  <2>2. Len(index \o t) = Len(index) + Len(t)
    BY <1>3, <1>4, ConcatIs
  <2> QED BY <1>3, <1>4, <2>1, <2>2, <2>3, WrittenConcat
<1>8. p + Len(index) \in Nat /\ p + Len(index) # None
  BY <1>4 DEF None
<1>9. /\ Tag(p + Len(index)) = "vaList"
      /\ PropsEndBy(p + Len(index) + 1, ValueEnd) = p + Len(index) + Len(t)
  BY <1>6, <1>7, <1>8
<1>10. (IF Tag(p) \in INT_TAGS THEN ValueEnd[p] ELSE p) = p + Len(index)
  <2>1. CASE index = <<>>
    <3>1. p + Len(index) = p
      BY <2>1
    <3>2. "vaList" \notin INT_TAGS
      BY DEF INT_TAGS
    <3> QED BY <1>9, <3>1, <3>2
  <2>2. CASE index \in Integers8To32
    <3>1. PICK v \in Values : index = v.bytes /\ Kind(v) \in INT_TAGS
      BY <2>2, IndexIs
    <3>2. WrittenAt(p, v.bytes) /\ Reads(v)
      BY <1>7, <3>1, FixedRead, KindsAre
    <3>3. Tag(p) = Kind(v)
      BY <3>1, <3>2, ValueStarts, FixedIs, KindsAre
    <3> QED BY <3>1, <3>2, <3>3 DEF Reads
  <2> QED BY <2>1, <2>2
<1>11. CollectionItemEnd(p, ValueEnd) = p + Len(index) + Len(t)
  BY <1>8, <1>9, <1>10 DEF CollectionItemEnd
<1>12. p + Len(index) + Len(t) = p + (Len(index) + Len(t))
  BY <1>3, <1>4
<1> QED BY <1>1, <1>5, <1>7, <1>11, <1>12

(* What reads the parts of each kind of list.                              *)
PartEnds(kind) ==
  IF kind = "vaSet" THEN [p \in Nat |-> NameEnd(p)]
  ELSE IF kind = "vaList" THEN ValueEnd
  ELSE [p \in Nat |-> CollectionItemEnd(p, ValueEnd)]

LEMMA PartEndsAhead ==
  ASSUME image \in Images, NEW kind
  PROVE  AheadFrom(0, PartEnds(kind))
<1>1. CASE kind = "vaSet"
  <2>1. \A p \in Nat : Ahead(p, NameEnd(p))
    BY NameAhead
  <2>2. \A p \in Nat : PartEnds(kind)[p] = NameEnd(p)
    BY <1>1 DEF PartEnds
  <2> QED BY <2>1, <2>2 DEF AheadFrom
<1>2. CASE kind = "vaList"
  <2>1. PartEnds(kind) = ValueEnd
    BY <1>2 DEF PartEnds
  <2> QED BY <2>1, ValueEndIs
<1>3. CASE kind \notin {"vaSet", "vaList"}
  <2>1. \A p \in Nat : PartEnds(kind)[p] = CollectionItemEnd(p, ValueEnd)
    BY <1>3 DEF PartEnds
  <2>2. AheadFrom(0, ValueEnd) /\ 0 \in Int
    BY ValueEndIs
  <2>3. \A p \in Nat : p >= 0 => Ahead(p, CollectionItemEnd(p, ValueEnd))
    BY <2>2, CollectionItemAhead
  <2> QED BY <2>1, <2>3 DEF AheadFrom
<1> QED BY <1>1, <1>2, <1>3

LEMMA PartRead ==
  ASSUME image \in Images, NEW v \in Values, Kind(v) \in LISTS, NEW i \in 1 .. Len(v.parts),
         \A w \in Values : Len(w.bytes) < Len(v.parts[i].bytes) \/ w = v.parts[i] => Reads(w),
         NEW p \in Nat, WrittenAt(p, v.parts[i].bytes)
  PROVE  PartEnds(Kind(v))[p] = p + Len(v.parts[i].bytes)
<1>1. PICK x, kind : x = v.parts[i] /\ kind = Kind(v)
  OBVIOUS
<1>2. IsPart(kind, x) /\ kind \in LISTS
  BY <1>1, ValueIs DEF IsValue
<1>3. WrittenAt(p, x.bytes) /\ \A w \in Values : Len(w.bytes) < Len(x.bytes) \/ w = x => Reads(w)
  BY <1>1
<1>4. CASE kind = "vaSet"
  <2>1. x.name \in Seq(Ident) /\ x.name # <<>> /\ x.bytes = Str(x.name)
    BY <1>2, <1>4 DEF IsPart, Identifier
  <2>2. NameEnd(p) = p + Len(x.bytes)
    <3>1. PICK name : name = x.name
      OBVIOUS
    <3>2. name \in Seq(Ident) /\ name # <<>> /\ WrittenAt(p, Str(name))
      BY <1>3, <2>1, <3>1
    <3> QED BY <2>1, <3>1, <3>2, NameRead
  <2>3. PartEnds(kind)[p] = NameEnd(p)
    BY <1>4 DEF PartEnds
  <2> QED BY <1>1, <2>2, <2>3
<1>5. CASE kind = "vaList"
  <2>1. x \in Values
    BY <1>2, <1>5 DEF IsPart
  <2>2. ValueEnd[p] = p + Len(x.bytes)
    BY <1>3, <2>1 DEF Reads
  <2>3. PartEnds(kind) = ValueEnd
    BY <1>5 DEF PartEnds
  <2> QED BY <1>1, <2>2, <2>3
<1>6. CASE kind = "vaCollection"
  <2>1. PICK index, props : index = x.index /\ props = x.props
    OBVIOUS
  <2>2. /\ x.bytes = index \o <<1>> \o Listed(props) /\ AreProps(props)
        /\ index \in {<<>>} \union Integers8To32
    BY <1>2, <1>6, <2>1 DEF IsPart
  <2>3. \A k \in 1 .. Len(props) : Reads(props[k].value)
    <3> SUFFICES ASSUME NEW k \in 1 .. Len(props) PROVE Reads(props[k].value)
      OBVIOUS
    <3>1. PICK w, l : w = props[k].value /\ l = Listed(props)
      OBVIOUS
    <3>2. w \in Values
      BY <2>2, <3>1, PropIs
    <3>3. Len(w.bytes) < Len(l) /\ l \in Seq(Nat)
      BY <2>2, <3>1, PropsAre
    <3>4. w.bytes \in Seq(Nat)
      BY <3>2, ValueIs
    <3>5. Len(l) < Len(x.bytes)
      <4> DEFINE t == <<1>> \o l
      <4>1. t \in Seq(Nat) /\ Len(t) = 1 + Len(l) /\ Len(l) \in Nat
        BY <3>3
      <4>2. index \in Seq(Nat)
        <5>1. <<>> \in Seq(Nat)
          OBVIOUS
        <5> QED BY <2>2, <5>1, IndexIs
      <4>3. index \o <<1>> \o l = index \o t
        BY <3>3, <4>2, SMTT(30)
      <4> HIDE DEF t
      <4>4. Len(index \o t) = Len(index) + Len(t) /\ Len(index) \in Nat
        BY <4>1, <4>2, ConcatIs
      <4>5. Len(l) < Len(index \o t)
        BY <4>1, <4>4
      <4>6. x.bytes = index \o t
        BY <2>2, <3>1, <4>3
      <4> QED BY <4>5, <4>6
    <3>6. Len(w.bytes) < Len(x.bytes)
      <4>1. PICK b, c, d : b = Len(w.bytes) /\ c = Len(l) /\ d = Len(x.bytes)
        OBVIOUS
      <4>2. b \in Nat /\ c \in Nat /\ d \in Nat
        <5>1. x.bytes \in Seq(Nat)
          BY <1>1, <1>2, PartIs
        <5> QED BY <3>3, <3>4, <4>1, <5>1
      <4>3. b < c /\ c < d
        BY <3>3, <3>5, <4>1
      <4>4. b < d
        BY <4>2, <4>3
      <4> QED BY <4>1, <4>4
    <3> QED BY <1>3, <3>1, <3>2, <3>6
  <2>4. CollectionItemEnd(p, ValueEnd) = p + Len(x.bytes)
    <3>1. WrittenAt(p, index \o <<1>> \o Listed(props))
      BY <1>3, <2>2
    <3> QED BY <2>2, <2>3, <3>1, CollectionItemRead
  <2>5. PartEnds(kind)[p] = CollectionItemEnd(p, ValueEnd)
    BY <1>6 DEF PartEnds
  <2> QED BY <1>1, <2>4, <2>5
<1> QED BY <1>2, <1>4, <1>5, <1>6 DEF LISTS

(* Values written are values read, those in other values first.            *)
LEMMA ValueReadBy ==
  ASSUME image \in Images, NEW v \in Values,
         \A w \in Values : Len(w.bytes) < Len(v.bytes) => Reads(w)
  PROVE  Reads(v)
<1> SUFFICES ASSUME NEW a \in Nat, WrittenAt(a, v.bytes) PROVE ValueEnd[a] = a + Len(v.bytes)
  BY DEF Reads
<1>1. IsValue(v) /\ ValueEnd[a] = ValueEndBy(a, ValueEnd)
      /\ Kind(v) \in DOMAIN FixedSize \union STRS \union LONGS \union LISTS
  BY ValueIs, ValueEndIs, TagsAre
<1>2. PICK t : t = Payload(v)
  OBVIOUS
<1>3. SUFFICES ASSUME Kind(v) \notin DOMAIN FixedSize PROVE ValueEnd[a] = a + Len(v.bytes)
  BY FixedRead DEF Reads
<1>4. ASSUME t \in Seq(Nat)
      PROVE  /\ Tag(a) = Kind(v) /\ WrittenAt(a + 1, t) /\ Len(v.bytes) = 1 + Len(t)
             /\ Len(t) \in Nat /\ a + (1 + Len(t)) = a + 1 + Len(t)
  <2>1. Tag(a) = Kind(v) /\ WrittenAt(a + 1, t) /\ Len(v.bytes) = 1 + Len(t) /\ Len(t) \in Nat
    BY <1>2, <1>4, ValueStarts
  <2>2. a + (1 + Len(t)) = a + 1 + Len(t)
    BY <2>1
  <2> QED BY <2>1, <2>2
<1>5. a + 1 \in Nat /\ a + 1 \in Int
  OBVIOUS
<1>6. CASE Kind(v) \in STRS
  <2>1. t = Str(v.chars) /\ v.chars \in Seq(Nat)
    <3>1. Kind(v) \notin LISTS /\ Kind(v) \notin LONGS
      BY <1>6 DEF STRS, LISTS, LONGS
    <3>2. t = Str(v.chars)
      BY <1>2, <1>6, <3>1 DEF Payload
    <3> QED BY <1>1, <3>2 DEF IsValue
  <2>2. t \in Seq(Nat)
    BY <2>1, StrIs
  <2>3. Tag(a) = Kind(v) /\ WrittenAt(a + 1, t)
    BY <1>4, <2>2
  <2>4. ValueEnd[a] = StrEnd(a + 1)
    BY <1>1, <1>3, <1>6, <2>3 DEF ValueEndBy, STRS
  <2>5. StrEnd(a + 1) = a + 1 + Len(t)
    BY <1>5, <2>1, <2>3, StrRead
  <2> QED BY <1>4, <2>2, <2>4, <2>5
<1>7. CASE Kind(v) \in LONGS
  <2> DEFINE width == CharSize(Kind(v))
             chars == v.chars
  <2>1. /\ t = Long(chars, width) /\ chars \in Seq(Nat) /\ width \in {1, 2}
        /\ Len(chars) <= MaxBlob /\ Len(chars) % width = 0
    BY <1>1, <1>2, <1>7 DEF Payload, IsValue, STRS, LISTS, LONGS, CharSize
  <2>2. t \in Seq(Nat)
    BY <2>1, LongIs
  <2>3. Tag(a) = Kind(v) /\ WrittenAt(a + 1, t)
    BY <1>4, <2>2
  <2>4. ValueEnd[a] = LongEnd(a + 1, width)
    BY <1>1, <1>3, <1>7, <2>3 DEF ValueEndBy, LONGS, CharSize
  <2> HIDE DEF width, chars
  <2>5. LongEnd(a + 1, width) = a + 1 + Len(t)
    BY <1>5, <2>1, <2>3, LongRead
  <2> QED BY <1>4, <2>2, <2>4, <2>5
<1>8. CASE Kind(v) \in LISTS
  <2> DEFINE parts == v.parts
  <2>1. t = Listed(parts) /\ Len(parts) \in 0 .. MaxItems - 1
    <3>1. t = Listed(parts)
      <4>1. Kind(v) \notin STRS /\ Kind(v) \notin LONGS
        BY <1>8 DEF STRS, LISTS, LONGS
      <4> QED BY <1>2, <1>8, <4>1 DEF Payload
    <3>2. Len(parts) \in 0 .. MaxItems - 1
      BY <1>1, <1>8 DEF IsValue
    <3> QED BY <3>1, <3>2
  <2>2. \A i \in 1 .. Len(parts) : /\ parts[i].bytes \in Seq(Nat) /\ parts[i].bytes # <<>>
                                   /\ parts[i].bytes[1] # 0
    BY <1>8, PartIs
  <2>3. t \in Seq(Nat) /\ \A i \in 1 .. Len(parts) : Len(parts[i].bytes) < Len(t)
    <3> HIDE DEF parts
    <3>1. Len(parts) \in Nat
      BY <2>1
    <3> QED BY <2>1, <2>2, <3>1, ListedIs
  <2>4. Tag(a) = Kind(v) /\ WrittenAt(a + 1, t) /\ Len(v.bytes) = 1 + Len(t) /\ Len(t) \in Nat
    BY <1>4, <2>3
  <2>5. \A i \in 1 .. Len(parts) : \A p \in Nat :
          WrittenAt(p, parts[i].bytes) => PartEnds(Kind(v))[p] = p + Len(parts[i].bytes)
    <3> SUFFICES ASSUME NEW i \in 1 .. Len(parts), NEW p \in Nat, WrittenAt(p, parts[i].bytes)
                 PROVE  PartEnds(Kind(v))[p] = p + Len(parts[i].bytes)
      OBVIOUS
    <3>1. Len(parts[i].bytes) \in Nat /\ Len(parts[i].bytes) < Len(t)
      BY <2>2, <2>3
    <3>2. ASSUME NEW w \in Values, Len(w.bytes) < Len(parts[i].bytes) \/ w = parts[i]
          PROVE  Reads(w)
      <4>1. PICK b, c, d : b = Len(w.bytes) /\ c = Len(parts[i].bytes) /\ d = Len(v.bytes)
        OBVIOUS
      <4>2. b \in Nat
        <5>1. w.bytes \in Seq(Nat)
          BY ValueIs
        <5> QED BY <4>1, <5>1
      <4>3. c \in Nat /\ d \in Nat /\ c < d
        BY <2>4, <3>1, <4>1
      <4>4. b <= c
        BY <3>2, <4>1, <4>2, <4>3
      <4>5. b < d
        BY <4>2, <4>3, <4>4
      <4> QED BY <4>1, <4>5
    <3> QED BY <1>8, <3>2, PartRead
  <2>6. ValueEnd[a] = ItemsEnd(a + 1, PartEnds(Kind(v)))
    BY <1>1, <1>3, <1>8, <2>4 DEF ValueEndBy, LISTS, PartEnds
  <2>7. AheadFrom(a + 1, PartEnds(Kind(v)))
    BY PartEndsAhead DEF AheadFrom
  <2> DEFINE f == PartEnds(Kind(v))
  <2>8. ItemsEnd(a + 1, f) = a + 1 + Len(t)
    <3>1. PICK b \in Nat : b = a + 1
      BY <1>5
    <3> HIDE DEF f, parts
    <3>2. AheadFrom(b, f)
      BY <2>7, <3>1 DEF f
    <3>3. WrittenAt(b, Listed(parts))
      BY <2>1, <2>4, <3>1
    <3>4. \A i \in 1 .. Len(parts) :
            /\ parts[i].bytes \in Seq(Nat) /\ parts[i].bytes # <<>> /\ parts[i].bytes[1] # 0
            /\ \A p \in Nat : p >= b /\ WrittenAt(p, parts[i].bytes)
                 => f[p] = p + Len(parts[i].bytes)
      BY <2>2, <2>5 DEF f
    <3>5. Len(parts) \in 0 .. MaxItems - 1
      BY <2>1
    <3>6. ItemsEnd(b, f) = b + Len(Listed(parts))
      BY <3>2, <3>3, <3>4, <3>5, ListedRead
    <3> QED BY <2>1, <3>1, <3>6
  <2> QED BY <1>4, <2>3, <2>6, <2>8
<1> QED BY <1>1, <1>3, <1>6, <1>7, <1>8

LEMMA ValueRead ==
  ASSUME image \in Images
  PROVE  \A v \in Values : Reads(v)
<1> DEFINE Bad == {Len(w.bytes) : w \in {v \in Values : ~Reads(v)}}
<1>1. SUFFICES ASSUME Bad # {} PROVE FALSE
  OBVIOUS
<1>2. Bad \subseteq Nat
  <2> SUFFICES ASSUME NEW v \in Values PROVE Len(v.bytes) \in Nat
    OBVIOUS
  <2>1. v.bytes \in Seq(Nat)
    BY ValueIs
  <2> QED BY <2>1
<1>3. PICK m \in Bad : \A k \in Bad : m <= k
  <2> HIDE DEF Bad
  <2> QED BY <1>1, <1>2, LeastNatural
<1>4. PICK v \in Values : m = Len(v.bytes) /\ ~Reads(v)
  OBVIOUS
<1>5. ASSUME NEW w \in Values, Len(w.bytes) < Len(v.bytes) PROVE Reads(w)
  <2> SUFFICES ASSUME ~Reads(w) PROVE FALSE
    OBVIOUS
  <2>1. PICK k : k = Len(w.bytes)
    OBVIOUS
  <2>2. k \in Bad
    BY <2>1
  <2>3. m <= k /\ k < m /\ m \in Nat /\ k \in Nat
    <3> HIDE DEF Bad
    <3> QED BY <1>2, <1>3, <1>4, <1>5, <2>1, <2>2
  <2> QED BY <2>3
<1> QED BY <1>4, <1>5, ValueReadBy

(* An event is read as it was written.                                     *)
LEMMA EventRead ==
  ASSUME image \in Images, NEW props, AreProps(props), NEW i \in 1 .. Len(props),
         NEW p \in Nat, WrittenAt(p, props[i].bytes), NEW control
  PROVE  EventOf(control, p) = Assigned(control, props[i])
<1>1. PICK name, value : name = props[i].name /\ value = props[i].value
  OBVIOUS
<1>2. name \in Seq(Ident) /\ name \in Seq(Nat) /\ name # <<>> /\ value \in Values
  BY <1>1, PropIs
<1>3. /\ WrittenAt(p, Str(name))
      /\ StrEnd(p) \in Nat /\ WrittenAt(StrEnd(p), value.bytes)
  <2>1. Reads(props[i].value)
    BY <1>1, <1>2, ValueRead
  <2> QED BY <1>1, <2>1, PropRead
<1>4. /\ Byte(p) = Len(name) /\ Chars(p) = name /\ Len(name) \in Nat
      /\ \A k \in 1 .. Len(name) : image[p + k] = name[k]
  <2>1. p \in Int
    OBVIOUS
  <2> QED BY <1>2, <1>3, <2>1, StrRead
<1>5. Len(name) > 1 => image[p + 1] = name[1]
  <2>1. Len(name) > 1 => 1 \in 1 .. Len(name)
    BY <1>4
  <2> QED BY <1>4, <2>1
<1>6. Kind(value) = "vaIdent" =>
        Tag(StrEnd(p)) = "vaIdent" /\ Chars(StrEnd(p) + 1) = value.chars
  <2> SUFFICES ASSUME Kind(value) = "vaIdent"
               PROVE  Tag(StrEnd(p)) = "vaIdent" /\ Chars(StrEnd(p) + 1) = value.chars
    OBVIOUS
  <2>1. PICK chars, q : chars = value.chars /\ q = StrEnd(p)
    OBVIOUS
  <2>2. Payload(value) = Str(chars)
    <3>1. "vaIdent" \in STRS /\ "vaIdent" \notin LISTS /\ "vaIdent" \notin LONGS
      BY DEF STRS, LISTS, LONGS
    <3> QED BY <2>1, <3>1 DEF Payload
  <2>3. chars \in Seq(Nat)
    BY <1>2, <2>1, ValueIs DEF IsValue
  <2>4. Str(chars) \in Seq(Nat)
    BY <2>3, StrIs
  <2>5. Tag(q) = Kind(value) /\ WrittenAt(q + 1, Str(chars))
    BY <1>2, <1>3, <2>1, <2>2, <2>4, ValueStarts
  <2>6. q + 1 \in Int
    BY <1>3, <2>1
  <2>7. Chars(q + 1) = chars
    BY <2>3, <2>5, <2>6, StrRead
  <2> QED BY <2>1, <2>5, <2>7
<1>7. Tag(StrEnd(p)) = Kind(value)
  <2>1. PICK q \in Nat : q = StrEnd(p)
    BY <1>3
  <2>2. WrittenAt(q, value.bytes)
    BY <1>3, <2>1
  <2>3. Payload(value) \in Seq(Nat)
    BY <1>2, PayloadIs
  <2> QED BY <1>2, <2>1, <2>2, <2>3, ValueStarts
<1>8. IsEvent(p) <=> Len(name) > 1 /\ name[1] = On /\ Kind(value) = "vaIdent"
  BY <1>4, <1>5, <1>7 DEF IsEvent
<1> DEFINE then == [control |-> control, event |-> name, handler |-> value.chars]
<1>9. Assigned(control, props[i]) =
        IF Len(name) > 1 /\ name[1] = On /\ Kind(value) = "vaIdent" THEN <<then>> ELSE <<>>
  BY <1>1 DEF Assigned
<1>10. CASE IsEvent(p)
  <2>1. EventOf(control, p) = <<[control |-> control, event |-> Chars(p), handler |-> Chars(StrEnd(p) + 1)]>>
    BY <1>10 DEF EventOf
  <2>2. Chars(p) = name /\ Chars(StrEnd(p) + 1) = value.chars
    BY <1>4, <1>6, <1>8, <1>10
  <2> QED BY <1>8, <1>9, <1>10, <2>1, <2>2
<1>11. CASE ~IsEvent(p)
  <2>1. EventOf(control, p) = <<>>
    BY <1>11 DEF EventOf
  <2> QED BY <1>8, <1>9, <1>11, <2>1
<1> QED BY <1>10, <1>11

LEMMA EventsRead ==
  ASSUME image \in Images, NEW a \in Nat, NEW props, AreProps(props),
         WrittenAt(a, Listed(props)), NEW control
  PROVE  /\ PropsEnd(a) = a + Len(Listed(props))
         /\ Events(control, a) = Joined([i \in 1 .. Len(props) |-> Assigned(control, props[i])])
<1> DEFINE items == Items(a, PropEnds(ValueEnd))
<1>1. \A i \in 1 .. Len(props) : Reads(props[i].value)
  BY PropIs, ValueRead
<1>2. /\ PropsEnd(a) = a + Len(Listed(props)) /\ ItemCount(items) = Len(props)
      /\ \A i \in 1 .. Len(props) : items[i - 1] \in Nat /\ WrittenAt(items[i - 1], props[i].bytes)
  BY <1>1, PropsRead
<1>3. Events(control, a) = Joined([i \in 1 .. ItemCount(items) |-> EventOf(control, items[i - 1])])
  BY DEF Events
<1> HIDE DEF items
<1>4. \A i \in 1 .. Len(props) : EventOf(control, items[i - 1]) = Assigned(control, props[i])
  BY <1>2, EventRead
<1>5. [i \in 1 .. ItemCount(items) |-> EventOf(control, items[i - 1])]
        = [i \in 1 .. Len(props) |-> Assigned(control, props[i])]
  BY <1>2, <1>4
<1> QED BY <1>2, <1>3, <1>5

(* What each control is. *)
Flagged(o) == IF o.flags = 0 THEN <<>> ELSE <<Prefix + o.flags>> \o o.index
Opening(o) == Flagged(o) \o Str(o.cls) \o Str(o.name) \o Listed(o.props)

LEMMA ControlIs ==
  ASSUME NEW o \in Controls
  PROVE  /\ IsControl(o) /\ o.bytes \in Seq(Nat)
         /\ Flagged(o) \in Seq(Nat) /\ Str(o.cls) \in Seq(Nat) /\ Str(o.name) \in Seq(Nat)
         /\ Listed(o.props) \in Seq(Nat) /\ Opening(o) \in Seq(Nat)
         /\ o.bytes = Opening(o) \o Listed(o.children)
<1>1. IsControl(o) /\ Prefix \in Nat
  BY WriterAssumption, FormsAssumption
<1>2. o.index \in Seq(Nat)
  <2>1. o.index = <<>> \/ o.index \in Integers8To32
    BY <1>1 DEF IsControl
  <2>2. <<>> \in Seq(Nat)
    OBVIOUS
  <2> QED BY <2>1, <2>2, IndexIs
<1>3. Flagged(o) \in Seq(Nat)
  <2>1. PICK index, flags : index = o.index /\ flags = o.flags
    OBVIOUS
  <2>2. flags \in Nat
    BY <1>1, <2>1 DEF IsControl
  <2>3. <<Prefix + flags>> \in Seq(Nat)
    BY <1>1, <2>2
  <2>4. <<Prefix + flags>> \o index \in Seq(Nat)
    BY <1>2, <2>1, <2>3
  <2> QED BY <2>1, <2>4 DEF Flagged
<1>4. o.cls \in Seq(Ident) /\ o.name \in Seq(Ident) /\ AreProps(o.props) /\ 0 \in Nat
  BY <1>1 DEF IsControl, Identifier
<1>5. o.cls \in Seq(Nat) /\ o.name \in Seq(Nat)
  BY <1>4, NameRead
<1>6. Str(o.cls) \in Seq(Nat) /\ Str(o.name) \in Seq(Nat) /\ Listed(o.props) \in Seq(Nat)
  BY <1>4, <1>5, StrIs, PropsAre
<1>7. Opening(o) \in Seq(Nat)
  <2>1. PICK s, t, u, w : s = Flagged(o) /\ t = Str(o.cls) /\ u = Str(o.name) /\ w = Listed(o.props)
    OBVIOUS
  <2>2. s \in Seq(Nat) /\ t \in Seq(Nat) /\ u \in Seq(Nat) /\ w \in Seq(Nat)
    BY <1>3, <1>6, <2>1
  <2>3. s \o t \o u \o w \in Seq(Nat)
    BY <2>2
  <2> QED BY <2>1, <2>3 DEF Opening
<1>8. o.bytes = Opening(o) \o Listed(o.children)
  BY <1>1, Zenon DEF IsControl, Written, Opening, Flagged
<1>9. o.bytes \in Seq(Nat)
  BY <1>1 DEF IsControl
<1> QED BY <1>1, <1>3, <1>6, <1>7, <1>8, <1>9

(* Where one thing is written behind the other, all are.                   *)
LEMMA WrittenParts ==
  ASSUME NEW s \in Seq(Nat), NEW t \in Seq(Nat), NEW u \in Seq(Nat), NEW w \in Seq(Nat),
         NEW a \in Nat, WrittenAt(a, s \o t \o u \o w)
  PROVE  /\ WrittenAt(a, s) /\ WrittenAt(a + Len(s), t) /\ WrittenAt(a + Len(s) + Len(t), u)
         /\ WrittenAt(a + Len(s) + Len(t) + Len(u), w)
         /\ a + Len(s \o t \o u \o w) = a + Len(s) + Len(t) + Len(u) + Len(w)
         /\ a + Len(s) \in Nat /\ a + Len(s) + Len(t) \in Nat
         /\ a + Len(s) + Len(t) + Len(u) \in Nat
<1>1. PICK st : st = s \o t
  OBVIOUS
<1>2. st \in Seq(Nat) /\ Len(st) = Len(s) + Len(t) /\ Len(s) \in Nat /\ Len(t) \in Nat
  BY <1>1, ConcatIs
<1>3. PICK stu : stu = st \o u
  OBVIOUS
<1>4. stu \in Seq(Nat) /\ Len(stu) = Len(st) + Len(u) /\ Len(u) \in Nat
  BY <1>2, <1>3, ConcatIs
<1>5. Len(stu \o w) = Len(stu) + Len(w) /\ Len(w) \in Nat
  BY <1>4, ConcatIs
<1>6. s \o t \o u \o w = stu \o w
  BY <1>1, <1>3
<1>7. WrittenAt(a, stu) /\ WrittenAt(a + Len(stu), w)
  <2>1. a \in Int /\ WrittenAt(a, stu \o w)
    BY <1>6
  <2> QED BY <1>4, <2>1, WrittenConcat
<1>8. WrittenAt(a, st) /\ WrittenAt(a + Len(st), u)
  <2>1. a \in Int /\ WrittenAt(a, st \o u)
    BY <1>3, <1>7
  <2> QED BY <1>2, <2>1, WrittenConcat
<1>9. WrittenAt(a, s) /\ WrittenAt(a + Len(s), t)
  <2>1. a \in Int /\ WrittenAt(a, s \o t)
    BY <1>1, <1>8
  <2> QED BY <2>1, WrittenConcat
<1>10. a + Len(st) = a + Len(s) + Len(t) /\ a + Len(stu) = a + Len(s) + Len(t) + Len(u)
       /\ a + Len(stu \o w) = a + Len(s) + Len(t) + Len(u) + Len(w)
  BY <1>2, <1>4, <1>5
<1>11. a + Len(s) \in Nat /\ a + Len(s) + Len(t) \in Nat /\ a + Len(s) + Len(t) + Len(u) \in Nat
  BY <1>2, <1>4
<1> QED BY <1>6, <1>7, <1>8, <1>9, <1>10, <1>11

(* The flags, with an index or without, lead to the name of the class.     *)
LEMMA ClassRead ==
  ASSUME image \in Images, NEW o \in Controls, NEW a \in Nat,
         WrittenAt(a, Flagged(o)), Byte(a + Len(Flagged(o))) = Len(o.cls)
  PROVE  ClassAt(a) = a + Len(Flagged(o))
<1>1. PICK flags, index : flags = o.flags /\ index = o.index
  OBVIOUS
<1>2. /\ flags \in 0 .. 7 /\ Prefix \in Nat /\ Len(o.cls) < Prefix
      /\ index \in IF (flags \div 2) % 2 = 1 THEN Integers8To32 ELSE {<<>>}
      /\ o.cls \in Seq(Ident)
  BY <1>1, ControlIs, FormsAssumption DEF IsControl, Identifier
<1>3. Flagged(o) = IF flags = 0 THEN <<>> ELSE <<Prefix + flags>> \o index
  BY <1>1 DEF Flagged
<1>4. CASE flags = 0
  <2>1. Len(Flagged(o)) = 0
    BY <1>3, <1>4
  <2>2. a + Len(Flagged(o)) = a
    BY <2>1
  <2>3. Byte(a) \notin Prefix .. Prefix + 15
    BY <1>2, <2>2
  <2> QED BY <2>2, <2>3 DEF ClassAt
<1>5. CASE flags # 0
  <2>1. index \in Seq(Nat) /\ Len(index) \in Nat
    <3>1. index = <<>> \/ index \in Integers8To32
      BY <1>2
    <3>2. index \in Seq(Nat)
      <4>1. <<>> \in Seq(Nat)
        OBVIOUS
      <4> QED BY <3>1, <4>1, IndexIs
    <3> QED BY <3>2
  <2>2. WrittenAt(a, <<Prefix + flags>> \o index) /\ Prefix + flags \in Nat /\ a \in Int
    BY <1>2, <1>3, <1>5
  <2>3. /\ Byte(a) = Prefix + flags /\ WrittenAt(a + 1, index)
        /\ Len(<<Prefix + flags>> \o index) = 1 + Len(index)
    BY <2>1, <2>2, WrittenByte
  <2>4. Byte(a) \in Prefix .. Prefix + 15 /\ Byte(a) - Prefix = flags
    BY <1>2, <2>3
  <2>5. a + Len(Flagged(o)) = a + 1 + Len(index)
    <3>1. a + (1 + Len(index)) = a + 1 + Len(index)
      BY <2>1
    <3> QED BY <1>3, <1>5, <2>3, <3>1
  <2>6. ClassAt(a) = IF (flags \div 2) % 2 = 0 THEN a + 1
                     ELSE IF Tag(a + 1) \in INT_TAGS THEN ValueEnd[a + 1] ELSE None
    BY <2>4 DEF ClassAt
  <2>7. CASE (flags \div 2) % 2 = 0
    <3>1. index = <<>>
      BY <1>2, <2>7
    <3>2. a + 1 + Len(index) = a + 1
      BY <3>1
    <3> QED BY <2>5, <2>6, <2>7, <3>2
  <2>8. CASE (flags \div 2) % 2 # 0
    <3>1. (flags \div 2) % 2 = 1
      BY <1>2, <2>8
    <3>2. PICK v \in Values : index = v.bytes /\ Kind(v) \in INT_TAGS
      BY <1>2, <3>1, IndexIs
    <3>3. WrittenAt(a + 1, v.bytes) /\ Reads(v) /\ a + 1 \in Nat
      BY <2>3, <3>2, ValueRead
    <3>4. Tag(a + 1) = Kind(v)
      BY <3>3, ValueStarts, PayloadIs
    <3>5. ValueEnd[a + 1] = a + 1 + Len(index)
      BY <3>2, <3>3 DEF Reads
    <3> QED BY <2>5, <2>6, <2>8, <3>2, <3>4, <3>5
  <2> QED BY <2>7, <2>8
<1> QED BY <1>4, <1>5

(* The head of an object is read to where the objects inside begin.        *)
LEMMA HeadRead ==
  ASSUME image \in Images, NEW o \in Controls, NEW a \in Nat, WrittenAt(a, Opening(o))
  PROVE  /\ PropsEnd(PropsAt(a)) = a + Len(Opening(o))
         /\ Events(Chars(NameAt(a)), PropsAt(a))
              = Joined([i \in 1 .. Len(o.props) |-> Assigned(o.name, o.props[i])])
<1>1. PICK s, t, u, w : s = Flagged(o) /\ t = Str(o.cls) /\ u = Str(o.name) /\ w = Listed(o.props)
  OBVIOUS
<1>2. s \in Seq(Nat) /\ t \in Seq(Nat) /\ u \in Seq(Nat) /\ w \in Seq(Nat)
  BY <1>1, ControlIs
<1>3. Opening(o) = s \o t \o u \o w
  BY <1>1 DEF Opening
<1> DEFINE b == a + Len(s)
           c == a + Len(s) + Len(t)
           d == a + Len(s) + Len(t) + Len(u)
<1>4. /\ WrittenAt(a, s) /\ WrittenAt(b, t) /\ WrittenAt(c, u) /\ WrittenAt(d, w)
      /\ a + Len(s \o t \o u \o w) = d + Len(w)
      /\ b \in Nat /\ c \in Nat /\ d \in Nat
  <2>1. WrittenAt(a, s \o t \o u \o w)
    BY <1>3
  <2> QED BY <1>2, <2>1, WrittenParts
<1>5. /\ o.cls \in Seq(Ident) /\ o.cls # <<>> /\ o.name \in Seq(Ident) /\ AreProps(o.props)
  BY ControlIs DEF IsControl, Identifier
<1>6. b + Len(t) = c /\ c + Len(u) = d
  OBVIOUS
<1> HIDE DEF b, c, d
<1>7. NameEnd(b) = c /\ Byte(b) = Len(o.cls)
  <2>1. PICK cls : cls = o.cls
    OBVIOUS
  <2>2. cls \in Seq(Ident) /\ cls # <<>> /\ WrittenAt(b, Str(cls)) /\ b \in Int
    BY <1>1, <1>4, <1>5, <2>1
  <2>3. cls \in Seq(Nat) /\ NameEnd(b) = b + Len(Str(cls))
    BY <1>4, <2>2, NameRead
  <2>4. Byte(b) = Len(cls)
    BY <2>2, <2>3, StrRead
  <2> QED BY <1>1, <1>6, <2>1, <2>3, <2>4
<1>8. ClassAt(a) = b
  <2>1. WrittenAt(a, Flagged(o)) /\ Byte(a + Len(Flagged(o))) = Len(o.cls)
    BY <1>1, <1>4, <1>7 DEF b
  <2> QED BY <1>1, <2>1, ClassRead DEF b
<1>9. NameAt(a) = c
  BY <1>7, <1>8 DEF NameAt
<1>10. IsName(c, 0) /\ StrEnd(c) = d /\ Chars(c) = o.name
  <2>1. PICK name : name = o.name
    OBVIOUS
  <2>2. name \in Seq(Ident) /\ WrittenAt(c, Str(name)) /\ c \in Int
    BY <1>1, <1>4, <1>5, <2>1
  <2>3. name \in Seq(Nat) /\ IsName(c, 0)
    BY <1>4, <2>2, NameRead
  <2>4. StrEnd(c) = c + Len(Str(name)) /\ Chars(c) = name
    BY <2>2, <2>3, StrRead
  <2> QED BY <1>1, <1>6, <2>1, <2>3, <2>4
<1>11. PropsAt(a) = d
  BY <1>9, <1>10 DEF PropsAt
<1>12. PropsEnd(d) = d + Len(w)
       /\ Events(o.name, d) = Joined([i \in 1 .. Len(o.props) |-> Assigned(o.name, o.props[i])])
  <2>1. WrittenAt(d, Listed(o.props))
    BY <1>1, <1>4
  <2> QED BY <1>1, <1>4, <1>5, <2>1, EventsRead
<1> QED BY <1>3, <1>4, <1>9, <1>10, <1>11, <1>12

LEMMA ChildrenListed ==
  ASSUME NEW o \in Controls
  PROVE  Listed(o.children) \in Seq(Nat)
<1>1. PICK kids : kids = o.children
  OBVIOUS
<1>2. Len(kids) \in Nat /\ \A i \in 1 .. Len(kids) : kids[i] \in Controls
  BY <1>1, ControlIs DEF IsControl
<1>3. \A i \in 1 .. Len(kids) : kids[i].bytes \in Seq(Nat)
  BY <1>2, ControlIs
<1>4. Listed(kids) \in Seq(Nat)
  BY <1>2, <1>3, ListedIs
<1> QED BY <1>1, <1>4

LEMMA FirstStays ==
  ASSUME NEW s \in Seq(Nat), NEW t \in Seq(Nat), Len(s) > 0, s[1] # 0
  PROVE  s \o t \in Seq(Nat) /\ Len(s \o t) > 0 /\ s \o t # <<>> /\ (s \o t)[1] # 0
<1>1. /\ s \o t \in Seq(Nat) /\ Len(s \o t) = Len(s) + Len(t)
      /\ Len(s) \in Nat /\ Len(t) \in Nat
      /\ \A k \in 1 .. Len(s) : (s \o t)[k] = s[k]
  BY ConcatIs
<1> DEFINE r == s \o t
<1> HIDE DEF r
<1>2. r \in Seq(Nat) /\ Len(r) > 0 /\ r[1] = s[1]
  <2>1. 1 \in 1 .. Len(s)
    BY <1>1
  <2> QED BY <1>1, <2>1 DEF r
<1>3. r # <<>>
  BY <1>2
<1> QED BY <1>2, <1>3 DEF r

(* The first byte of an object is not the one that ends a list.            *)
LEMMA ControlStarts ==
  ASSUME NEW o \in Controls
  PROVE  o.bytes \in Seq(Nat) /\ o.bytes # <<>> /\ o.bytes[1] # 0
<1>1. PICK s, t, u, w, x : /\ s = Flagged(o) /\ t = Str(o.cls) /\ u = Str(o.name)
                           /\ w = Listed(o.props) /\ x = Listed(o.children)
  OBVIOUS
<1>2. /\ s \in Seq(Nat) /\ t \in Seq(Nat) /\ u \in Seq(Nat) /\ w \in Seq(Nat)
      /\ x \in Seq(Nat) /\ o.bytes \in Seq(Nat)
  BY <1>1, ControlIs, ChildrenListed
<1>3. o.bytes = (s \o t \o u \o w) \o x
  BY <1>1, ControlIs DEF Opening
<1>4. PICK flags, index, cls : flags = o.flags /\ index = o.index /\ cls = o.cls
  OBVIOUS
<1>5. /\ flags \in 0 .. 7 /\ Prefix \in Nat /\ Len(cls) < Prefix
      /\ cls \in Seq(Ident) /\ cls # <<>>
  BY <1>4, ControlIs, FormsAssumption DEF IsControl, Identifier
<1>6. Len(t) > 0 /\ t[1] # 0
  <2>1. Len(cls) \in Nat /\ Len(cls) # 0
    BY <1>5
  <2>2. cls \in Seq(Nat)
    <3>1. 0 \in Nat
      OBVIOUS
    <3> QED BY <1>5, <3>1, NameRead
  <2>3. Len(t) = 1 + Len(cls) /\ t[1] = Len(cls)
    BY <1>1, <1>4, <2>2, StrIs
  <2> QED BY <2>1, <2>3
<1>7. s \o t \in Seq(Nat) /\ Len(s \o t) > 0 /\ (s \o t)[1] # 0
  <2>1. CASE flags = 0
    <3>1. s = <<>>
      BY <1>1, <1>4, <2>1 DEF Flagged
    <3>2. <<>> \o t = t
      BY <1>2
    <3> QED BY <1>2, <1>6, <3>1, <3>2
  <2>2. CASE flags # 0
    <3>1. PICK m \in Nat : m = Prefix + flags
      BY <1>5
    <3>2. m # 0
      BY <1>5, <2>2, <3>1
    <3>3. s = <<m>> \o index
      BY <1>1, <1>4, <2>2, <3>1 DEF Flagged
    <3>4. index \in Seq(Nat)
      <4>1. o.index = <<>> \/ o.index \in Integers8To32
        BY ControlIs DEF IsControl
      <4>2. <<>> \in Seq(Nat)
        OBVIOUS
      <4> QED BY <1>4, <4>1, <4>2, IndexIs
    <3>5. <<m>> \in Seq(Nat) /\ Len(<<m>>) > 0 /\ <<m>>[1] # 0
      BY <3>2
    <3>6. Len(s) > 0 /\ s[1] # 0
      BY <3>3, <3>4, <3>5, FirstStays
    <3> QED BY <1>2, <3>6, FirstStays
  <2> QED BY <2>1, <2>2
<1>8. PICK st : st = s \o t
  OBVIOUS
<1>9. PICK stu : stu = st \o u
  OBVIOUS
<1>10. PICK stuw : stuw = stu \o w
  OBVIOUS
<1>11. stu \in Seq(Nat) /\ Len(stu) > 0 /\ stu[1] # 0
  BY <1>2, <1>7, <1>8, <1>9, FirstStays
<1>12. stuw \in Seq(Nat) /\ Len(stuw) > 0 /\ stuw[1] # 0
  BY <1>2, <1>10, <1>11, FirstStays
<1>13. stuw \o x # <<>> /\ (stuw \o x)[1] # 0
  BY <1>2, <1>12, FirstStays
<1> QED BY <1>2, <1>3, <1>8, <1>9, <1>10, <1>13

LEMMA ReadChildrenIs ==
  ASSUME image \in Images, NEW a \in Nat, NEW depth \in Nat, NEW budget \in Nat, NEW turns \in Nat
  PROVE  ReadChildren[<<a, depth, budget, turns>>] = ChildrenBy(a, depth, budget, turns, ReadChildren)
<1>1. ReadChildren = [c \in Tuples |-> Children(c, ReadChildren)]
  BY ChildrenExist DEF ReadChildren, Children, Tuples
<1>2. \A c \in Tuples : ReadChildren[c] = Children(c, ReadChildren)
  BY <1>1
<1> DEFINE t == <<a, depth, budget, turns>>
<1>3. t \in Tuples /\ t[1] = a /\ t[2] = depth /\ t[3] = budget /\ t[4] = turns
  BY DEF Tuples
<1> HIDE DEF t
<1>4. ReadChildren[t] = ChildrenBy(a, depth, budget, turns, ReadChildren)
  BY <1>2, <1>3 DEF Children
<1> QED BY <1>4 DEF t

LEMMA BeforeMakes ==
  ASSUME NEW end, NEW events, NEW budget, NEW first
  PROVE  Before(first, [end |-> end, events |-> events, budget |-> budget])
           = [end |-> end, events |-> first \o events, budget |-> budget]
<1> DEFINE r == [end |-> end, events |-> events, budget |-> budget]
<1>1. \A w : [r EXCEPT !.events = w] = [end |-> end, events |-> w, budget |-> budget]
  OBVIOUS
<1>2. r.events = events
  OBVIOUS
<1> HIDE DEF r
<1>3. Before(first, r) = [r EXCEPT !.events = first \o r.events]
  BY Zenon DEF Before
<1>4. Before(first, r) = [end |-> end, events |-> first \o events, budget |-> budget]
  BY <1>1, <1>2, <1>3
<1> QED BY <1>4 DEF r

(* An object is read to its own end, with all its events, by a reader that *)
(* may go as deep and may take as many objects as it has.                  *)
ReadsObject(o) ==
  \A a, depth, budget \in Nat :
    WrittenAt(a, o.bytes) /\ depth + o.height <= MaxDepth /\ Len(o.names) <= budget
      => ReadObject(a, depth, budget)
           = [end |-> a + Len(o.bytes), events |-> o.events, budget |-> budget - Len(o.names)]

LEMMA KidsAre ==
  ASSUME NEW o \in Controls, NEW i \in 1 .. Len(o.children)
  PROVE  LET x == o.children[i]
         IN /\ x \in Controls /\ x.height \in Nat /\ x.height < o.height
            /\ x.bytes \in Seq(Nat) /\ x.bytes # <<>> /\ x.bytes[1] # 0
            /\ x.names \in Seq(Seq(Nat)) /\ x.events \in Seq(Assignment)
<1>1. PICK x : x = o.children[i]
  OBVIOUS
<1>2. x \in Controls /\ x.height < o.height
  BY <1>1, ControlIs DEF IsControl
<1>3. x.height \in Nat /\ x.names \in Seq(Seq(Nat)) /\ x.events \in Seq(Assignment)
  BY <1>2, ControlIs DEF IsControl
<1>4. x.bytes \in Seq(Nat) /\ x.bytes # <<>> /\ x.bytes[1] # 0
  BY <1>2, ControlStarts
<1> QED BY <1>1, <1>2, <1>3, <1>4

(* What the objects inside have.                                           *)
NamesInside(o) == Joined([i \in 1 .. Len(o.children) |-> o.children[i].names])
EventsInside(o) == Joined([i \in 1 .. Len(o.children) |-> o.children[i].events])

LEMMA ChildrenRead ==
  ASSUME image \in Images, NEW o \in Controls,
         \A i \in 1 .. Len(o.children) : ReadsObject(o.children[i]),
         NEW a \in Nat, NEW depth \in Nat, NEW budget \in Nat,
         WrittenAt(a, Listed(o.children)), depth + o.height <= MaxDepth + 1,
         Len(NamesInside(o)) <= budget
  PROVE  ReadChildren[<<a, depth, budget, MaxItems>>]
           = [end |-> a + Len(Listed(o.children)),
              events |-> EventsInside(o),
              budget |-> budget - Len(NamesInside(o))]
<1> DEFINE names == NamesInside(o)
<1> DEFINE kids == o.children
           n == Len(kids)
<1>1. n \in Nat /\ n < MaxItems /\ MaxItems \in Nat /\ n \in 0 .. n /\ 0 \in 0 .. n
  <2>1. n \in 0 .. MaxItems - 1
    BY ControlIs DEF IsControl
  <2>2. MaxItems \in Nat
    BY FormsAssumption
  <2> HIDE DEF n
  <2> QED BY <2>1, <2>2
<1>2. ASSUME NEW i \in 1 .. n
      PROVE  /\ kids[i] \in Controls /\ kids[i].height \in Nat /\ kids[i].height < o.height
             /\ kids[i].bytes \in Seq(Nat) /\ kids[i].bytes # <<>> /\ kids[i].bytes[1] # 0
             /\ kids[i].names \in Seq(Seq(Nat)) /\ kids[i].events \in Seq(Assignment)
             /\ ReadsObject(kids[i])
  BY <1>2, KidsAre
<1>3. o.height \in Nat /\ MaxDepth \in Nat
  BY ControlIs, FormsAssumption DEF IsControl
<1> DEFINE ns == [i \in 1 .. n |-> kids[i].names]
           es == [i \in 1 .. n |-> kids[i].events]
<1>4. /\ Len(ns) \in Nat /\ \A i \in 1 .. Len(ns) : ns[i] \in Seq(Seq(Nat))
      /\ Len(es) \in Nat /\ \A i \in 1 .. Len(es) : es[i] \in Seq(Assignment)
      /\ Len(ns) = n /\ Len(es) = n
      /\ \A i \in 1 .. n : ns[i] = kids[i].names /\ es[i] = kids[i].events
  <2> HIDE DEF kids
  <2> QED BY <1>1, <1>2
<1>5. names = Joined(ns) /\ EventsInside(o) = Joined(es)
  BY DEF NamesInside, EventsInside
<1> HIDE DEF ns, es, names
<1>6. PICK place :
        /\ place[0] = a /\ Byte(place[n]) = 0
        /\ place[n] \in Nat
        /\ a + Len(Listed(kids)) = place[n] + 1
        /\ \A k \in 1 .. n :
             /\ WrittenAt(place[k - 1], kids[k].bytes)
             /\ place[k] = place[k - 1] + Len(kids[k].bytes)
             /\ Byte(place[k - 1]) \notin {None, 0}
             /\ place[k - 1] \in Nat /\ place[k - 1] >= a
  <2>1. \A i \in 1 .. Len(kids) : /\ kids[i].bytes \in Seq(Nat) /\ kids[i].bytes # <<>>
                                  /\ kids[i].bytes[1] # 0
    BY <1>2
  <2>2. Len(kids) \in Nat /\ WrittenAt(a, Listed(kids))
    BY <1>1
  <2> HIDE DEF kids
  <2> QED BY <2>1, <2>2, ListedParts
<1>7. PICK gn : /\ Partly(ns, gn)
                /\ \A k \in 0 .. Len(ns) : gn[k] \in Seq(Seq(Nat)) /\ Begins(gn[k], gn[Len(ns)])
                /\ Joined(ns) = gn[Len(ns)]
  BY <1>4, JoinedInParts
<1>8. PICK ge : /\ Partly(es, ge)
                /\ \A k \in 0 .. Len(es) : ge[k] \in Seq(Assignment) /\ Begins(ge[k], ge[Len(es)])
                /\ Joined(es) = ge[Len(es)]
  BY <1>4, JoinedInParts
<1> DEFINE used(k) == Len(gn[k])
<1>9. \A k \in 0 .. n : used(k) \in Nat /\ used(k) <= used(n) /\ used(k) <= budget
  <2>1. used(n) <= budget /\ used(n) = Len(names)
    <3>1. Len(names) <= budget
      BY DEF names
    <3>2. used(n) = Len(names)
      BY <1>4, <1>5, <1>7
    <3> HIDE DEF names, used
    <3> QED BY <3>1, <3>2
  <2>2. \A k \in 0 .. n : used(k) \in Nat /\ used(k) <= used(n)
    BY <1>4, <1>7 DEF Begins
  <2> HIDE DEF used, n
  <2>3. used(n) \in Nat
    BY <1>1, <2>2
  <2> QED BY <1>1, <2>1, <2>2, <2>3
<1>10. used(n) = Len(names) /\ used(0) = 0 /\ ge[0] = <<>> /\ ge[n] = Joined(es)
  <2>1. gn[0] = <<>> /\ ge[0] = <<>>
    BY <1>7, <1>8 DEF Partly
  <2>2. Len(<<>>) = 0
    OBVIOUS
  <2>3. Len(gn[0]) = 0
    BY <2>1, <2>2
  <2> QED BY <1>4, <1>5, <1>7, <1>8, <2>1, <2>3
<1>11. ASSUME NEW k \in 1 .. n
       PROVE  /\ used(k) = used(k - 1) + Len(kids[k].names) /\ Len(kids[k].names) \in Nat
              /\ ge[k] = ge[k - 1] \o kids[k].events
  <2>1. k \in 0 .. n /\ k - 1 \in 0 .. n
    OBVIOUS
  <2>2. gn[k] = gn[k - 1] \o kids[k].names /\ ge[k] = ge[k - 1] \o kids[k].events
    BY <1>4, <1>7, <1>8 DEF Partly
  <2>3. PICK s \in Seq(Seq(Nat)), t \in Seq(Seq(Nat)) : s = gn[k - 1] /\ t = kids[k].names
    BY <1>2, <1>4, <1>7, <2>1
  <2>4. Len(s \o t) = Len(s) + Len(t) /\ Len(t) \in Nat
    OBVIOUS
  <2>5. gn[k] = s \o t
    BY <2>2, <2>3
  <2> QED BY <2>2, <2>3, <2>4, <2>5
<1> HIDE DEF used, kids
<1> DEFINE tuple(k) == <<place[k], depth, budget - used(k), MaxItems - k>>
           result(E) == [end |-> place[n] + 1, events |-> E, budget |-> budget - used(n)]
           G == {k \in 0 .. n : \E E \in Seq(Assignment) : /\ ge[k] \o E = ge[n]
                                                     /\ ReadChildren[tuple(k)] = result(E)}
<1>12. ASSUME NEW k \in 0 .. n
       PROVE  /\ place[k] \in Nat /\ budget - used(k) \in Nat /\ MaxItems - k \in Nat
              /\ MaxItems - k # 0
              /\ ReadChildren[tuple(k)]
                   = ChildrenBy(place[k], depth, budget - used(k), MaxItems - k, ReadChildren)
  <2>1. place[k] \in Nat
    <3>1. CASE k = n
      BY <1>6, <3>1
    <3>2. CASE k # n
      <4>1. k + 1 \in 1 .. n /\ (k + 1) - 1 = k
        BY <1>1, <3>2
      <4> QED BY <1>6, <4>1
    <3> QED BY <3>1, <3>2
  <2>2. budget - used(k) \in Nat /\ MaxItems - k \in Nat /\ MaxItems - k # 0
    <3>1. used(k) \in Nat /\ used(k) <= budget
      BY <1>9
    <3> HIDE DEF n
    <3> QED BY <1>1, <3>1
  <2> QED BY <2>1, <2>2, ReadChildrenIs
<1>13. n \in G
  <2>1. ChildrenBy(place[n], depth, budget - used(n), MaxItems - n, ReadChildren) = result(<<>>)
    <3>1. Byte(place[n]) = 0 /\ Byte(place[n]) # None
      BY <1>6 DEF None
    <3> QED BY <1>1, <1>12, <3>1 DEF ChildrenBy
  <2>2. ReadChildren[tuple(n)] = result(<<>>)
    <3> HIDE DEF tuple, result
    <3> QED BY <1>1, <1>12, <2>1
  <2>3. <<>> \in Seq(Assignment) /\ ge[n] \o <<>> = ge[n]
    <3>1. ge[n] \in Seq(Assignment)
      BY <1>1, <1>4, <1>8
    <3>2. \A s \in Seq(Assignment) : s \o <<>> = s
      OBVIOUS
    <3> QED BY <3>1, <3>2
  <2> HIDE DEF tuple, result
  <2> QED BY <1>1, <2>2, <2>3
<1>14. ASSUME NEW k \in 1 .. n, k \in G PROVE k - 1 \in G
  <2>1. k \in 0 .. n /\ k - 1 \in 0 .. n /\ MaxItems - (k - 1) - 1 = MaxItems - k
    BY <1>1
  <2>2. PICK E \in Seq(Assignment) : ge[k] \o E = ge[n] /\ ReadChildren[tuple(k)] = result(E)
    BY <1>14
  <2> DEFINE left == budget - used(k - 1)
             kid == kids[k]
  <2>3. place[k - 1] \in Nat /\ left \in Nat
    BY <1>12, <2>1
  <2>4. ReadObject(place[k - 1], depth, left)
          = [end |-> place[k], events |-> kid.events, budget |-> budget - used(k)]
    <3>1. ReadsObject(kid) /\ WrittenAt(place[k - 1], kid.bytes)
          /\ place[k] = place[k - 1] + Len(kid.bytes)
      BY <1>2, <1>6
    <3>2. kid.height \in Nat /\ kid.height < o.height /\ Len(kid.names) \in Nat
          /\ used(k) = used(k - 1) + Len(kid.names)
      BY <1>2, <1>11
    <3> HIDE DEF kid
    <3>3. depth + kid.height <= MaxDepth
      BY <1>3, <3>2, SMTT(30)
    <3>4. used(k) \in Nat /\ used(k - 1) \in Nat /\ used(k) <= budget
      BY <1>9, <2>1
    <3>5. Len(kid.names) <= left /\ left - Len(kid.names) = budget - used(k)
      BY <3>2, <3>4
    <3> HIDE DEF left
    <3>6. ReadObject(place[k - 1], depth, left)
            = [end |-> place[k - 1] + Len(kid.bytes), events |-> kid.events,
               budget |-> left - Len(kid.names)]
      BY <2>3, <3>1, <3>3, <3>5 DEF ReadsObject
    <3> QED BY <3>1, <3>5, <3>6
  <2>5. kid.events \in Seq(Assignment) /\ ge[k] = ge[k - 1] \o kid.events
        /\ ge[k - 1] \in Seq(Assignment)
    BY <1>2, <1>4, <1>8, <1>11, <2>1
  <2>6. Byte(place[k - 1]) \notin {None, 0} /\ place[k] # None
    <3>1. place[k] \in Nat
      BY <1>12, <2>1
    <3> QED BY <1>6, <3>1 DEF None
  <2> DEFINE turns == MaxItems - (k - 1)
  <2>7. turns # 0 /\ ReadChildren[tuple(k - 1)] = ChildrenBy(place[k - 1], depth, left, turns, ReadChildren)
    BY <1>12, <2>1
  <2> DEFINE child == ReadObjectBy(place[k - 1], depth, left, ReadChildren)
  <2>8. child.end = place[k] /\ child.events = kid.events /\ child.budget = budget - used(k)
    <3>1. child = [end |-> place[k], events |-> kid.events, budget |-> budget - used(k)]
      <4> HIDE DEF kid, left
      <4> QED BY <2>4 DEF ReadObject
    <3> HIDE DEF child
    <3> QED BY <3>1
  <2>9. <<child.end, depth, child.budget, turns - 1>> = tuple(k)
    <3> HIDE DEF child
    <3> QED BY <2>1, <2>8
  <2>10. ChildrenBy(place[k - 1], depth, left, turns, ReadChildren) = Before(kid.events, ReadChildren[tuple(k)])
    <3> HIDE DEF kid, left, turns, tuple
    <3> QED BY <2>6, <2>7, <2>8, <2>9 DEF ChildrenBy
  <2>11. ReadChildren[tuple(k - 1)] = result(kid.events \o E)
    <3>1. Before(kid.events, result(E)) = result(kid.events \o E)
      <4>1. PICK x, y, first : x = place[n] + 1 /\ y = budget - used(n) /\ first = kid.events
        OBVIOUS
      <4>2. Before(first, [end |-> x, events |-> E, budget |-> y])
              = [end |-> x, events |-> first \o E, budget |-> y]
        BY BeforeMakes
      <4> QED BY <4>1, <4>2
    <3> HIDE DEF kid, left, turns, tuple, result
    <3> QED BY <2>2, <2>7, <2>10, <3>1
  <2>12. kid.events \o E \in Seq(Assignment) /\ ge[k - 1] \o (kid.events \o E) = ge[n]
    <3>1. PICK s \in Seq(Assignment), t \in Seq(Assignment) : s = ge[k - 1] /\ t = kid.events
      BY <2>5
    <3>2. s \o (t \o E) = (s \o t) \o E /\ t \o E \in Seq(Assignment)
      BY SMTT(30)
    <3> QED BY <2>2, <2>5, <3>1, <3>2
  <2> HIDE DEF kid, tuple, result
  <2> QED BY <2>1, <2>11, <2>12
<1> HIDE DEF G
<1>15. 0 \in G
  <2>1. \A k \in 1 .. n : k \in G => k - 1 \in G
    BY <1>14
  <2> HIDE DEF n
  <2>2. \A k \in 0 .. n : k \in G
    BY <1>1, <1>13, <2>1, Downward
  <2> QED BY <1>1, <2>2
<1>16. PICK E \in Seq(Assignment) : ge[0] \o E = ge[n] /\ ReadChildren[tuple(0)] = result(E)
  BY <1>15 DEF G
<1>17. E = Joined(es)
  <2>1. <<>> \o E = E
    OBVIOUS
  <2> QED BY <1>10, <1>16, <2>1
<1>18. tuple(0) = <<a, depth, budget, MaxItems>>
  BY <1>1, <1>6, <1>10
<1>19. result(E) = [end |-> a + Len(Listed(kids)), events |-> Joined(es), budget |-> budget - Len(names)]
  BY <1>6, <1>10, <1>17
<1> HIDE DEF tuple, result
<1> QED BY <1>5, <1>16, <1>18, <1>19 DEF kids, names

LEMMA ObjectReadBy ==
  ASSUME image \in Images, NEW o \in Controls,
         \A x \in Controls : x.height < o.height => ReadsObject(x)
  PROVE  ReadsObject(o)
<1> SUFFICES ASSUME NEW a \in Nat, NEW depth \in Nat, NEW budget \in Nat,
                    WrittenAt(a, o.bytes), depth + o.height <= MaxDepth, Len(o.names) <= budget
             PROVE  ReadObject(a, depth, budget)
                      = [end |-> a + Len(o.bytes), events |-> o.events, budget |-> budget - Len(o.names)]
  BY DEF ReadsObject
<1>1. /\ o.height \in Nat /\ MaxDepth \in Nat /\ o.names = NamesIn(o) /\ o.events = Assignments(o)
      /\ o.name \in Seq(Ident)
  BY ControlIs, FormsAssumption DEF IsControl
<1> DEFINE h == Opening(o)
           l == Listed(o.children)
           q == a + Len(h)
<1>2. h \in Seq(Nat) /\ l \in Seq(Nat) /\ o.bytes = h \o l
  BY ControlIs, ChildrenListed
<1> HIDE DEF h, l
<1>3. /\ WrittenAt(a, h) /\ WrittenAt(q, l)
      /\ q + Len(l) = a + Len(o.bytes) /\ q \in Nat /\ q # None
  <2>1. WrittenAt(a, h \o l) /\ a \in Int
    BY <1>2
  <2>2. WrittenAt(a, h) /\ WrittenAt(a + Len(h), l)
    BY <1>2, <2>1, WrittenConcat
  <2>3. Len(h \o l) = Len(h) + Len(l) /\ Len(h) \in Nat /\ Len(l) \in Nat
    BY <1>2, ConcatIs
  <2>4. a + Len(h) + Len(l) = a + Len(o.bytes) /\ a + Len(h) \in Nat
    <3>1. Len(o.bytes) = Len(h) + Len(l)
      BY <1>2, <2>3
    <3> QED BY <2>3, <3>1
  <2> QED BY <2>2, <2>4 DEF None
<1> DEFINE names == NamesInside(o)
           own == Joined([i \in 1 .. Len(o.props) |-> Assigned(o.name, o.props[i])])
           theirs == EventsInside(o)
<1>4. o.names = <<o.name>> \o names /\ o.events = own \o theirs
  BY <1>1 DEF NamesIn, Assignments, NamesInside, EventsInside
<1>5. PropsEnd(PropsAt(a)) = q /\ Events(Chars(NameAt(a)), PropsAt(a)) = own
  <2>1. WrittenAt(a, Opening(o))
    BY <1>3 DEF h
  <2> QED BY <2>1, HeadRead DEF h
<1>6. names \in Seq(Seq(Nat))
  <2> DEFINE ns == [i \in 1 .. Len(o.children) |-> o.children[i].names]
  <2>1. Len(o.children) \in Nat
    BY ControlIs DEF IsControl
  <2>2. \A i \in 1 .. Len(o.children) : o.children[i].names \in Seq(Seq(Nat))
    BY KidsAre
  <2>3. Len(ns) \in Nat /\ \A i \in 1 .. Len(ns) : ns[i] \in Seq(Seq(Nat))
    BY <2>1, <2>2
  <2> HIDE DEF ns
  <2>4. Joined(ns) \in Seq(Seq(Nat))
    BY <2>3, NoneLonger
  <2> QED BY <2>4 DEF ns, NamesInside
<1> HIDE DEF names, own, theirs
<1>7. Len(o.names) = 1 + Len(names) /\ Len(names) \in Nat
  <2>1. PICK name : name = o.name
    OBVIOUS
  <2>2. name \in Seq(Nat)
    <3>1. 0 \in Nat
      OBVIOUS
    <3> QED BY <1>1, <2>1, <3>1, NameRead
  <2>3. <<name>> \in Seq(Seq(Nat)) /\ Len(<<name>>) = 1
    BY <2>2
  <2>4. Len(<<name>> \o names) = 1 + Len(names)
    BY <1>6, <2>3
  <2> QED BY <1>4, <1>6, <2>1, <2>4
<1>8. /\ budget # 0 /\ ~(depth > MaxDepth) /\ budget - 1 \in Nat /\ Len(names) <= budget - 1
      /\ depth + 1 \in Nat /\ (depth + 1) + o.height <= MaxDepth + 1
      /\ budget - 1 - Len(names) = budget - Len(o.names)
  <2>1. PICK m \in Nat, n \in Nat, k \in Nat :
          m = Len(names) /\ k = Len(o.names) /\ n = o.height /\ k = 1 + m
    BY <1>1, <1>7
  <2>2. depth + n <= MaxDepth /\ k <= budget
    BY <2>1
  <2> QED BY <1>1, <2>1, <2>2
<1>9. \A i \in 1 .. Len(o.children) : ReadsObject(o.children[i])
  BY KidsAre
<1>10. ReadChildren[<<q, depth + 1, budget - 1, MaxItems>>]
         = [end |-> q + Len(l), events |-> theirs, budget |-> budget - 1 - Len(names)]
  <2>1. PICK d \in Nat, b \in Nat : d = depth + 1 /\ b = budget - 1
    BY <1>8
  <2>2. d + o.height <= MaxDepth + 1 /\ Len(names) <= b
    BY <1>8, <2>1
  <2>3. WrittenAt(q, Listed(o.children))
    BY <1>3 DEF l
  <2> HIDE DEF q
  <2>4. Len(NamesInside(o)) <= b
    BY <2>2 DEF names
  <2>5. ReadChildren[<<q, d, b, MaxItems>>]
          = [end |-> q + Len(Listed(o.children)), events |-> EventsInside(o),
             budget |-> b - Len(NamesInside(o))]
    BY <1>3, <1>9, <2>2, <2>3, <2>4, ChildrenRead, ZenonT(30)
  <2> QED BY <2>1, <2>5 DEF l, names, theirs
<1>11. ReadObject(a, depth, budget) = Before(own, ReadChildren[<<q, depth + 1, budget - 1, MaxItems>>])
  <2> HIDE DEF q
  <2> QED BY <1>3, <1>5, <1>8 DEF ReadObject, ReadObjectBy
<1>12. ReadObject(a, depth, budget)
         = [end |-> q + Len(l), events |-> own \o theirs, budget |-> budget - 1 - Len(names)]
  <2>1. PICK x, y : x = q + Len(l) /\ y = budget - 1 - Len(names)
    OBVIOUS
  <2>2. Before(own, [end |-> x, events |-> theirs, budget |-> y])
          = [end |-> x, events |-> own \o theirs, budget |-> y]
    BY BeforeMakes
  <2> HIDE DEF q
  <2> QED BY <1>10, <1>11, <2>1, <2>2
<1> HIDE DEF q
<1> QED BY <1>3, <1>4, <1>8, <1>12

LEMMA ObjectRead ==
  ASSUME image \in Images
  PROVE  \A o \in Controls : ReadsObject(o)
<1> DEFINE Bad == {o.height : o \in {x \in Controls : ~ReadsObject(x)}}
<1>1. SUFFICES ASSUME Bad # {} PROVE FALSE
  OBVIOUS
<1>2. \A o \in Controls : o.height \in Nat
  BY ControlIs DEF IsControl
<1>3. Bad \subseteq Nat
  BY <1>2
<1>4. PICK m \in Bad : \A k \in Bad : m <= k
  <2> HIDE DEF Bad
  <2> QED BY <1>1, <1>3, LeastNatural
<1>5. PICK o \in Controls : m = o.height /\ ~ReadsObject(o)
  OBVIOUS
<1>6. ASSUME NEW x \in Controls, x.height < o.height PROVE ReadsObject(x)
  <2> SUFFICES ASSUME ~ReadsObject(x) PROVE FALSE
    OBVIOUS
  <2>1. PICK k : k = x.height
    OBVIOUS
  <2>2. k \in Bad
    BY <2>1
  <2>3. m <= k /\ k < m /\ m \in Nat /\ k \in Nat
    <3> HIDE DEF Bad
    <3> QED BY <1>3, <1>4, <1>5, <1>6, <2>1, <2>2
  <2> QED BY <2>3
<1> QED BY <1>5, <1>6, ObjectReadBy

(* A form is what is parsed behind its signature.                          *)
LEMMA FormRead ==
  ASSUME image \in Images, NEW f \in Forms, NEW a \in Nat, HasMagic(a),
         WrittenAt(a + Len(MAGIC), f.bytes)
  PROVE  /\ ParseStream(a) = [addr |-> a + Len(MAGIC), end |-> a + Len(MAGIC) + Len(f.bytes),
                               events |-> f.events]
         /\ ParseStream(a) # NoStream
<1>1. PICK b \in Nat : b = a + Len(MAGIC)
  BY DEF MAGIC
<1>2. f \in Controls /\ f.height <= MaxDepth /\ Len(f.names) <= MaxItems /\ MaxItems \in Nat
  BY WriterAssumption, FormsAssumption
<1>3. f.height \in Nat /\ f.bytes \in Seq(Nat)
  BY <1>2, ControlIs DEF IsControl
<1>4. 0 + f.height <= MaxDepth /\ 0 \in Nat
  BY <1>2, <1>3
<1> DEFINE r == ReadObject(b, 0, MaxItems)
<1>5. r = [end |-> b + Len(f.bytes), events |-> f.events, budget |-> MaxItems - Len(f.names)]
  <2>1. WrittenAt(b, f.bytes)
    BY <1>1
  <2> QED BY <1>2, <1>4, <2>1, ObjectRead DEF ReadsObject
<1>6. ParseStream(a) = StreamOf(a, r)
  BY <1>1 DEF ParseStream
<1> HIDE DEF r
<1>7. b + Len(f.bytes) \in Nat /\ b + Len(f.bytes) # None
  BY <1>3 DEF None
<1>8. r.end = b + Len(f.bytes) /\ r.events = f.events
  BY <1>5
<1>9. ParseStream(a) = [addr |-> b, end |-> b + Len(f.bytes), events |-> f.events]
  BY <1>1, <1>6, <1>7, <1>8 DEF StreamOf
<1>10. ParseStream(a) # NoStream
  <2>1. ParseStream(a).end = b + Len(f.bytes) /\ NoStream.end = None
    BY <1>9 DEF NoStream
  <2> QED BY <1>7, <2>1
<1> QED BY <1>1, <1>9, <1>10

LEMMA SettledIsComplete ==
  ASSUME image \in Images, StreamsSettled
  PROVE  StreamsComplete
<1> SUFFICES ASSUME pass = "done",
                    NEW a \in CodeStart .. DataEnd - Len(MAGIC), HasMagic(a), NEW f \in Forms,
                    WrittenAt(a + Len(MAGIC), f.bytes)
             PROVE  \/ [addr |-> a + Len(MAGIC), end |-> a + Len(MAGIC) + Len(f.bytes),
                        events |-> f.events] \in ToSet(streams)
                    \/ \E s \in ToSet(streams) : s.addr <= a /\ a < s.end
  BY DEF StreamsComplete
<1> DEFINE kept == ToSet(streams)
<1>1. \/ \E s \in kept : s.addr <= a /\ a < s.end
      \/ ParseStream(a) = NoStream
      \/ ParseStream(a) \in kept
  BY DEF StreamsSettled
<1>2. a \in Nat
  BY Bounds
<1>3. /\ ParseStream(a) = [addr |-> a + Len(MAGIC), end |-> a + Len(MAGIC) + Len(f.bytes),
                            events |-> f.events]
      /\ ParseStream(a) # NoStream
  BY <1>2, FormRead
<1> QED BY <1>1, <1>3

(* A finished scan has every form as it was written, with all its events,  *)
(* unless its signature lies in another form, for any forms of any depth   *)
(* and any values, in any image and for any size of blocks (find_streams,  *)
(* parse_stream, _read_object, read_value).                                *)
THEOREM ScanReadsForms == Spec => []StreamsComplete
<1>1. Spec => [](SoFar /\ StreamsSoFar)
  <2>1. Init => SoFar /\ StreamsSoFar
    BY SoFarInit, StreamsInit
  <2>2. SoFar /\ StreamsSoFar /\ [Next]_vars => (SoFar /\ StreamsSoFar)'
    BY SoFarNext, StreamsNext
  <2> QED BY <2>1, <2>2, PTL DEF Spec
<1>2. SoFar /\ StreamsSoFar => StreamsComplete
  BY StreamsAreSettled, SettledIsComplete DEF SoFar
<1> QED BY <1>1, <1>2, PTL

-----------------------------------------------------------------------------
USE FilesAssumption

Lines == ToSet(offered)

(* How many lines have been read.                                          *)
Consumed == Len(offered) - Len(file)

(* Line j stands under the head, no other head between them.               *)
Under(head, j) ==
  \E h \in 1 .. j - 1 : /\ offered[h].kind = head
                        /\ \A m \in h + 1 .. j - 1 : offered[m].kind \notin TableHeads
(* RowsOf in the first n lines.                                            *)
RowsUpto(kind, head, n) ==
  {offered[i] : i \in {j \in 1 .. n : offered[j].kind = kind /\ Under(head, j)}}

(* What the fields hold. *)
Typed ==
  /\ offered \in Files /\ file \in Seq(Lines)
  /\ parsed \in [sections : Seq(Lines), symbols : Seq(Lines), lines : Nat]

(* What has been retained of the lines read is what stands in its table,   *)
(* and the mode says under which head the next line stands.                *)
ReadSoFar ==
  /\ Len(file) <= Len(offered)
  /\ \A i \in 1 .. Len(file) : file[i] = offered[Consumed + i]
  /\ mode = "sections" <=> Under("sections", Consumed + 1)
  /\ mode = "symbols" <=> Under("by value", Consumed + 1)
  /\ ToSet(parsed.sections) = RowsUpto("section", "sections", Consumed)
  /\ ToSet(parsed.symbols) = RowsUpto("public", "by value", Consumed)

(* Once the file is a MAP: all of it has been retained.                 *)
WholeFile ==
  /\ ToSet(parsed.sections) = RowsOf("section", "sections")
  /\ ToSet(parsed.symbols) = RowsOf("public", "by value")

(* An address that is done with: contributed, or rightly left out.         *)
Settled(a) ==
  \/ \E c \in container : c[1] = a
  \/ a \in named \union refused
  \/ a \notin Executable
  \/ Cardinality(Names(parsed, a)) # 1

(* At its end, and in the middle of contributing, what is in the container *)
(* is as mapped and was done with before; nobody's name came before it.    *)
Rightly == /\ \A c \in container : c[1] \in Executable /\ Names(parsed, c[1]) = {c[2]}
           /\ \A c \in container : c[1] \notin early
InTurn ==
  /\ pending \subseteq Addresses(parsed)
  /\ \A c \in container : c[1] \notin pending
(* The address judged may go in. *)
Chosen ==
  /\ turn \notin pending /\ turn \in Executable /\ turn \notin early
  /\ Cardinality(Names(parsed, turn)) = 1

DebugInfoInv ==
  /\ Typed
  /\ stage = "parse" => ReadSoFar /\ container = {}
  /\ stage = "ask" => container = {}
  /\ stage \in {"ask", "contribute", "add", "true"} => WholeFile
  /\ stage = "false" => container = {} \/ WholeFile
  /\ stage \in {"parse", "ask", "contribute", "add", "true", "false"}
  /\ stage \in {"contribute", "add"} => InTurn
  /\ stage = "contribute" => \A a \in Addresses(parsed) \ pending : Settled(a)
  /\ stage = "add" => Chosen /\ \A a \in Addresses(parsed) \ (pending \union {turn}) : Settled(a)
  /\ stage = "true" => \A a \in Addresses(parsed) : Settled(a)
  /\ early \subseteq named
  /\ Rightly

-----------------------------------------------------------------------------
(* TableHeads decide what the next line stands under.                           *)
LEMMA UnderNext ==
  ASSUME NEW head \in TableHeads, NEW j \in Nat, j >= 1
  PROVE  Under(head, j + 1) <=> \/ offered[j].kind = head
                                \/ offered[j].kind \notin TableHeads /\ Under(head, j)
<1>1. \A h : h \in 1 .. (j + 1) - 1 <=> h = j \/ h \in 1 .. j - 1
  OBVIOUS
<1>2. \A h \in 1 .. j - 1 : j \in h + 1 .. (j + 1) - 1
  OBVIOUS
<1>3. \A h \in 1 .. j - 1 : \A m : m \in h + 1 .. (j + 1) - 1 <=> m = j \/ m \in h + 1 .. j - 1
  OBVIOUS
<1>4. \A m : m \notin j + 1 .. (j + 1) - 1
  OBVIOUS
<1>5. ASSUME offered[j].kind = head PROVE Under(head, j + 1)
  BY <1>1, <1>4, <1>5 DEF Under
<1>6. ASSUME offered[j].kind \notin TableHeads, Under(head, j) PROVE Under(head, j + 1)
  <2>1. PICK h \in 1 .. j - 1 : /\ offered[h].kind = head
                                /\ \A m \in h + 1 .. j - 1 : offered[m].kind \notin TableHeads
    BY <1>6, Zenon DEF Under
  <2>2. \A m \in h + 1 .. (j + 1) - 1 : offered[m].kind \notin TableHeads
    BY <1>3, <1>6, <2>1
  <2> QED BY <1>1, <2>1, <2>2, Zenon DEF Under
<1>7. ASSUME Under(head, j + 1), offered[j].kind # head
      PROVE  offered[j].kind \notin TableHeads /\ Under(head, j)
  <2>1. PICK h \in 1 .. (j + 1) - 1 :
          /\ offered[h].kind = head
          /\ \A m \in h + 1 .. (j + 1) - 1 : offered[m].kind \notin TableHeads
    BY <1>7, Zenon DEF Under
  <2>2. h \in 1 .. j - 1
    BY <1>1, <1>7, <2>1
  <2> QED BY <1>2, <1>3, <2>1, <2>2, Zenon DEF Under
<1> QED BY <1>5, <1>6, <1>7

LEMMA UnderNothing == \A head : ~Under(head, 1)
BY DEF Under

(* One line more adds itself, if it is a row of the table it stands in.    *)
LEMMA RowsNext ==
  ASSUME NEW kind, NEW head, NEW n \in Nat
  PROVE  RowsUpto(kind, head, n + 1)
           = IF offered[n + 1].kind = kind /\ Under(head, n + 1)
             THEN RowsUpto(kind, head, n) \union {offered[n + 1]}
             ELSE RowsUpto(kind, head, n)
<1>1. \A j : j \in 1 .. n + 1 <=> j = n + 1 \/ j \in 1 .. n
  OBVIOUS
<1> QED BY <1>1, Zenon DEF RowsUpto

(* The mode a line leaves behind says what the next one stands under.      *)
LEMMA ModeOfHeads ==
  ASSUME NEW line
  PROVE  /\ ModeAfter(line) = "sections" <=>
              line.kind = "sections" \/ (line.kind \notin TableHeads /\ mode = "sections")
         /\ ModeAfter(line) = "symbols" <=>
              line.kind = "by value" \/ (line.kind \notin TableHeads /\ mode = "symbols")
BY DEF ModeAfter, TableHeads, NoMode

LEMMA Appended ==
  ASSUME NEW S, NEW s \in Seq(S), NEW x \in S
  PROVE  Append(s, x) \in Seq(S) /\ ToSet(Append(s, x)) = ToSet(s) \union {x}
<1> DEFINE t == Append(s, x)
<1>1. /\ t \in Seq(S) /\ Len(t) = Len(s) + 1 /\ Len(s) \in Nat
      /\ t[Len(s) + 1] = x /\ \A i \in 1 .. Len(s) : t[i] = s[i]
  OBVIOUS
<1>2. \A i : i \in 1 .. Len(s) + 1 <=> i = Len(s) + 1 \/ i \in 1 .. Len(s)
  BY <1>1
<1> HIDE DEF t
<1>3. ToSet(t) = {t[i] : i \in 1 .. Len(s) + 1} /\ ToSet(s) = {s[i] : i \in 1 .. Len(s)}
  BY <1>1 DEF ToSet
<1>4. ToSet(t) = ToSet(s) \union {x}
  BY <1>1, <1>2, <1>3
<1> QED BY <1>1, <1>4 DEF t

(* What the host may offer. *)
LEMMA LineTypes ==
  ASSUME Typed, NEW line \in Lines
  PROVE  /\ line.kind = "public" => line.offset \in Nat
         /\ line.kind = "pairs" => line.count \in Nat
<1>1. offered \in Files /\ line \in ToSet(offered)
  BY DEF Typed, Lines
<1> QED BY <1>1

(* What a line adds to what has been retained.                             *)
LEMMA Retained ==
  ASSUME Typed, NEW line \in Lines
  PROVE  /\ Retain(line) \in [sections : Seq(Lines), symbols : Seq(Lines), lines : Nat]
         /\ ToSet(Retain(line).sections) =
              IF mode = "sections" /\ line.kind = "section"
              THEN ToSet(parsed.sections) \union {line} ELSE ToSet(parsed.sections)
         /\ ToSet(Retain(line).symbols) =
              IF mode = "symbols" /\ line.kind = "public"
              THEN ToSet(parsed.symbols) \union {line} ELSE ToSet(parsed.symbols)
<1>1. parsed.sections \in Seq(Lines) /\ parsed.symbols \in Seq(Lines) /\ parsed.lines \in Nat
      /\ parsed = [sections |-> parsed.sections, symbols |-> parsed.symbols, lines |-> parsed.lines]
  BY DEF Typed
<1>2. /\ Append(parsed.sections, line) \in Seq(Lines)
      /\ ToSet(Append(parsed.sections, line)) = ToSet(parsed.sections) \union {line}
  BY <1>1, Appended
<1>3. /\ Append(parsed.symbols, line) \in Seq(Lines)
      /\ ToSet(Append(parsed.symbols, line)) = ToSet(parsed.symbols) \union {line}
  BY <1>1, Appended
<1>4. line.kind = "pairs" => line.count \in Nat
  BY LineTypes
<1>5. CASE mode = "sections" /\ line.kind = "section"
  <2>1. Retain(line) = [parsed EXCEPT !.sections = Append(@, line)]
    BY <1>5 DEF Retain
  <2>2. /\ Retain(line).sections = Append(parsed.sections, line)
        /\ Retain(line).symbols = parsed.symbols
        /\ Retain(line) \in [sections : Seq(Lines), symbols : Seq(Lines), lines : Nat]
    BY <1>1, <1>2, <2>1
  <2> QED BY <1>2, <1>5, <2>2
<1>6. CASE mode = "symbols" /\ line.kind = "public"
  <2>1. Retain(line) = [parsed EXCEPT !.symbols = Append(@, line)]
    BY <1>6 DEF Retain
  <2>2. /\ Retain(line).symbols = Append(parsed.symbols, line)
        /\ Retain(line).sections = parsed.sections
        /\ Retain(line) \in [sections : Seq(Lines), symbols : Seq(Lines), lines : Nat]
    BY <1>1, <1>3, <2>1
  <2> QED BY <1>3, <1>6, <2>2
<1>7. CASE ~(mode = "sections" /\ line.kind = "section") /\ ~(mode = "symbols" /\ line.kind = "public")
  <2>1. Retain(line) = parsed \/
          (line.kind = "pairs" /\ Retain(line) = [parsed EXCEPT !.lines = @ + line.count])
    BY <1>7 DEF Retain
  <2>2. /\ Retain(line).symbols = parsed.symbols
        /\ Retain(line).sections = parsed.sections
        /\ Retain(line) \in [sections : Seq(Lines), symbols : Seq(Lines), lines : Nat]
    BY <1>1, <1>4, <2>1
  <2> QED BY <1>7, <2>2
<1> QED BY <1>5, <1>6, <1>7

(* The next line is the one after those consumed.                          *)
LEMMA NextLine ==
  ASSUME Typed, ReadSoFar, file # <<>>
  PROVE  /\ Consumed \in Nat /\ Consumed + 1 \in 1 .. Len(offered)
         /\ Consumed + 1 \in Nat /\ Consumed + 1 >= 1
         /\ Head(file) = offered[Consumed + 1] /\ Head(file) \in Lines
         /\ Tail(file) \in Seq(Lines)
         /\ Len(offered) - Len(Tail(file)) = Consumed + 1
         /\ Len(Tail(file)) <= Len(offered)
         /\ \A i \in 1 .. Len(Tail(file)) : Tail(file)[i] = offered[Consumed + 1 + i]
<1>1. offered \in Seq(Lines) /\ file \in Seq(Lines)
  BY DEF Typed, Lines
<1>2. Len(offered) \in Nat /\ Len(file) \in Nat /\ Len(file) >= 1 /\ Len(file) <= Len(offered)
  <2>1. Len(file) <= Len(offered)
    BY DEF ReadSoFar
  <2> QED BY <1>1, <2>1
<1>3. /\ Consumed \in Nat /\ Consumed + 1 \in 1 .. Len(offered)
      /\ Consumed + 1 \in Nat /\ Consumed + 1 >= 1
  BY <1>2 DEF Consumed
<1>4. 1 \in 1 .. Len(file) /\ Head(file) = file[1] /\ Head(file) \in Lines
  BY <1>1, <1>2
<1>5. Head(file) = offered[Consumed + 1]
  BY <1>4 DEF ReadSoFar
<1>6. /\ Tail(file) \in Seq(Lines) /\ Len(Tail(file)) = Len(file) - 1
      /\ \A i \in 1 .. Len(file) - 1 : Tail(file)[i] = file[i + 1]
  BY <1>1, <1>2
<1>7. ASSUME NEW i \in 1 .. Len(Tail(file)) PROVE Tail(file)[i] = offered[Consumed + 1 + i]
  <2>1. i + 1 \in 1 .. Len(file) /\ Tail(file)[i] = file[i + 1]
    BY <1>2, <1>6
  <2>2. file[i + 1] = offered[Consumed + (i + 1)]
    BY <2>1 DEF ReadSoFar
  <2>3. Consumed + (i + 1) = Consumed + 1 + i
    BY <1>3, <1>6
  <2> QED BY <2>1, <2>2, <2>3
<1>8. Len(offered) - Len(Tail(file)) = Consumed + 1 /\ Len(Tail(file)) <= Len(offered)
  BY <1>2, <1>6 DEF Consumed
<1> QED BY <1>3, <1>4, <1>5, <1>6, <1>7, <1>8

(* A line read, the reader has what one more line says.                    *)
LEMMA ReadOn ==
  ASSUME Typed, ReadSoFar, file # <<>>, ReadLine, Head(file).kind # "too long"
  PROVE  Typed' /\ ReadSoFar'
<1> DEFINE n == Consumed
           line == Head(file)
<1>1. /\ n \in Nat /\ n + 1 \in 1 .. Len(offered)
      /\ n + 1 \in Nat /\ n + 1 >= 1
      /\ line = offered[n + 1] /\ line \in Lines
      /\ Tail(file) \in Seq(Lines)
      /\ Len(offered) - Len(Tail(file)) = n + 1
      /\ Len(Tail(file)) <= Len(offered)
      /\ \A i \in 1 .. Len(Tail(file)) : Tail(file)[i] = offered[n + 1 + i]
  BY NextLine
<1>2. /\ file' = Tail(file) /\ offered' = offered
      /\ mode' = ModeAfter(line) /\ parsed' = Retain(line)
  BY DEF ReadLine
<1>3. Consumed' = n + 1 /\ Lines' = Lines
  BY <1>1, <1>2 DEF Consumed, Lines
<1>4. \A head, j : Under(head, j)' <=> Under(head, j)
  BY <1>2 DEF Under
<1>5. \A kind, head, k : RowsUpto(kind, head, k)' = RowsUpto(kind, head, k)
  BY <1>2, <1>4 DEF RowsUpto
<1>6. /\ parsed' \in [sections : Seq(Lines), symbols : Seq(Lines), lines : Nat]
      /\ ToSet(parsed'.sections) =
           IF mode = "sections" /\ line.kind = "section"
           THEN ToSet(parsed.sections) \union {line} ELSE ToSet(parsed.sections)
      /\ ToSet(parsed'.symbols) =
           IF mode = "symbols" /\ line.kind = "public"
           THEN ToSet(parsed.symbols) \union {line} ELSE ToSet(parsed.symbols)
  BY <1>1, <1>2, Retained
<1>7. Typed'
  BY <1>1, <1>2, <1>3, <1>6 DEF Typed
<1>8. /\ mode' = "sections" <=> Under("sections", n + 1 + 1)
      /\ mode' = "symbols" <=> Under("by value", n + 1 + 1)
  <2>1. /\ Under("sections", n + 1 + 1) <=> \/ line.kind = "sections"
                                            \/ line.kind \notin TableHeads /\ Under("sections", n + 1)
        /\ Under("by value", n + 1 + 1) <=> \/ line.kind = "by value"
                                            \/ line.kind \notin TableHeads /\ Under("by value", n + 1)
    <3> HIDE DEF n, line
    <3>1. "sections" \in TableHeads /\ "by value" \in TableHeads
      BY DEF TableHeads
    <3> QED BY <1>1, <3>1, UnderNext
  <2>2. (mode = "sections" <=> Under("sections", n + 1)) /\ (mode = "symbols" <=> Under("by value", n + 1))
    BY DEF ReadSoFar
  <2> HIDE DEF n, line
  <2> QED BY <1>2, <2>1, <2>2, ModeOfHeads
<1>9. /\ ToSet(parsed'.sections) = RowsUpto("section", "sections", n + 1)
      /\ ToSet(parsed'.symbols) = RowsUpto("public", "by value", n + 1)
  <2>1. /\ ToSet(parsed.sections) = RowsUpto("section", "sections", n)
        /\ ToSet(parsed.symbols) = RowsUpto("public", "by value", n)
        /\ (mode = "sections" <=> Under("sections", n + 1)) /\ (mode = "symbols" <=> Under("by value", n + 1))
    BY DEF ReadSoFar
  <2> HIDE DEF n, line
  <2>2. /\ RowsUpto("section", "sections", n + 1) =
             IF line.kind = "section" /\ Under("sections", n + 1)
             THEN RowsUpto("section", "sections", n) \union {line} ELSE RowsUpto("section", "sections", n)
        /\ RowsUpto("public", "by value", n + 1) =
             IF line.kind = "public" /\ Under("by value", n + 1)
             THEN RowsUpto("public", "by value", n) \union {line} ELSE RowsUpto("public", "by value", n)
    BY <1>1, RowsNext
  <2> QED BY <1>6, <2>1, <2>2
<1>10. ReadSoFar'
  <2> HIDE DEF n, line
  <2> QED BY <1>1, <1>2, <1>3, <1>4, <1>5, <1>8, <1>9 DEF ReadSoFar
<1> QED BY <1>7, <1>10

(* At the end of the file all its rows have been met.                      *)
LEMMA AllRead ==
  ASSUME Typed, ReadSoFar, file = <<>>
  PROVE  WholeFile
<1>1. offered \in Seq(Lines) /\ Len(offered) \in Nat /\ DOMAIN offered = 1 .. Len(offered)
  BY DEF Typed, Lines
<1>2. Consumed = Len(offered)
  BY <1>1 DEF Consumed
<1>3. \A kind, head : RowsUpto(kind, head, Len(offered)) = RowsOf(kind, head)
  BY <1>1 DEF RowsUpto, RowsOf, Under
<1> QED BY <1>2, <1>3 DEF ReadSoFar, WholeFile

(* A target is an address or none.                                         *)
LEMMA TargetType ==
  ASSUME NEW sections, NEW s, s.offset \in Nat
  PROVE  TargetAddress(sections, s) \in Nat \union {NoAddress}
<1>1. \A section : section.name \in DOMAIN Sections =>
                     Sections[section.name].start + s.offset \in Nat
  OBVIOUS
<1> QED BY <1>1 DEF TargetAddress

LEMMA AddressesType ==
  ASSUME Typed, WholeFile
  PROVE  Addresses(parsed) \subseteq Nat
<1> SUFFICES ASSUME NEW s \in ToSet(parsed.symbols) PROVE s.offset \in Nat
  BY TargetType DEF Addresses
<1>1. s \in RowsOf("public", "by value")
  BY DEF WholeFile
<1>2. s \in Lines /\ s.kind = "public"
  BY <1>1 DEF RowsOf, Lines, ToSet
<1> QED BY <1>2, LineTypes

(* The next turn is one of those pending.                                  *)
LEMMA TurnIsPending ==
  ASSUME pending \subseteq Nat, pending # {}
  PROVE  Turn \in pending
<1>1. \E a \in pending : \A b \in pending : a <= b
  BY LeastNatural
<1> QED BY <1>1 DEF Turn

(* An address has finitely many names, so one that has one has no other.   *)
LEMMA OneName ==
  ASSUME Typed, NEW a, Cardinality(Names(parsed, a)) = 1
  PROVE  \E n : Names(parsed, a) = {n}
<1> DEFINE of == {i \in 1 .. Len(parsed.symbols) :
                    TargetAddress(ToSet(parsed.sections), parsed.symbols[i]) = a}
           f == [i \in of |-> parsed.symbols[i].name]
<1>1. Len(parsed.symbols) \in Nat /\ DOMAIN parsed.symbols = 1 .. Len(parsed.symbols)
  BY DEF Typed
<1>2. IsFiniteSet(of)
  <2>1. IsFiniteSet(1 .. Len(parsed.symbols)) /\ of \in SUBSET (1 .. Len(parsed.symbols))
    BY <1>1, FS_Interval
  <2> HIDE DEF of
  <2> QED BY <2>1, FS_Subset
<1>3. Names(parsed, a) = {parsed.symbols[i].name : i \in of}
  BY <1>1 DEF Names, ToSet
<1>4. f \in Surjection(of, Names(parsed, a))
  <2> HIDE DEF of
  <2> QED BY <1>3 DEF Surjection
<1>5. IsFiniteSet(Names(parsed, a))
  <2> HIDE DEF of, f
  <2> QED BY <1>2, <1>4, FS_Surjection
<1> QED BY <1>5, FS_Singleton

-----------------------------------------------------------------------------
LEMMA InvAtStart == MapInit => DebugInfoInv
<1> SUFFICES ASSUME MapInit PROVE DebugInfoInv
  OBVIOUS
<1>1. offered \in Files /\ file = offered /\ offered \in Seq(Lines)
  BY DEF MapInit, Lines
<1>2. Len(offered) \in Nat
  BY <1>1
<1>3. Consumed = 0
  BY <1>1, <1>2 DEF Consumed
<1>4. parsed = [sections |-> <<>>, symbols |-> <<>>, lines |-> 0] /\ mode = "none"
      /\ container = {} /\ stage = "parse"
  BY DEF MapInit, NoMode
<1>5. Typed
  BY <1>1, <1>4 DEF Typed
<1>6. ToSet(parsed.sections) = {} /\ ToSet(parsed.symbols) = {}
  BY <1>4 DEF ToSet
<1>7. \A kind, head : RowsUpto(kind, head, 0) = {}
  BY DEF RowsUpto
<1>8. /\ ~Under("sections", Consumed + 1) /\ ~Under("by value", Consumed + 1)
      /\ \A kind, head : RowsUpto(kind, head, Consumed) = {}
  <2>1. Consumed + 1 = 1
    BY <1>3
  <2> QED BY <1>3, <1>7, <2>1, UnderNothing
<1>9. ReadSoFar
  <2>1. \A i \in 1 .. Len(file) : Consumed + i = i
    BY <1>1, <1>2, <1>3
  <2>2. Len(file) <= Len(offered) /\ \A i \in 1 .. Len(file) : file[i] = offered[Consumed + i]
    BY <1>1, <1>2, <2>1
  <2>3. mode # "sections" /\ mode # "symbols"
    BY <1>4
  <2> QED BY <1>6, <1>8, <2>2, <2>3 DEF ReadSoFar
<1>10. Rightly /\ early \subseteq named
  BY <1>4 DEF Rightly, MapInit
<1> QED BY <1>4, <1>5, <1>9, <1>10 DEF DebugInfoInv

(* After parsing nothing of the file or of what was retained changes.      *)
LEMMA RowsKept ==
  ASSUME UNCHANGED reading
  PROVE  /\ Typed' <=> Typed
         /\ ReadSoFar' <=> ReadSoFar
         /\ WholeFile' <=> WholeFile
         /\ Addresses(parsed)' = Addresses(parsed)
         /\ \A a : Names(parsed, a)' = Names(parsed, a)
BY DEF reading, Typed, ReadSoFar, WholeFile, Addresses, Names, Lines, Consumed, Under, RowsUpto, RowsOf

LEMMA InvKept == DebugInfoInv /\ [MapNext]_mapVars => DebugInfoInv'
<1> SUFFICES ASSUME DebugInfoInv, [MapNext]_mapVars PROVE DebugInfoInv'
  OBVIOUS
<1>1. ASSUME ReadLine PROVE DebugInfoInv'
  <2>1. /\ Typed /\ ReadSoFar /\ container = {} /\ stage = "parse" /\ file # <<>>
        /\ container' = {} /\ offered' = offered /\ early' \subseteq named'
    BY <1>1 DEF ReadLine, DebugInfoInv
  <2>2. Rightly'
    BY <2>1 DEF Rightly
  <2>3. CASE Head(file).kind = "too long"
    <3>1. stage' = "false" /\ parsed' = parsed /\ file' = Tail(file)
      BY <1>1, <2>3 DEF ReadLine
    <3>2. Tail(file) \in Seq(Lines) /\ Lines' = Lines
      BY <2>1, NextLine DEF Lines
    <3>3. Typed'
      BY <2>1, <3>1, <3>2 DEF Typed
    <3> QED BY <2>1, <2>2, <3>1, <3>3 DEF DebugInfoInv
  <2>4. CASE Head(file).kind # "too long"
    <3>1. Typed' /\ ReadSoFar'
      BY <1>1, <2>1, <2>4, ReadOn
    <3>2. stage' \in {"parse", "false"}
      BY <1>1, <2>1 DEF ReadLine
    <3> QED BY <2>1, <2>2, <3>1, <3>2 DEF DebugInfoInv
  <2> QED BY <2>3, <2>4
<1>2. ASSUME EndOfFile PROVE DebugInfoInv'
  <2>1. /\ Typed /\ ReadSoFar /\ container' = {} /\ stage' \in {"ask", "false"}
        /\ file = <<>> /\ UNCHANGED reading /\ early' \subseteq named'
    BY <1>2 DEF EndOfFile, DebugInfoInv
  <2>2. Typed' /\ WholeFile'
    BY <2>1, AllRead, RowsKept
  <2>3. Rightly'
    BY <2>1 DEF Rightly
  <2> QED BY <2>1, <2>2, <2>3 DEF DebugInfoInv
<1>3. ASSUME Cancelled PROVE DebugInfoInv'
  <2>1. /\ UNCHANGED reading /\ stage' = "false" /\ container' = {} /\ Typed
        /\ early' \subseteq named'
    BY <1>3 DEF Cancelled, DebugInfoInv
  <2>2. Rightly'
    BY <2>1 DEF Rightly
  <2> QED BY <2>1, <2>2, RowsKept DEF DebugInfoInv
<1>4. ASSUME GoOn PROVE DebugInfoInv'
  <2>1. /\ UNCHANGED reading /\ stage' = "contribute" /\ container' = {} /\ Typed /\ WholeFile
        /\ pending' = Addresses(parsed) /\ early' \subseteq named'
    BY <1>4 DEF GoOn, DebugInfoInv
  <2>2. Typed' /\ WholeFile' /\ Addresses(parsed)' = Addresses(parsed)
    BY <2>1, RowsKept
  <2>3. pending' = Addresses(parsed)'
    BY <2>1, <2>2
  <2>4. Rightly' /\ InTurn'
    BY <2>1, <2>3 DEF Rightly, InTurn
  <2> QED BY <2>1, <2>2, <2>3, <2>4 DEF DebugInfoInv
<1>5. ASSUME Judge PROVE DebugInfoInv'
  <2>1. /\ UNCHANGED reading /\ stage = "contribute" /\ named' = named /\ early' = early
        /\ pending # {} /\ pending' = pending \ {Turn} /\ turn' = Turn
        /\ container' = container /\ refused' = refused
        /\ stage' = IF Safe(Turn) THEN "add" ELSE stage
    BY <1>5 DEF Judge
  <2>2. Typed /\ WholeFile /\ InTurn /\ Rightly /\ early \subseteq named
    BY <2>1 DEF DebugInfoInv
  <2>3. Typed' /\ WholeFile' /\ Addresses(parsed)' = Addresses(parsed)
        /\ \A a : Names(parsed, a)' = Names(parsed, a)
    BY <2>1, <2>2, RowsKept
  <2>4. Rightly' /\ InTurn'
    BY <2>1, <2>2, <2>3 DEF Rightly, InTurn
  <2>5. \A a : Settled(a) => Settled(a)'
    BY <2>1, <2>3 DEF Settled
  <2>6. \A a \in Addresses(parsed) \ pending : Settled(a)'
    BY <2>1, <2>5 DEF DebugInfoInv
  <2>7. CASE Safe(Turn)
    <3>1. Chosen'
      BY <2>1, <2>2, <2>3, <2>7 DEF Safe, Chosen
    <3>2. \A a \in Addresses(parsed)' \ (pending' \union {turn'}) : Settled(a)'
      BY <2>1, <2>3, <2>6
    <3> QED BY <2>1, <2>2, <2>3, <2>4, <2>7, <3>1, <3>2 DEF DebugInfoInv
  <2>8. CASE ~Safe(Turn)
    <3>1. Settled(Turn)
      BY <2>8 DEF Settled, Safe
    <3>2. \A a \in Addresses(parsed)' \ pending' : Settled(a)'
      BY <2>1, <2>3, <2>5, <2>6, <3>1
    <3> QED BY <2>1, <2>2, <2>3, <2>4, <2>8, <3>2 DEF DebugInfoInv
  <2> QED BY <2>7, <2>8
<1>6. ASSUME AddFunction PROVE DebugInfoInv'
  <2>1. /\ UNCHANGED reading /\ stage = "add" /\ stage' = "contribute" /\ named' = named
        /\ early' = early /\ pending' = pending /\ turn' = turn
    BY <1>6 DEF AddFunction
  <2>2. Typed /\ WholeFile /\ InTurn /\ Rightly /\ Chosen /\ early \subseteq named
    BY <2>1 DEF DebugInfoInv
  <2>3. PICK n : Names(parsed, turn) = {n}
    BY <2>2, OneName DEF Chosen
  <2>4. \/ container' = container \union {<<turn, n>>} /\ refused' = refused
        \/ container' = container /\ refused' = refused \union {turn}
    BY <1>6, <2>3 DEF AddFunction
  <2>5. Typed' /\ WholeFile' /\ Addresses(parsed)' = Addresses(parsed)
        /\ \A a : Names(parsed, a)' = Names(parsed, a)
    BY <2>1, <2>2, RowsKept
  <2>6. Rightly'
    BY <2>1, <2>2, <2>3, <2>4, <2>5 DEF Rightly, Chosen
  <2>7. InTurn'
    BY <2>1, <2>2, <2>4, <2>5 DEF InTurn, Chosen
  <2>8. Settled(turn)'
    <3>1. CASE container' = container \union {<<turn, n>>}
      <4>1. <<turn, n>> \in container' /\ <<turn, n>>[1] = turn
        BY <3>1
      <4> QED BY <2>1, <4>1, Zenon DEF Settled
    <3>2. CASE refused' = refused \union {turn}
      BY <2>1, <3>2 DEF Settled
    <3> QED BY <2>4, <3>1, <3>2
  <2>9. \A a : Settled(a) => Settled(a)'
    BY <2>1, <2>4, <2>5 DEF Settled
  <2>10. \A a \in Addresses(parsed)' \ pending' : Settled(a)'
    <3>1. \A a \in Addresses(parsed) \ (pending \union {turn}) : Settled(a)
      BY <2>1 DEF DebugInfoInv
    <3>2. turn' = turn
      BY <2>1
    <3> QED BY <2>1, <2>5, <2>8, <2>9, <3>1, <3>2
  <2> QED BY <2>1, <2>2, <2>5, <2>6, <2>7, <2>10 DEF DebugInfoInv
<1>7. ASSUME Contributed PROVE DebugInfoInv'
  <2>1. /\ UNCHANGED reading /\ stage = "contribute" /\ stage' = "true" /\ named' = named
        /\ early' = early /\ pending = {} /\ container' = container /\ refused' = refused
    BY <1>7 DEF Contributed
  <2>2. Typed' /\ WholeFile' /\ Addresses(parsed)' = Addresses(parsed)
        /\ \A a : Names(parsed, a)' = Names(parsed, a)
    BY <2>1, RowsKept DEF DebugInfoInv
  <2>3. \A a \in Addresses(parsed) : Settled(a)
    BY <2>1 DEF DebugInfoInv
  <2>4. \A a \in Addresses(parsed)' : Settled(a)'
    BY <2>1, <2>2, <2>3 DEF Settled
  <2>5. Rightly' /\ early' \subseteq named'
    BY <2>1, <2>2 DEF DebugInfoInv, Rightly
  <2> QED BY <2>1, <2>2, <2>4, <2>5 DEF DebugInfoInv
<1>8. ASSUME Raise PROVE DebugInfoInv'
  <2>1. /\ UNCHANGED reading /\ stage \in {"contribute", "add"} /\ stage' = "false"
        /\ container' = container /\ named' = named /\ early' = early
    BY <1>8 DEF Raise
  <2>2. Typed' /\ WholeFile' /\ \A a : Names(parsed, a)' = Names(parsed, a)
    BY <2>1, RowsKept DEF DebugInfoInv
  <2>3. Rightly' /\ early' \subseteq named'
    BY <2>1, <2>2 DEF DebugInfoInv, Rightly
  <2> QED BY <2>1, <2>2, <2>3 DEF DebugInfoInv
<1>9. ASSUME AnalystNames \/ UNCHANGED mapVars PROVE DebugInfoInv'
  <2>1. /\ UNCHANGED reading /\ stage' = stage /\ named \subseteq named' /\ turn' = turn
        /\ pending' = pending /\ container' = container /\ refused' = refused
    BY <1>9 DEF AnalystNames, mapVars
  <2>2. /\ Typed' <=> Typed
        /\ ReadSoFar' <=> ReadSoFar
        /\ WholeFile' <=> WholeFile
        /\ Addresses(parsed)' = Addresses(parsed)
        /\ \A a : Names(parsed, a)' = Names(parsed, a)
    BY <2>1, RowsKept
  <2>3. \A a : Settled(a) => Settled(a)'
    BY <2>1, <2>2 DEF Settled
  <2>4. /\ early' \subseteq named'
        /\ early' = early \/ \E a : /\ early' = early \union {a}
                                    /\ \/ stage \in {"parse", "ask"}
                                       \/ stage \in {"contribute", "add"} /\ a \in pending
    <3>1. CASE AnalystNames
      <4>1. PICK a \in Analyst \ named :
              /\ named' = named \union {a}
              /\ early' = IF stage \in {"parse", "ask"} \/ a \in pending
                          THEN early \union {a} ELSE early
        BY <3>1 DEF AnalystNames
      <4>2. stage \in {"parse", "ask", "contribute", "add"} /\ early \subseteq named
        BY <3>1 DEF AnalystNames, DebugInfoInv
      <4> QED BY <4>1, <4>2
    <3>2. CASE UNCHANGED mapVars
      BY <3>2 DEF mapVars, DebugInfoInv
    <3> QED BY <1>9, <3>1, <3>2
  <2>5. \A c \in container' : c[1] \notin early'
    <3>1. CASE stage \in {"parse", "ask"}
      BY <2>1, <3>1 DEF DebugInfoInv
    <3>2. CASE stage \notin {"parse", "ask"}
      BY <2>1, <2>4, <3>2 DEF DebugInfoInv, InTurn, Rightly
    <3> QED BY <3>1, <3>2
  <2>6. Rightly'
    BY <2>1, <2>2, <2>5 DEF DebugInfoInv, Rightly
  <2>7. InTurn => InTurn'
    BY <2>1, <2>2 DEF InTurn
  <2>8. ASSUME stage = "add" PROVE Chosen'
    <3>1. Chosen /\ turn' \notin early'
      BY <2>1, <2>4, <2>8 DEF DebugInfoInv, Chosen
    <3> QED BY <2>1, <2>2, <3>1 DEF Chosen
  <2> QED BY <2>1, <2>2, <2>3, <2>4, <2>6, <2>7, <2>8 DEF DebugInfoInv
<1> QED BY <1>1, <1>2, <1>3, <1>4, <1>5, <1>6, <1>7, <1>8, <1>9 DEF MapNext, Idle

(* The invariant says what the property asks.                              *)
LEMMA InvContributes == DebugInfoInv => ContributedAsMapped
<1> SUFFICES ASSUME DebugInfoInv PROVE ContributedAsMapped
  OBVIOUS
<1> DEFINE sections == RowsOf("section", "sections")
           named_at(a) == {r.name : r \in {t \in RowsOf("public", "by value") :
                                             TargetAddress(sections, t) = a}}
<1>1. ASSUME WholeFile PROVE \A a : named_at(a) = Names(parsed, a)
  BY <1>1 DEF WholeFile, Names
<1>2. ASSUME NEW c \in container PROVE c[1] \in Executable /\ named_at(c[1]) = {c[2]}
  <2>1. WholeFile
    BY DEF DebugInfoInv
  <2> QED BY <1>1, <2>1 DEF DebugInfoInv, Rightly
<1>3. ASSUME stage = "true", NEW a \in Executable \ (named \union refused),
             Cardinality(named_at(a)) = 1
      PROVE  \E c \in container : c[1] = a
  <2>1. WholeFile /\ named_at(a) = Names(parsed, a)
    BY <1>1, <1>3 DEF DebugInfoInv
  <2>2. Names(parsed, a) # {}
    <3> HIDE DEF named_at
    <3>1. Cardinality({}) = 0
      BY FS_EmptySet
    <3>2. Cardinality(Names(parsed, a)) = 1
      BY <1>3, <2>1
    <3>3. ASSUME Names(parsed, a) = {} PROVE FALSE
      <4>1. Cardinality(Names(parsed, a)) = Cardinality({})
        BY <3>3, Zenon
      <4> QED BY <3>1, <3>2, <4>1
    <3> QED BY <3>3
  <2>3. a \in Addresses(parsed)
    BY <2>2 DEF Addresses, Names, NoAddress
  <2>4. Settled(a)
    BY <1>3, <2>3 DEF DebugInfoInv
  <2> QED BY <1>3, <2>1, <2>4 DEF Settled
<1> QED BY <1>2, <1>3 DEF ContributedAsMapped

(* What a MAP file contributes is what the whole of it says, and a parse   *)
(* that answers True has left nothing out that it had to contribute.       *)
THEOREM ContributionsAreMapped == MapSpec => []ContributedAsMapped
<1>1. MapSpec => []DebugInfoInv
  BY InvAtStart, InvKept, PTL DEF MapSpec
<1> QED BY <1>1, InvContributes, PTL

(* Nothing is contributed at an address that bore a name of the analyst's  *)
(* when it was judged, however late in the parse the name was given.       *)
THEOREM AnalystNamesNotTaken == MapSpec => []AnalystNamesFirst
<1>1. MapSpec => []DebugInfoInv
  BY InvAtStart, InvKept, PTL DEF MapSpec
<1>2. DebugInfoInv => AnalystNamesFirst
  BY DEF DebugInfoInv, Rightly, AnalystNamesFirst
<1> QED BY <1>1, <1>2, PTL

(* A file turned down, at its last line perhaps, or cancelled has          *)
(* contributed nothing.                                                    *)
THEOREM RejectionsLeaveNothing == MapSpec => RejectedLeavesNothing
<1>1. MapSpec => []DebugInfoInv
  BY InvAtStart, InvKept, PTL DEF MapSpec
<1>2. ASSUME DebugInfoInv, [MapNext]_mapVars
      PROVE  [stage' = "false" /\ stage \notin {"contribute", "add"} => container' = {}]_mapVars
  <2> SUFFICES ASSUME MapNext, stage' = "false", stage \notin {"contribute", "add"}
               PROVE  container' = {} \/ UNCHANGED mapVars
    BY <1>2
  <2> QED BY <1>2 DEF MapNext, ReadLine, EndOfFile, Cancelled, GoOn, Judge, AddFunction, Contributed,
                      Raise, AnalystNames, Idle, DebugInfoInv
<1> QED BY <1>1, <1>2, PTL DEF MapSpec, RejectedLeavesNothing
=============================================================================
