---------------------------- MODULE ImageScanner ---------------------------
(***************************************************************************)
(* The scan of one code section (DelphiMetadata.scan and the scanners of   *)
(* src/rtti/parser.py).  Every pass pulls the bytes out in blocks of Chunk  *)
(* and may be cancelled between two of them; one action is one block, or    *)
(* one hundredth (here one Steps-th) of the range for the first pass.       *)
(***************************************************************************)
EXTENDS VmtTables, FormStreams

CONSTANTS Images,         \* the images a run looks at
          Chunk,          \* _CHUNK
          FormChunk,      \* _CHUNK of the form streams' scan
          Steps,          \* scan() cuts the range into this many
          MinChars,       \* MIN_HEADERLESS_CHARS
          MaxChars,       \* MAX_STRING_LENGTH
          Align,          \* constants are aligned to this
          Utf16           \* CP_UTF16

(* What a section has no bytes for is its tail.  The byte that stands for  *)
(* what cannot be read is no text.                                         *)
ASSUME ScannerAssumption ==
  /\ {Chunk, Steps, Align, MaxChars} \subseteq Nat
  /\ \A f \in Images :
       /\ DOMAIN f \subseteq Nat /\ IsFiniteSet(DOMAIN f)
       /\ f \in [DOMAIN f -> 0 .. Base - 1]
       /\ \A a \in DOMAIN f : a < CodeEnd => CodeStart .. a \subseteq DOMAIN f
       /\ \A a \in DOMAIN f : a < DataEnd => (CodeEnd .. a) \subseteq DOMAIN f
  /\ Chunk >= Width /\ Chunk % Width = 0 /\ Steps >= 1
  /\ FormChunk \in Nat \ {0}
  /\ MinChars \in 1 .. MaxChars /\ Align >= 1 /\ Align % 2 = 0
  /\ Base - 1 \notin Text

VARIABLES pass,           \* the pass under way, or "done", or "cancelled"
          at,             \* where its next block begins
          layout,         \* the dialect detect_layout settled on
          vmts,           \* class pointers
          typeinfos,      \* addresses of TTypeInfo records behind their cells
          strings,        \* constants with a header
          candidates,     \* runs shaped like a constant without one
          carry,          \* the last bytes of the previous block
          referenced,     \* candidates' addresses that some word holds
          constants,      \* the constants without a header accepted
          streams         \* form streams, in address order

vars == <<image, pass, at, layout, vmts, typeinfos, strings, candidates,
          carry, referenced, constants, streams>>

Least(a, b) == IF a < b THEN a ELSE b
Greatest(a, b) == IF a > b THEN a ELSE b
Blocks(start, end) == {b \in start .. end - 1 : (b - start) % Chunk = 0}

(* --------------------------------------------------------- self-pointers *)
Points(a, deltas) == Word(a) # None /\ Word(a) - a \in deltas

(* The words of a block, one array per byte offset. *)
InArrays(base, stop, grid) ==
  UNION {{base + o + Width * k : k \in 0 .. (stop - base - o) \div Width - 1} :
         o \in {p \in 0 .. Width - 1 : p % grid = 0}}
(* The addresses whose word runs past the block, on the caller's grid.     *)
InTail(base, stop, from, grid) ==
  LET tail == (stop - Width + 1) + ((from - (stop - Width + 1)) % grid)
  IN {a \in Greatest(base, tail) .. stop - 1 : (a - Greatest(base, tail)) % grid = 0}

(* Block by block, the words a block holds in full.                        *)
SelfPointersInBlocks(start, end, deltas, grid) ==
  UNION {{a \in InArrays(b, Least(b + Chunk, end), grid) : Points(a, deltas)} :
         b \in Blocks(start, end)}
(* Block by block, those that run into the next block too.                 *)
SelfPointers(start, end, deltas, grid) ==
  LET InBlock(base, stop) ==
        IF Readable(base, stop - base)
        THEN InArrays(base, stop, grid) \union InTail(base, stop, start, grid)
        ELSE {a \in base .. stop - 1 : (a - base) % grid = 0}
  IN UNION {{a \in InBlock(b, Least(b + Chunk, end)) : Points(a, deltas)} :
            b \in Blocks(start, end)}

(* ------------------------------------- classes with no pointer to themselves *)
(* class_anchors: the size slot picks the address, the header proves it.   *)
Anchors(l, start, end) ==
  LET off == SlotOffset(l, "vmtInstanceSize")
      InBlock(base, stop) ==
        IF Readable(base, stop - base)
        THEN {a \in {base + Width * i : i \in 0 .. (stop - base) \div Width - 1} :
                Word(a) \in Width .. MaxInstance}
        ELSE {a \in base .. stop - 1 : (a - base) % Width = 0}
  IN UNION {{a - off : a \in {x \in InBlock(b, Least(b + Chunk, end)) :
                                ClassHead(l, x - off)}} : b \in Blocks(start, end)}

(* linked_class_anchors: only those that form a hierarchy. *)
Linked(l, start, end) ==
  LET heads == Anchors(l, start, end)
      Parent(a) == Slot(l, a, "vmtParent")
  IN UNION {{a, Parent(a)} : a \in {h \in heads : Parent(h) \in heads}}

(* ------------------------------------------------------ detect_layout *)
Score(l) ==
  IF HasSelfPtr(l)
  THEN LET sizes == {HeaderSize(m) : m \in {n \in ToSet(Variants) : HasSelfPtr(n)}}
           hits == SelfPointers(CodeStart, CodeEnd, sizes, Width)
       IN Cardinality({a \in hits :
            /\ Word(a) - a = HeaderSize(l)
            /\ LET name == Slot(l, Word(a), "vmtClassName")
               IN Mapped(name) /\ IsName(name, 1)})
  ELSE Cardinality(Linked(l, CodeStart, CodeEnd))

DetectedLayout ==
  LET best == CHOOSE i \in DOMAIN Variants :
        /\ \A j \in DOMAIN Variants : Score(Variants[j]) <= Score(Variants[i])
        /\ \A j \in 1 .. i - 1 : Score(Variants[j]) < Score(Variants[i])
  IN IF Score(Variants[best]) = 0 THEN Delphi3 ELSE Variants[best]

(* ------------------------------------------------------ string constants *)
RefCount == Base * Base - 1
NoLiteral == [addr |-> None, end |-> None]

(* parse_ansistring: reference count, length, characters, a NUL.           *)
AnsiString(a, limit) ==
  LET n == Word(a + Width)
      body == a + 2 * Width
  IN IF /\ n \in 1 .. MaxChars
        /\ body + n + 1 <= limit
        /\ Readable(body, n + 1)
        /\ \A x \in body .. body + n - 1 : image[x] \in Latin
        /\ image[body + n] = 0
     THEN [addr |-> a, end |-> body + n + 1] ELSE NoLiteral

(* parse_strrec: code page and element size in front, and they agree.      *)
StrRec(a, limit) ==
  LET elem == Byte(a - 1)
      n == Word(a + Width)
      body == a + 2 * Width
      Character(i) == IF elem = 1 THEN image[body + i] \in Latin
                      ELSE image[body + 2 * i] \in Latin \/ image[body + 2 * i + 1] > 0
  IN IF /\ elem \in {1, 2} /\ Byte(a - 2) # None
        /\ (Byte(a - 2) = Utf16) <=> (elem = 2)
        /\ n \in 1 .. MaxChars
        /\ body + (n + 1) * elem <= limit
        /\ Readable(body, (n + 1) * elem)
        /\ \A i \in 0 .. n - 1 : Character(i)
        /\ \A x \in body + n * elem .. body + (n + 1) * elem - 1 : image[x] = 0
     THEN [addr |-> a - 2, end |-> body + (n + 1) * elem] ELSE NoLiteral

ParseString(a, limit) ==
  IF Word(a) # RefCount THEN NoLiteral
  ELSE IF StrRec(a, limit) # NoLiteral THEN StrRec(a, limit) ELSE AnsiString(a, limit)

(* --------------------------------------- constants with no header at all *)
(* _range_bytes: what cannot be read, and what lies behind it in the same  *)
(* piece, is filled with a byte that is no text.                           *)
Filled(window, x) ==
  LET piece == window + ((x - window) \div Chunk) * Chunk
  IN IF Readable(piece, x - piece + 1) THEN image[x] ELSE Base - 1

(* The block on its own.                                                   *)
WindowOfBlock(core, coreEnd, elem) == <<core, coreEnd>>
(* One element of look-behind, the longest constant of look-ahead.         *)
Window(core, coreEnd, elem) ==
  <<Greatest(CodeStart, core - elem), Least(CodeEnd, coreEnd + (MaxChars + 1) * elem)>>

(* headerless_candidates in one block: maximal runs of text with a NUL     *)
(* behind them that begin in the block.                                    *)
RunsInBlock(core, coreEnd, elem) ==
  LET window == Window(core, coreEnd, elem)
      first == window[1] + (window[1] % elem)
      units == (window[2] - first) \div elem
      At(i) == first + i * elem
      Unit(i, low) == /\ i \in 0 .. units - 1
                      /\ Filled(window[1], At(i)) \in low
                      /\ elem = 2 => Filled(window[1], At(i) + 1) = 0
      IsRun(i, n) == /\ \A j \in i .. i + n - 1 : Unit(j, Text)
                     /\ Unit(i + n, {0})
                     /\ ~Unit(i - 1, Text)
  IN {[addr |-> At(r[1]), end |-> At(r[1] + r[2] + 1)] :
        r \in {run \in (0 .. units - 1) \X (MinChars .. MaxChars) :
                 /\ At(run[1]) \in core .. coreEnd - 1
                 /\ At(run[1]) % Align = 0
                 /\ IsRun(run[1], run[2])}}

(* What the stronger records occupy (_spans). *)
Claimed ==
  {<<t - Width, TypeInfoEnd(t)>> : t \in typeinfos} \union
  {<<v - HeaderSize(layout), VtableEnd(layout, v)>> : v \in vmts} \union
  UNION {Regions(layout, v) : v \in vmts} \union
  {<<s.addr, s.end>> : s \in strings}
Outside(r) == \A c \in Claimed : r.end <= c[1] \/ c[2] <= r.addr

(* pointer_targets in one block: the words at every phase of what was      *)
(* carried over and the block.                                             *)
WordsOf(bytes) == {bytes[i] + Base * bytes[i + 1] : i \in 1 .. Len(bytes) - 1}

(* scan_headerless_strings: in the order of their addresses, the longer of *)
(* two at one place first, each that begins behind all accepted so far.    *)
(* reach[x] is how far those up to x go.                                   *)
Accepted(runs) ==
  LET endsAt(x) == {r.end : r \in {s \in runs : s.addr = x}}
      reach[x \in 0 .. CodeEnd] ==
        IF x = 0 THEN 0
        ELSE IF endsAt(x) # {} /\ x >= reach[x - 1] THEN Max(endsAt(x)) ELSE reach[x - 1]
  IN {r \in runs : r.addr >= reach[r.addr - 1] /\ r.end = reach[r.addr]}

(* ------------------------------------------------ signatures of streams *)
(* The block on its own.                                                   *)
SignaturesOfBlock(from, stop) == {a \in from .. stop - Len(MAGIC) : HasMagic(a)}
(* The block, and the bytes a signature that begins in it may need.        *)
Signatures(from, stop) ==
  LET seen == Least(stop + Len(MAGIC) - 1, DataEnd)
  IN {a \in from .. stop - 1 : a + Len(MAGIC) <= seen /\ HasMagic(a)}

(* --------------------------------------------------------------- the scan *)
Init ==
  /\ image \in Images
  /\ pass = "detect" /\ at = CodeStart /\ layout = Delphi3
  /\ vmts = {} /\ typeinfos = {} /\ strings = {}
  /\ candidates = {} /\ carry = <<>> /\ referenced = {} /\ constants = {}
  /\ streams = <<>>

(* The pass goes on at `next`, or the following one begins. *)
Advance(next, end, following) ==
  IF next < end THEN at' = next /\ pass' = pass ELSE at' = CodeStart /\ pass' = following

Detect ==
  /\ pass = "detect"
  /\ layout' = DetectedLayout
  /\ pass' = "records"
  /\ UNCHANGED <<image, at, vmts, typeinfos, strings, candidates, carry, referenced, constants, streams>>

(* scan(): one step of the range. *)
ScanRecords ==
  LET stop == Least(at + Greatest(1, (CodeEnd - CodeStart) \div Steps), CodeEnd)
      header == HeaderSize(layout)
      hits == SelfPointers(at, stop, IF HasSelfPtr(layout) THEN {header, Width} ELSE {Width}, 1)
      classes == {a \in hits : HasSelfPtr(layout) /\ Word(a) = a + header}
  IN /\ pass = "records"
     /\ vmts' = vmts \union {v \in {a + header : a \in classes} : IsVmt(layout, v)}
     /\ typeinfos' = typeinfos \union
          {t \in {a + Width : a \in hits \ classes} : TypeInfoEnd(t) # None}
     /\ Advance(stop, CodeEnd, IF HasSelfPtr(layout) THEN "strings" ELSE "linked")
     /\ UNCHANGED <<image, layout, strings, candidates, carry, referenced, constants, streams>>

ScanLinked ==
  /\ pass = "linked"
  /\ vmts' = {v \in Linked(layout, CodeStart, CodeEnd) : IsVmt(layout, v)}
  /\ pass' = "strings"
  /\ UNCHANGED <<image, at, layout, typeinfos, strings, candidates, carry, referenced, constants, streams>>

(* scan_strings(): one block, from the first aligned address on. *)
ScanStrings ==
  LET base == at + ((-at) % Width)
      stop == Least(base + Chunk, CodeEnd)
      anchors == {a \in base .. stop - 1 : (a - base) % Width = 0}
  IN /\ pass = "strings"
     /\ strings' = strings \union ({ParseString(a, CodeEnd) : a \in anchors} \ {NoLiteral})
     /\ Advance(stop, CodeEnd, "narrow")
     /\ UNCHANGED <<image, layout, vmts, typeinfos, candidates, carry, referenced, constants, streams>>

ScanRuns ==
  LET stop == Least(at + Chunk, CodeEnd)
      elem == IF pass = "wide" THEN 2 ELSE 1
  IN /\ pass \in {"narrow", "wide"}
     /\ candidates' = candidates \union {r \in RunsInBlock(at, stop, elem) : Outside(r)}
     /\ Advance(stop, CodeEnd, IF pass = "narrow" /\ layout.wide THEN "wide" ELSE "references")
     /\ UNCHANGED <<image, layout, vmts, typeinfos, strings, carry, referenced, constants, streams>>

(* References come from every section, each walked on its own. *)
ScanReferences ==
  LET end == IF at < CodeEnd THEN CodeEnd ELSE DataEnd
      stop == Least(at + Chunk, end)
      bytes == carry \o [i \in 1 .. stop - at |-> Filled(at, at + i - 1)]
  IN /\ pass = "references"
     /\ referenced' = referenced \union ({r.addr : r \in candidates} \intersect WordsOf(bytes))
     /\ carry' = IF stop = end THEN <<>>
                 ELSE SubSeq(bytes, Greatest(1, Len(bytes) - Width + 2), Len(bytes))
     /\ Advance(stop, DataEnd, "accept")
     /\ UNCHANGED <<image, layout, vmts, typeinfos, strings, candidates, constants, streams>>

Accept ==
  /\ pass = "accept"
  /\ constants' = Accepted({r \in candidates : r.addr \in referenced})
  /\ pass' = "streams"
  /\ UNCHANGED <<image, at, layout, vmts, typeinfos, strings, candidates, carry, referenced, streams>>

(* find_streams(): one block of the segment.                               *)
ScanStreams ==
  LET stop == Least(at + FormChunk, DataEnd)
  IN /\ pass = "streams"
     /\ streams' = FindIn(streams, Signatures(at, stop), at, stop)
     /\ Advance(stop, DataEnd, "done")
     /\ UNCHANGED <<image, layout, vmts, typeinfos, strings, candidates, carry, referenced, constants>>

(* check_progress raises ScanCancelled and everything found is dropped.    *)
Cancel ==
  /\ pass \notin {"done", "cancelled"}
  /\ pass' = "cancelled" /\ at' = CodeStart /\ layout' = Delphi3
  /\ vmts' = {} /\ typeinfos' = {} /\ strings' = {}
  /\ candidates' = {} /\ carry' = <<>> /\ referenced' = {} /\ constants' = {}
  /\ streams' = <<>>
  /\ UNCHANGED image

Ended == pass \in {"done", "cancelled"} /\ UNCHANGED vars

Next == Detect \/ ScanRecords \/ ScanLinked \/ ScanStrings \/ ScanRuns
        \/ ScanReferences \/ Accept \/ ScanStreams \/ Cancel \/ Ended
Spec == Init /\ [][Next]_vars

(* ------------------------------------------------------------- properties *)
(* A finished scan has found every class, type record and string constant  *)
(* of the section and nothing else, wherever the seams between steps and   *)
(* blocks fell, a record that begins in the last bytes of a block or of    *)
(* what can be read included; only of classes without a self-pointer must  *)
(* the size lie in the section in full (self_pointers, scan,               *)
(* linked_class_anchors, scan_strings).                                    *)
RecordsComplete ==
  LET Parent(a) == Slot(layout, a, "vmtParent")
      sizes == {x \in CodeStart .. CodeEnd - Width : (x - CodeStart) % Width = 0}
      heads == {a \in {x - SlotOffset(layout, "vmtInstanceSize") : x \in sizes} :
                  ClassHead(layout, a)}
      linked == {a \in heads : Parent(a) \in heads \/ \E b \in heads : Parent(b) = a}
      own == {v \in {a + HeaderSize(layout) : a \in CodeStart .. CodeEnd - 1} :
                IsVmt(layout, v)}
  IN pass = "done" =>
       /\ typeinfos = {t \in CodeStart + Width .. CodeEnd + Width - 1 :
                         Word(t - Width) = t /\ TypeInfoEnd(t) # None}
       /\ vmts = IF HasSelfPtr(layout) THEN own ELSE linked
       /\ strings = {ParseString(a, CodeEnd) : a \in {x \in CodeStart .. CodeEnd - 1 : x % Width = 0}}
                    \ {NoLiteral}

(* A finished scan has accepted exactly the runs that stand for a constant *)
(* in the section as a whole: aligned, no longer and no shorter than       *)
(* allowed, nothing textual in front, a NUL behind, clear of every         *)
(* stronger record, pointed at from somewhere in one section, and outside  *)
(* every other that was accepted (headerless_candidates, pointer_targets,  *)
(* scan_headerless_strings).                                               *)
ConstantsComplete ==
  LET Unit(x, elem, low) == /\ x \in CodeStart .. CodeEnd - elem
                            /\ Readable(x, elem) /\ image[x] \in low
                            /\ elem = 2 => image[x + 1] = 0
      Stands(x, n, elem) ==
        /\ \A i \in 0 .. n - 1 : Unit(x + i * elem, elem, Text)
        /\ Unit(x + n * elem, elem, {0})
        /\ ~Unit(x - elem, elem, Text)
        /\ Outside([addr |-> x, end |-> x + (n + 1) * elem])
      PointedAt(x) == \E y \in CodeStart .. DataEnd - Width : Word(y) = x /\ y # CodeEnd - 1
      standing ==
        {[addr |-> c[1], end |-> c[1] + (c[2] + 1) * c[3]] :
           c \in {d \in {x \in CodeStart .. CodeEnd - 1 : x % Align = 0 /\ PointedAt(x)}
                       \X (MinChars .. MaxChars) \X (IF layout.wide THEN {1, 2} ELSE {1}) :
                    Stands(d[1], d[2], d[3])}}
  IN pass = "done" =>
       constants = {r \in standing : \A c \in constants \ {r} : r.addr \notin c.addr .. c.end - 1}

(* Whatever a class header and its tables have been overwritten with, what *)
(* is taken from them is bytes that can be read but for what the second    *)
(* shape of an InitTable steps over, two interface vtables of one class do *)
(* not run into one another, and the virtual table reaches into no table   *)
(* that lies a whole number of words behind it                             *)
(* (_attrdata_end, parse_method_entry, _parse_intf_table, _parse_vtable).  *)
RegionsSound ==
  pass = "done" => \A v \in vmts :
    LET intf == IntfTable(layout, v).vtables
        init == Slot(layout, v, "vmtInitTable")
    IN /\ \A r \in Regions(layout, v) : \A x \in r[1] .. r[2] - 1 :
            x \in DOMAIN image \/ (r[1] = init /\ x = StrEnd(init + 1))
       /\ \A r, s \in intf : r # s => r[2] <= s[1] \/ s[2] <= r[1]
       /\ \A t \in TableSlots :
            LET p == Slot(layout, v, t)
            IN p >= v /\ (p - v) % Width = 0 => VtableEnd(layout, v) <= p

(* A finished scan has found exactly the streams that begin at a signature *)
(* of the segment, can be parsed, and do not begin inside another that was *)
(* found, wherever the seams between blocks fell; they are listed in order,*)
(* share no byte, and each can be read up to its end (find_streams).       *)
StreamsSettled ==
  LET kept == ToSet(streams)
      Inside(a) == \E s \in kept : s.addr <= a /\ a < s.end
      signatures == {a \in CodeStart .. DataEnd - Len(MAGIC) : HasMagic(a)}
  IN pass = "done" =>
       /\ kept = {ParseStream(a) : a \in {x \in signatures : ~Inside(x)}} \ {NoStream}
       /\ \A i, j \in DOMAIN streams :
            i < j => streams[i].end + Len(MAGIC) <= streams[j].addr
       /\ \A s \in kept : s.addr < s.end /\ Readable(s.addr, s.end - s.addr)
=============================================================================
