---------------------------- MODULE MapDebugInfo ---------------------------
(***************************************************************************)
(* The debug-info parser for Delphi MAP files: src/mapfile.py reads the    *)
(* file line by line, src/integration/mapfile.py contributes the publics   *)
(* it can place to a container that nothing can be removed from.  Lines    *)
(* are records whose kind says which pattern of the parser they match; a   *)
(* row matches a table's pattern whether or not it stands in that table.   *)
(***************************************************************************)
EXTENDS Integers, FiniteSets, SequencesExt

CONSTANTS Files,          \* the files the host may offer: sequences of lines
          MaxRecords,     \* MAX_RECORDS
          Sections,       \* the view's sections: name -> [start, length]
          Valid,          \* the view's valid addresses
          Executable,     \* those in executable segments
          Analyst         \* addresses the analyst may name

(* A file is a list of lines; offsets and counts are not negative, nor are *)
(* the addresses of a view.                                                *)
ASSUME FilesAssumption ==
  /\ MaxRecords \in Nat /\ Valid \subseteq Nat /\ Executable \subseteq Nat
  /\ \A s \in DOMAIN Sections : Sections[s].start \in Nat
  /\ \A f \in Files :
       /\ f \in Seq(ToSet(f))
       /\ \A l \in ToSet(f) : l.kind = "public" => l.offset \in Nat
       /\ \A l \in ToSet(f) : l.kind = "pairs" => l.count \in Nat

VARIABLES file,           \* the lines to come
          offered,        \* the file as it was offered
          mode,           \* the table the parser is in
          parsed,         \* [sections, symbols, lines]: what it has retained
          seen,           \* which of the two mandatory headers it has met
          module,         \* whether a source file is known for line numbers
          stage,          \* "parse", "ask", "contribute", "add", "true" or "false"
          pending,        \* addresses still to be judged
          turn,           \* the address judged last
          container,      \* the functions contributed: <<address, name>>
          named,          \* addresses that carry a name of the analyst's
          early,          \* those of them it was given to before they were judged
          refused         \* addresses the host would not take

reading == <<file, offered, mode, parsed, seen, module>>
mapVars == <<reading, stage, pending, turn, container, named, early, refused>>

NoAddress == -1     \* target_address: not in this view
NoMode == "none"

(* Lines that start a table, and the mode each leaves the parser in.       *)
ModeAfter(line) ==
  CASE line.kind = "sections" -> "sections"
    [] line.kind = "by value" -> "symbols"
    [] line.kind = "line numbers" -> IF line.source THEN "lines" ELSE NoMode
    [] line.kind \in {"by name", "other table", "entry point"} -> NoMode
    [] OTHER -> mode

(* What a row adds: nothing where its table is not the one it stands in.   *)
Retain(line) ==
  CASE mode = "sections" /\ line.kind = "section" ->
         [parsed EXCEPT !.sections = Append(@, line)]
    [] mode = "symbols" /\ line.kind = "public" ->
         [parsed EXCEPT !.symbols = Append(@, line)]
    [] mode = "lines" /\ module /\ line.kind = "pairs" ->
         [parsed EXCEPT !.lines = @ + line.count]
    [] OTHER -> parsed
Count(p) == Len(p.sections) + Len(p.symbols) + p.lines

(* The sections of the MAP by selector, and where a public of one lies: in *)
(* the view's section of that name, else at the link-time address.         *)
TargetAddress(sections, s) ==
  LET section == CHOOSE x \in sections : x.selector = s.selector
      target == Sections[section.name]
      address == IF s.absolute # NoAddress THEN s.absolute ELSE section.address + s.offset
  IN IF ~(\E x \in sections : x.selector = s.selector) \/ s.offset >= section.length THEN NoAddress
     ELSE IF section.name \in DOMAIN Sections /\ s.offset < target.length
          THEN target.start + s.offset
     ELSE IF address \in Valid THEN address ELSE NoAddress

(* One name for each address: the last. *)
NamesLast(p, a) ==
  LET of == {i \in DOMAIN p.symbols : TargetAddress(ToSet(p.sections), p.symbols[i]) = a}
  IN {p.symbols[i].name : i \in {j \in of : \A k \in of : k <= j}}
(* by_address: every name an address is given. *)
Names(p, a) == {s.name : s \in {t \in ToSet(p.symbols) : TargetAddress(ToSet(p.sections), t) = a}}
Addresses(p) == {TargetAddress(ToSet(p.sections), s) : s \in ToSet(p.symbols)} \ {NoAddress}

(* What a file must have to be a MAP at all. *)
WellFormed(p) ==
  /\ seen = {"sections", "by value"}
  /\ p.sections # <<>>
  /\ \A i, j \in DOMAIN p.sections : i # j => p.sections[i].selector # p.sections[j].selector

MapInit ==
  /\ offered \in Files /\ file = offered
  /\ mode = NoMode /\ parsed = [sections |-> <<>>, symbols |-> <<>>, lines |-> 0]
  /\ seen = {} /\ module = FALSE
  /\ stage = "parse" /\ pending = {} /\ turn = NoAddress
  /\ container = {} /\ refused = {}
  /\ named \in SUBSET Analyst /\ early = named

(* parse_map: one line.  A line, a name or the records beyond a limit fail *)
(* the file; of the records only once they are retained.                   *)
ReadLine ==
  LET line == Head(file)
  IN /\ stage = "parse" /\ file # <<>>
     /\ file' = Tail(file)
     /\ IF line.kind = "too long"
        THEN stage' = "false" /\ UNCHANGED <<mode, parsed, seen, module>>
        ELSE /\ mode' = ModeAfter(line)
             /\ seen' = seen \union ({line.kind} \intersect {"sections", "by value"})
             /\ module' = (module \/ (line.kind = "line numbers" /\ line.source))
             /\ parsed' = Retain(line)
             /\ stage' = IF Count(parsed') > MaxRecords THEN "false" ELSE stage
     /\ UNCHANGED <<offered, pending, turn, container, named, early, refused>>

EndOfFile ==
  /\ stage = "parse" /\ file = <<>>
  /\ stage' = IF WellFormed(parsed) THEN "ask" ELSE "false"
  /\ UNCHANGED <<reading, pending, turn, container, named, early, refused>>

(* parse_info asks once whether to go on, before it contributes anything.  *)
Cancelled ==
  /\ stage = "ask" /\ stage' = "false"
  /\ UNCHANGED <<reading, pending, turn, container, named, early, refused>>
GoOn ==
  /\ stage = "ask" /\ stage' = "contribute"
  /\ pending' = Addresses(parsed)
  /\ UNCHANGED <<reading, turn, container, named, early, refused>>

(* contribute: the addresses in order, each judged when its turn comes,    *)
(* and its function added by a call of its own.                            *)
Turn == CHOOSE a \in pending : \A b \in pending : a <= b

(* Whatever the analyst has called it. *)
SafeWhateverNamed(a) == Cardinality(Names(parsed, a)) = 1 /\ a \in Executable

Safe(a) == Cardinality(Names(parsed, a)) = 1 /\ a \in Executable /\ a \notin named

Judge ==
  /\ stage = "contribute" /\ pending # {}
  /\ pending' = pending \ {Turn} /\ turn' = Turn
  /\ stage' = IF Safe(Turn) THEN "add" ELSE stage
  /\ UNCHANGED <<reading, container, named, early, refused>>
AddFunction ==
  /\ stage = "add" /\ stage' = "contribute"
  /\ \E taken \in BOOLEAN :
       IF taken THEN /\ container' = container \union ({turn} \X Names(parsed, turn))
                     /\ UNCHANGED refused
       ELSE refused' = refused \union {turn} /\ UNCHANGED container
  /\ UNCHANGED <<reading, pending, turn, named, early>>
(* Whether to go on is asked when everything is in. *)
AskAfterwards ==
  /\ stage = "contribute" /\ pending = {} /\ stage' = "ask"
  /\ UNCHANGED <<reading, pending, turn, container, named, early, refused>>
Contributed ==
  /\ stage = "contribute" /\ pending = {} /\ stage' = "true"
  /\ UNCHANGED <<reading, pending, turn, container, named, early, refused>>

(* The host raises from one of the calls: parse_info answers False.        *)
Raise ==
  /\ stage = "add" \/ (stage = "contribute" /\ pending # {})
  /\ stage' = "false"
  /\ UNCHANGED <<reading, pending, turn, container, named, early, refused>>

(* The analyst names something while the parser is at work, between a look *)
(* at that very address and the call that adds it perhaps.                 *)
AnalystNames ==
  /\ stage \in {"parse", "ask", "contribute", "add"}
  /\ \E a \in Analyst \ named :
       /\ named' = named \union {a}
       /\ early' = IF stage \in {"parse", "ask"} \/ a \in pending
                   THEN early \union {a} ELSE early
  /\ UNCHANGED <<reading, stage, pending, turn, container, refused>>

Idle == stage \in {"true", "false"} /\ UNCHANGED mapVars

MapNext == ReadLine \/ EndOfFile \/ Cancelled \/ GoOn \/ Judge \/ AddFunction \/ Contributed
        \/ Raise \/ AnalystNames \/ Idle
MapSpec == MapInit /\ [][MapNext]_mapVars

(* ------------------------------------------------------------- properties *)
TableHeads == {"sections", "by value", "by name", "other table", "entry point", "line numbers"}
(* The rows of a kind that stand in a table of the offered file.           *)
RowsOf(kind, head) ==
  {offered[i] : i \in {j \in DOMAIN offered :
     /\ offered[j].kind = kind
     /\ \E h \in 1 .. j - 1 : /\ offered[h].kind = head
                              /\ \A m \in h + 1 .. j - 1 : offered[m].kind \notin TableHeads}}

(* What is contributed is what the file as a whole says of an address: the *)
(* one name the value-sorted publics give it, whichever sections, tables   *)
(* and repeated lines they come from, at an executable address.  A parse   *)
(* that answers True has left out nothing else than what the host refused  *)
(* or the analyst had named (parse_map, contribute).                       *)
ContributedAsMapped ==
  LET sections == RowsOf("section", "sections")
      named_at(a) == {r.name : r \in {t \in RowsOf("public", "by value") :
                                       TargetAddress(sections, t) = a}}
  IN /\ \A c \in container : c[1] \in Executable /\ named_at(c[1]) = {c[2]}
     /\ stage = "true" =>
          \A a \in Executable \ (named \union refused) :
            Cardinality(named_at(a)) = 1 => \E c \in container : c[1] = a

(* A name the analyst gave at any time before its address was judged, be   *)
(* it while the functions before it were added, is contributed over by     *)
(* none (_has_user_name): only one given between the two calls can be.     *)
AnalystNamesFirst == \A c \in container : c[1] \notin early

(* A file that turns out to be no MAP, at its last line perhaps, and a     *)
(* cancellation leave the container as it was: nothing in it can be taken  *)
(* back (parse_info).  Only an exception of the host in the middle of      *)
(* contributing ends with False and some functions contributed.            *)
RejectedLeavesNothing ==
  [][stage' = "false" /\ stage \notin {"contribute", "add"} => container' = {}]_mapVars
=============================================================================
