--------------------------- MODULE MCMapDebugInfo --------------------------
(***************************************************************************)
(* Files put together from the tables of a MAP, present, missing, repeated *)
(* or with rows that belong to another, and a view that was rebased.       *)
(***************************************************************************)
EXTENDS MapDebugInfo

Line(kind) == [kind |-> kind]
Section(sel, addr, len, name) ==
  [kind |-> "section", selector |-> sel, address |-> addr, length |-> len, name |-> name]
Public(sel, off, name, absolute) ==
  [kind |-> "public", selector |-> sel, offset |-> off, name |-> name, absolute |-> absolute]
LineNumbers(source) == [kind |-> "line numbers", source |-> source]
Pairs(n) == [kind |-> "pairs", count |-> n]

TextSection == Section(1, 10, 3, "text")
DataSection == Section(2, 20, 1, "data")
MCSections == [text |-> [start |-> 30, length |-> 2]]
Publics == {Public(1, 0, "a", NoAddress), Public(1, 0, "b", NoAddress), Public(1, 1, "a", 11),
            Public(1, 2, "c", NoAddress), Public(2, 0, "d", 30), Public(3, 0, "e", NoAddress)}

Segments ==
  {<<>>, <<TextSection>>, <<TextSection, DataSection>>, <<TextSection, Section(1, 40, 1, "more")>>,
   <<Public(1, 0, "b", NoAddress), TextSection>>, <<DataSection, Line("other table"), TextSection>>}
Values == {<<Line("by value")>>, <<Line("by name")>>, <<Line("by value"), Line("by name")>>,
           <<Line("by name"), Public(1, 0, "x", NoAddress), Line("by value")>>}
Rows == {<<>>} \union {<<p>> : p \in Publics} \union (Publics \X Publics)
Tails == {<<>>, <<LineNumbers(TRUE), Pairs(2)>>, <<LineNumbers(FALSE), Pairs(2)>>,
          <<Line("entry point"), Public(1, 0, "y", NoAddress)>>, <<Line("too long")>>,
          <<Line("sections"), DataSection>>}
MCFiles ==
  {h \o s \o v \o r \o t : h \in {<<>>, <<Line("sections")>>}, s \in Segments,
                           v \in Values, r \in Rows, t \in Tails}
=============================================================================
