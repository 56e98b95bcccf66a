----------------------- MODULE MCSignatureLibraries -----------------------
(***************************************************************************)
(* Two eras of three releases.  One routine has two spellings, one a       *)
(* placeholder name; era 8 keeps folds and varies in every way at one      *)
(* GUID, era 11 drops them and has the two contributed libraries.          *)
(***************************************************************************)
EXTENDS SignatureLibraries, TLC

MCLibs == {"5", "7", "2007", "2014", "xe2plus", "10.4"}
MCEraOf == [t \in MCLibs |-> IF t \in {"5", "7", "2007"} THEN "8" ELSE "11"]
MCAge == ("5" :> 1) @@ ("7" :> 2) @@ ("2007" :> 3) @@ ("2014" :> 4)
            @@ ("xe2plus" :> 5) @@ ("10.4" :> 6)
MCDestRank ==
    [d \in ({"core"} \X {"8", "11"}) \cup ({"only"} \X MCLibs) |->
        IF d[1] = "core" THEN IF d[2] = "8" THEN 2 ELSE 1 ELSE 2 + MCAge[d[2]]]

MCNames == {"SYSTEM::Copy", "System::Copy", "System::Move", "System::_NF__1"}
MCNormalise == [n \in MCNames |-> IF n = "SYSTEM::Copy" THEN "System::Copy" ELSE n]

At(guid, names, typed) == {[guid |-> guid, name |-> n, typed |-> typed] : n \in names}
Dir(five, seven, last, unicode) ==
    [t \in MCLibs |-> CASE t = "5" -> five [] t = "7" -> seven [] t = "2007" -> last
                        [] t = "2014" -> unicode [] OTHER -> {}]

\* One claimant; a tie; a placeholder beside two names; one library with two
\* spellings, alone and with another; a fold, alone and shared.
OldDirs ==
    {Dir(At("g1", c[1], FALSE), At("g1", c[2], TRUE), At("g1", c[3], FALSE), {}) :
        c \in {<<{"System::Copy"}, {}, {}>>,
               <<{"System::Copy"}, {"SYSTEM::Copy"}, {}>>,
               <<{"System::Copy"}, {"SYSTEM::Copy"}, {"System::_NF__1"}>>,
               <<{"System::Copy", "SYSTEM::Copy"}, {}, {}>>,
               <<{"System::Copy", "SYSTEM::Copy"}, {"SYSTEM::Copy"}, {"System::_NF__1"}>>,
               <<{"System::Copy", "System::Move"}, {}, {}>>,
               <<{"System::Copy", "System::Move"}, {"SYSTEM::Copy"}, {}>>}}
NewDirs ==
    {Dir({}, {}, {}, u) :
        u \in {At("g1", {"System::Copy"}, TRUE), At("g2", {"System::Move"}, TRUE)}}
MCStartingDirs == OldDirs \cup NewDirs

MCReleaseVersions ==
    [t \in MCLibs |-> CASE t = "5"    -> {At("g1", {"System::Move"}, FALSE)}
                        [] t = "7"    -> {At("g1", {"SYSTEM::Copy"}, TRUE)}
                        [] t = "2014" -> {At("g2", {"System::Copy"}, FALSE)}
                        [] OTHER      -> {}]

\* Three binaries of two projects agree on g1; one reads g2 otherwise than
\* another, and a neighbour's unit and a one-block body are no evidence.
Entry(addr, guid, blocks, names, source) ==
    [addr |-> addr, guid |-> guid, blocks |-> blocks,
     claims |-> {[name |-> n, source |-> source] : n \in names}]
MCRecords ==
    {[file |-> "f1", entries |-> {Entry(1, "g1", 2, {"System::Copy"}, "rtti"),
                                  Entry(2, "g2", 2, {"System::Move"}, "rtti")}],
     [file |-> "f2", entries |-> {Entry(1, "g1", 2, {"System::Copy"}, "rtti"),
                                  Entry(3, "g1", 1, {"System::Move"}, "rtti")}],
     [file |-> "f3", entries |-> {Entry(2, "g2", 2, {"System::Move"}, "rtti"),
                                  Entry(3, "g1", 2, {"System::Move"}, "nearby"),
                                  Entry(4, "g1", 2, {"System::Move", "System::Copy"}, "rtti")}]}
MCProject == [f \in {"f1", "f2", "f3"} |-> f]
MCPathOrder == ("f1" :> 1) @@ ("f2" :> 2) @@ ("f3" :> 3)

Row(guid, name, thunk) ==
    [guid |-> guid, name |-> name, thunk |-> thunk, oversize |-> FALSE, typed |-> TRUE]
MCPackages ==
    {Row("g1", "System::Copy", FALSE), Row("g1", "System::Move", TRUE),
     Row("g2", "System::Move", FALSE)}

MCHashOrders ==
    {[n \in MCNames |-> IF n = last THEN 1 ELSE 0] : last \in {"SYSTEM::Copy", "System::Copy"}}
=============================================================================
