------------------------ MODULE SignatureRegistryProofs ------------------------
(***************************************************************************)
(* Proofs about SignatureRegistry, for any number of binaries analysed at  *)
(* once and any libraries.  A container without its source is owed one by  *)
(* the thread that added it, or that thread failed (Owed); a thread works  *)
(* only on what its binary calls for (Called), and until it is done, what  *)
(* is not yet dealt with is in its list (Remembered).                      *)
(***************************************************************************)
EXTENDS SignatureRegistry, ListsProofs

TypeOK ==
    /\ setting \in BOOLEAN
    /\ importable \in BOOLEAN
    /\ registered \subseteq Tags
    /\ containers \in [Tags -> {None} \cup [by : Binaries, loaded : BOOLEAN]]
    /\ pc \in [Binaries -> {"unopened", "adding", "sourcing", "done"}]
    /\ wanted \in [Binaries -> Seq(Tags)]
    /\ failures \subseteq Binaries \X Tags

(* Where a thread is, in terms of its list.                                *)
Position ==
    \A b \in Binaries :
        /\ pc[b] \in {"unopened", "done"} => wanted[b] = <<>>
        /\ pc[b] = "sourcing" => wanted[b] # <<>> /\ containers[Head(wanted[b])] # None

Owed ==
    \A t \in Tags :
        containers[t] # None /\ ~containers[t].loaded =>
            LET b == containers[t].by
            IN \/ pc[b] = "sourcing" /\ wanted[b] # <<>> /\ Head(wanted[b]) = t
               \/ <<b, t>> \in failures

MarkedHasContainer == importable => \A t \in registered : containers[t] # None

Called ==
    /\ \A b \in Binaries : ToSet(wanted[b]) \subseteq ToSet(TagsFor(b))
    /\ \A t \in Tags :
          containers[t] # None =>
              \E b \in Binaries : pc[b] # "unopened" /\ t \in ToSet(TagsFor(b))

Remembered ==
    \A b \in Binaries :
        (pc[b] # "unopened" /\ setting) =>
            \A t \in ToSet(TagsFor(b)) :
                t \in registered \/ <<b, t>> \in failures \/ t \in ToSet(wanted[b])

IInv == TypeOK /\ Position /\ Owed /\ MarkedHasContainer /\ Called /\ Remembered
-----------------------------------------------------------------------------
(* The libraries there are for Delphi, as a list of tags.                  *)
LEMMA LibrariesAreTags ==
    /\ DelphiLibraries \in Seq(Tags)
    /\ \A e \in Eras : DelphiEras[e] \in Seq(Tags)
<1> DEFINE lists == [i \in 1 .. Len(LibraryEras) |-> DelphiEras[LibraryEras[i]]]
<1>1. \A e \in Eras : DelphiEras[e] \in Seq(Tags)
  <2> TAKE e \in Eras
  <2>1. DelphiEras[e] \in Seq(ToSet(DelphiEras[e])) /\ ToSet(DelphiEras[e]) \subseteq Tags
    BY SignatureAssumption DEF Tags
  <2> QED BY <2>1
<1>2. /\ LibraryEras \in Seq(Eras) /\ Len(LibraryEras) \in Nat
      /\ \A i \in 1 .. Len(LibraryEras) : LibraryEras[i] \in Eras
  BY SignatureAssumption
<1>3. Len(lists) = Len(LibraryEras) /\ \A i \in 1 .. Len(lists) : lists[i] \in Seq(Tags)
  BY <1>1, <1>2
<1>4. DelphiLibraries = Joined(lists)
  BY DEF DelphiLibraries
<1> HIDE DEF lists
<1> QED BY <1>1, <1>2, <1>3, <1>4, JoinedMembers

(* What a binary asks for: libraries there are, and of its own kind and    *)
(* era.                                                                    *)
LEMMA TagsForCalled ==
    ASSUME NEW b \in Binaries
    PROVE  /\ TagsFor(b) \in Seq(Tags)
           /\ \A t \in ToSet(TagsFor(b)) :
                 /\ Evidence[b].fpc = None \/ t = Evidence[b].fpc
                 /\ (Evidence[b].fpc = None /\ Evidence[b].layout \in Eras)
                    => t \in ToSet(DelphiEras[Evidence[b].layout])
<1>1. CASE Evidence[b].fpc # None
  <2>1. Evidence[b].fpc \in FpcTags /\ FpcTags \subseteq Tags
    BY <1>1, SignatureAssumption DEF Tags
  <2>2. TagsFor(b) = <<>> \/ TagsFor(b) = <<Evidence[b].fpc>>
    BY <1>1 DEF TagsFor, FpcLibraryTags
  <2>3. <<>> \in Seq(Tags) /\ ToSet(<<>>) = {}
    BY DEF ToSet
  <2>4. <<Evidence[b].fpc>> \in Seq(Tags) /\ ToSet(<<Evidence[b].fpc>>) = {Evidence[b].fpc}
    BY <2>1 DEF ToSet
  <2> QED BY <1>1, <2>2, <2>3, <2>4
<1>2. CASE Evidence[b].fpc = None
  <2> DEFINE layout == Evidence[b].layout
             all == IF layout \in Eras THEN DelphiEras[layout] ELSE DelphiLibraries
  <2>1. all \in Seq(Tags)
    BY LibrariesAreTags
  <2>2. TagsFor(b) = Kept(all, Shipped)
    BY <1>2 DEF TagsFor, DelphiTags
  <2> HIDE DEF all
  <2>3. TagsFor(b) \in Seq(Tags) /\ ToSet(TagsFor(b)) = ToSet(all) \cap Shipped
    BY <2>1, <2>2, KeptMembers
  <2> QED BY <1>2, <2>3 DEF all
<1> QED BY <1>1, <1>2

(* register()'s `wanted` holds exactly what is not marked.                 *)
LEMMA WantedMembers ==
    ASSUME TypeOK, NEW b \in Binaries
    PROVE  /\ Unregistered(TagsFor(b)) \in Seq(Tags)
           /\ ToSet(Unregistered(TagsFor(b))) = ToSet(TagsFor(b)) \ registered
           /\ ToSet(TagsFor(b)) \subseteq Tags
<1>1. TagsFor(b) \in Seq(Tags)
  BY TagsForCalled
<1>2. ToSet(TagsFor(b)) \subseteq Tags
  BY <1>1 DEF ToSet
<1>3. /\ Unregistered(TagsFor(b)) \in Seq(Tags)
      /\ ToSet(Unregistered(TagsFor(b))) = ToSet(TagsFor(b)) \cap (Tags \ registered)
  BY <1>1, KeptMembers DEF Unregistered
<1> QED BY <1>2, <1>3

(* The head of a thread's list is a tag.                                   *)
LEMMA HeadWanted ==
    ASSUME TypeOK, NEW b \in Binaries, wanted[b] # <<>>
    PROVE  /\ Head(wanted[b]) \in Tags /\ Head(wanted[b]) \in ToSet(wanted[b])
           /\ Tail(wanted[b]) \in Seq(Tags)
           /\ ToSet(wanted[b]) = {Head(wanted[b])} \cup ToSet(Tail(wanted[b]))
<1>1. wanted[b] \in Seq(Tags)
  BY DEF TypeOK
<1> QED BY <1>1, MembersHeadTail

LEMMA EmptyList == ToSet(<<>>) = {}
  BY DEF ToSet
-----------------------------------------------------------------------------
LEMMA InitIInv == Init => IInv
<1> SUFFICES ASSUME Init PROVE IInv
  OBVIOUS
<1>1. TypeOK
  BY DEF Init, TypeOK
<1> QED BY <1>1, EmptyList
        DEF Init, IInv, Position, Owed, MarkedHasContainer, Called, Remembered

LEMMA RegisterIInv ==
    ASSUME IInv, NEW b \in Binaries, Register(b)
    PROVE  IInv'
<1> DEFINE missing == Unregistered(TagsFor(b))
<1>1. /\ missing \in Seq(Tags)
      /\ ToSet(missing) = ToSet(TagsFor(b)) \ registered
      /\ ToSet(TagsFor(b)) \subseteq Tags
  BY WantedMembers DEF IInv
<1>2. /\ pc[b] = "unopened" /\ wanted[b] = <<>>
      /\ UNCHANGED <<setting, importable, containers, failures>>
  BY DEF Register, IInv, Position
<1>3. \/ /\ missing = <<>> \/ ~setting
         /\ pc' = [pc EXCEPT ![b] = "done"]
         /\ UNCHANGED <<registered, wanted>>
      \/ /\ ~importable
         /\ pc' = [pc EXCEPT ![b] = "done"]
         /\ registered' = registered \cup ToSet(TagsFor(b))
         /\ UNCHANGED wanted
      \/ /\ pc' = [pc EXCEPT ![b] = "adding"]
         /\ wanted' = [wanted EXCEPT ![b] = missing]
         /\ UNCHANGED registered
  BY DEF Register
<1> HIDE DEF missing
<1>4. /\ pc' \in [Binaries -> {"unopened", "adding", "sourcing", "done"}]
      /\ pc'[b] \in {"done", "adding"}
      /\ \A c \in Binaries : c # b => pc'[c] = pc[c] /\ wanted'[c] = wanted[c]
      /\ wanted'[b] = <<>> \/ (wanted'[b] = missing /\ pc'[b] = "adding")
      /\ registered \subseteq registered'
  BY <1>2, <1>3 DEF IInv, TypeOK
<1>5. TypeOK'
  BY <1>1, <1>2, <1>3, <1>4 DEF IInv, TypeOK
<1>6. Position'
  BY <1>2, <1>4 DEF IInv, TypeOK, Position
<1>7. Owed'
  <2> SUFFICES ASSUME NEW t \in Tags, containers[t] # None, ~containers[t].loaded
               PROVE  LET c == containers[t].by
                      IN \/ pc'[c] = "sourcing" /\ wanted'[c] # <<>> /\ Head(wanted'[c]) = t
                         \/ <<c, t>> \in failures
    BY <1>2 DEF Owed
  <2> DEFINE c == containers[t].by
  <2>1. c \in Binaries
    BY DEF IInv, TypeOK
  <2>2. \/ pc[c] = "sourcing" /\ wanted[c] # <<>> /\ Head(wanted[c]) = t
        \/ <<c, t>> \in failures
    BY DEF IInv, Owed
  <2> QED BY <1>2, <1>4, <2>1, <2>2
<1>8. MarkedHasContainer'
  BY <1>2, <1>3 DEF IInv, MarkedHasContainer
<1>9. Called'
  BY <1>1, <1>2, <1>4, EmptyList DEF IInv, Called, TypeOK
<1>10. Remembered'
  <2> SUFFICES ASSUME NEW c \in Binaries, pc'[c] # "unopened", setting,
                      NEW t \in ToSet(TagsFor(c))
               PROVE  \/ t \in registered' \/ <<c, t>> \in failures
                      \/ t \in ToSet(wanted'[c])
    BY <1>2 DEF Remembered
  <2>1. CASE c # b
    BY <1>4, <2>1 DEF IInv, Remembered
  <2>2. CASE c = b
    BY <1>1, <1>3, <2>2, EmptyList DEF IInv, TypeOK
  <2> QED BY <2>1, <2>2
<1> QED BY <1>5, <1>6, <1>7, <1>8, <1>9, <1>10 DEF IInv

LEMMA AddContainerIInv ==
    ASSUME IInv, NEW b \in Binaries, AddContainer(b)
    PROVE  IInv'
<1> DEFINE h == Head(wanted[b])
<1>1. h \in Tags /\ h \in ToSet(TagsFor(b)) /\ wanted[b] # <<>>
  BY HeadWanted DEF AddContainer, IInv, Called
<1>2. /\ pc[b] = "adding" /\ pc' = [pc EXCEPT ![b] = "sourcing"]
      /\ containers' = [containers EXCEPT ![h] = [by |-> b, loaded |-> FALSE]]
      /\ UNCHANGED <<setting, importable, registered, wanted, failures>>
  BY DEF AddContainer
<1>3. None # [by |-> b, loaded |-> FALSE]
  <2>1. [by |-> b, loaded |-> FALSE] \in [by : Binaries, loaded : BOOLEAN]
    OBVIOUS
  <2>2. None \notin [by : Binaries, loaded : BOOLEAN]
    BY SignatureAssumption
  <2> QED BY <2>1, <2>2, Zenon
<1>4. TypeOK'
  BY <1>1, <1>2 DEF IInv, TypeOK
<1>5. \A t \in Tags : /\ t # h => containers'[t] = containers[t]
                      /\ containers[t] # None => containers'[t] # None
  BY <1>1, <1>2, <1>3 DEF IInv, TypeOK
<1>6. containers'[h] = [by |-> b, loaded |-> FALSE] /\ containers'[h] # None
  BY <1>1, <1>2, <1>3 DEF IInv, TypeOK
<1>7. pc'[b] = "sourcing" /\ \A c \in Binaries : c # b => pc'[c] = pc[c]
  BY <1>2 DEF IInv, TypeOK
<1> HIDE DEF h
<1>8. Position'
  <2> SUFFICES ASSUME NEW c \in Binaries
               PROVE  /\ pc'[c] \in {"unopened", "done"} => wanted[c] = <<>>
                      /\ pc'[c] = "sourcing" =>
                            wanted[c] # <<>> /\ containers'[Head(wanted[c])] # None
    BY <1>2 DEF Position
  <2>1. CASE c = b
    BY <1>1, <1>6, <1>7, <2>1 DEF h
  <2>2. CASE c # b
    <3>1. wanted[c] # <<>> => Head(wanted[c]) \in Tags
      BY HeadWanted DEF IInv
    <3> QED BY <1>5, <1>7, <2>2, <3>1 DEF IInv, Position
  <2> QED BY <2>1, <2>2
<1>9. Owed'
  <2> SUFFICES ASSUME NEW t \in Tags, containers'[t] # None, ~containers'[t].loaded
               PROVE  LET c == containers'[t].by
                      IN \/ pc'[c] = "sourcing" /\ wanted[c] # <<>> /\ Head(wanted[c]) = t
                         \/ <<c, t>> \in failures
    BY <1>2 DEF Owed
  <2>1. CASE t = h
    BY <1>1, <1>6, <1>7, <2>1 DEF h
  <2>2. CASE t # h
    <3> DEFINE c == containers[t].by
    <3>1. containers'[t] = containers[t] /\ c \in Binaries
      BY <1>5, <2>2 DEF IInv, TypeOK
    <3>2. \/ pc[c] = "sourcing" /\ wanted[c] # <<>> /\ Head(wanted[c]) = t
          \/ <<c, t>> \in failures
      BY <3>1 DEF IInv, Owed
    <3> QED BY <1>2, <1>7, <3>1, <3>2
  <2> QED BY <2>1, <2>2
<1>10. MarkedHasContainer'
  BY <1>2, <1>5 DEF IInv, MarkedHasContainer, TypeOK
<1>11. Called'
  BY <1>1, <1>2, <1>5, <1>7 DEF IInv, Called
<1>12. Remembered'
  BY <1>2, <1>7 DEF IInv, Remembered
<1> QED BY <1>4, <1>8, <1>9, <1>10, <1>11, <1>12 DEF IInv

LEMMA AddSourceIInv ==
    ASSUME IInv, NEW b \in Binaries, AddSource(b)
    PROVE  IInv'
<1> DEFINE h == Head(wanted[b])
<1>1. wanted[b] # <<>> /\ containers[h] # None
  BY DEF AddSource, IInv, Position
<1>2. /\ h \in Tags /\ h \in ToSet(TagsFor(b))
      /\ Tail(wanted[b]) \in Seq(Tags)
      /\ ToSet(wanted[b]) = {h} \cup ToSet(Tail(wanted[b]))
  BY <1>1, HeadWanted DEF IInv, Called
<1>3. /\ pc[b] = "sourcing" /\ pc' = [pc EXCEPT ![b] = "adding"]
      /\ wanted' = [wanted EXCEPT ![b] = Tail(wanted[b])]
      /\ containers' = [containers EXCEPT ![h].loaded =
                            containers[h].loaded \/ containers[h].by = b]
      /\ registered' = registered \cup {h}
      /\ UNCHANGED <<setting, importable, failures>>
  BY DEF AddSource
<1> HIDE DEF h
<1>4. containers[h] \in [by : Binaries, loaded : BOOLEAN]
  BY <1>1, <1>2 DEF IInv, TypeOK
<1>5. /\ containers'[h] \in [by : Binaries, loaded : BOOLEAN]
      /\ containers'[h].by = containers[h].by
      /\ containers'[h].loaded = (containers[h].loaded \/ containers[h].by = b)
      /\ \A t \in Tags : t # h => containers'[t] = containers[t]
  BY <1>2, <1>3, <1>4 DEF IInv, TypeOK
<1>6. containers' \in [Tags -> {None} \cup [by : Binaries, loaded : BOOLEAN]]
  BY <1>2, <1>3, <1>5 DEF IInv, TypeOK
<1>7. TypeOK'
  BY <1>2, <1>3, <1>6 DEF IInv, TypeOK
<1>8. containers'[h] # None /\ \A t \in Tags : containers[t] # None => containers'[t] # None
  BY <1>5, SignatureAssumption
<1>9. /\ pc'[b] = "adding" /\ wanted'[b] = Tail(wanted[b])
      /\ \A c \in Binaries : c # b => pc'[c] = pc[c] /\ wanted'[c] = wanted[c]
  BY <1>3 DEF IInv, TypeOK
<1>10. Position'
  <2> SUFFICES ASSUME NEW c \in Binaries, c # b
               PROVE  /\ pc[c] \in {"unopened", "done"} => wanted[c] = <<>>
                      /\ pc[c] = "sourcing" =>
                            wanted[c] # <<>> /\ containers'[Head(wanted[c])] # None
    BY <1>9 DEF Position
  <2>1. wanted[c] # <<>> => Head(wanted[c]) \in Tags
    BY HeadWanted DEF IInv
  <2> QED BY <1>8, <2>1 DEF IInv, Position
<1>11. Owed'
  <2> SUFFICES ASSUME NEW t \in Tags, containers'[t] # None, ~containers'[t].loaded
               PROVE  LET c == containers'[t].by
                      IN \/ /\ pc'[c] = "sourcing" /\ wanted'[c] # <<>>
                            /\ Head(wanted'[c]) = t
                         \/ <<c, t>> \in failures
    BY <1>3 DEF Owed
  <2> DEFINE c == containers[t].by
  <2>1. containers[t] # None /\ ~containers[t].loaded /\ containers'[t].by = c
    BY <1>1, <1>5
  <2>2. c \in Binaries
    BY <2>1 DEF IInv, TypeOK
  <2>3. \/ pc[c] = "sourcing" /\ wanted[c] # <<>> /\ Head(wanted[c]) = t
        \/ <<c, t>> \in failures
    BY <2>1 DEF IInv, Owed
  <2>4. c = b => t # h
    BY <1>5
  <2> QED BY <1>9, <2>1, <2>2, <2>3, <2>4 DEF h
<1>12. MarkedHasContainer'
  BY <1>3, <1>8 DEF IInv, MarkedHasContainer, TypeOK
<1>13. Called'
  <2>1. \A c \in Binaries : ToSet(wanted'[c]) \subseteq ToSet(TagsFor(c))
    BY <1>2, <1>9 DEF IInv, Called
  <2>2. \A c \in Binaries : pc[c] # "unopened" => pc'[c] # "unopened"
    BY <1>9
  <2>3. \A t \in Tags : containers'[t] # None => containers[t] # None
    BY <1>1, <1>5
  <2> QED BY <2>1, <2>2, <2>3 DEF IInv, Called
<1>14. Remembered'
  <2> SUFFICES ASSUME NEW c \in Binaries, pc'[c] # "unopened", setting,
                      NEW t \in ToSet(TagsFor(c))
               PROVE  \/ t \in registered' \/ <<c, t>> \in failures
                      \/ t \in ToSet(wanted'[c])
    BY <1>3 DEF Remembered
  <2>1. pc[c] # "unopened"
    BY <1>3, <1>9
  <2>2. t \in registered \/ <<c, t>> \in failures \/ t \in ToSet(wanted[c])
    BY <2>1 DEF IInv, Remembered
  <2> QED BY <1>2, <1>3, <1>9, <2>2
<1> QED BY <1>7, <1>10, <1>11, <1>12, <1>13, <1>14 DEF IInv

LEMMA RaiseIInv ==
    ASSUME IInv, NEW b \in Binaries, Raise(b)
    PROVE  IInv'
<1> DEFINE h == Head(wanted[b])
<1>1. /\ wanted[b] # <<>> /\ pc[b] \in {"adding", "sourcing"}
      /\ pc' = [pc EXCEPT ![b] = "adding"]
      /\ wanted' = [wanted EXCEPT ![b] = Tail(wanted[b])]
      /\ failures' = failures \cup {<<b, h>>}
      /\ UNCHANGED <<setting, importable, registered, containers>>
  BY DEF Raise
<1>2. /\ h \in Tags /\ h \in ToSet(TagsFor(b))
      /\ Tail(wanted[b]) \in Seq(Tags)
      /\ ToSet(wanted[b]) = {h} \cup ToSet(Tail(wanted[b]))
  BY <1>1, HeadWanted DEF IInv, Called
<1>3. TypeOK'
  BY <1>1, <1>2 DEF IInv, TypeOK
<1>4. /\ pc'[b] = "adding" /\ wanted'[b] = Tail(wanted[b])
      /\ \A c \in Binaries : c # b => pc'[c] = pc[c] /\ wanted'[c] = wanted[c]
  BY <1>1 DEF IInv, TypeOK
<1>5. Position'
  BY <1>1, <1>4 DEF IInv, Position
<1>6. Owed'
  <2> SUFFICES ASSUME NEW t \in Tags, containers[t] # None, ~containers[t].loaded
               PROVE  LET c == containers[t].by
                      IN \/ /\ pc'[c] = "sourcing" /\ wanted'[c] # <<>>
                            /\ Head(wanted'[c]) = t
                         \/ <<c, t>> \in failures'
    BY <1>1 DEF Owed
  <2> DEFINE c == containers[t].by
  <2>1. c \in Binaries
    BY DEF IInv, TypeOK
  <2>2. \/ pc[c] = "sourcing" /\ wanted[c] # <<>> /\ Head(wanted[c]) = t
        \/ <<c, t>> \in failures
    BY DEF IInv, Owed
  <2> QED BY <1>1, <1>4, <2>1, <2>2
<1>7. MarkedHasContainer'
  BY <1>1 DEF IInv, MarkedHasContainer
<1> HIDE DEF h
<1>8. Called'
  <2>1. \A c \in Binaries : ToSet(wanted'[c]) \subseteq ToSet(TagsFor(c))
    BY <1>2, <1>4 DEF IInv, Called
  <2> QED BY <1>1, <1>4, <2>1 DEF IInv, Called
<1>9. Remembered'
  <2> SUFFICES ASSUME NEW c \in Binaries, pc'[c] # "unopened", setting,
                      NEW t \in ToSet(TagsFor(c))
               PROVE  \/ t \in registered \/ <<c, t>> \in failures'
                      \/ t \in ToSet(wanted'[c])
    BY <1>1 DEF Remembered
  <2>1. pc[c] # "unopened"
    BY <1>1, <1>4
  <2>2. t \in registered \/ <<c, t>> \in failures \/ t \in ToSet(wanted[c])
    BY <2>1 DEF IInv, Remembered
  <2> QED BY <1>1, <1>2, <1>4, <2>2
<1> QED BY <1>3, <1>5, <1>6, <1>7, <1>8, <1>9 DEF IInv

LEMMA FinishIInv ==
    ASSUME IInv, NEW b \in Binaries, Finish(b)
    PROVE  IInv'
<1>1. /\ pc[b] = "adding" /\ wanted[b] = <<>> /\ pc' = [pc EXCEPT ![b] = "done"]
      /\ UNCHANGED <<setting, importable, registered, containers, wanted, failures>>
  BY DEF Finish
<1>2. pc'[b] = "done" /\ \A c \in Binaries : c # b => pc'[c] = pc[c]
  BY <1>1 DEF IInv, TypeOK
<1>3. TypeOK' /\ Position' /\ MarkedHasContainer'
  BY <1>1, <1>2 DEF IInv, TypeOK, Position, MarkedHasContainer
<1>4. Owed'
  <2> SUFFICES ASSUME NEW t \in Tags, containers[t] # None, ~containers[t].loaded
               PROVE  LET c == containers[t].by
                      IN \/ pc'[c] = "sourcing" /\ wanted[c] # <<>> /\ Head(wanted[c]) = t
                         \/ <<c, t>> \in failures
    BY <1>1 DEF Owed
  <2>1. containers[t].by \in Binaries
    BY DEF IInv, TypeOK
  <2> QED BY <1>1, <1>2, <2>1 DEF IInv, Owed
<1>5. Called' /\ Remembered'
  BY <1>1, <1>2 DEF IInv, Called, Remembered
<1> QED BY <1>3, <1>4, <1>5 DEF IInv

LEMMA StutterIInv ==
    ASSUME IInv, UNCHANGED vars
    PROVE  IInv'
<1>1. TypeOK' /\ Position' /\ Owed'
  BY DEF vars, IInv, TypeOK, Position, Owed
<1>2. MarkedHasContainer' /\ Called' /\ Remembered'
  BY DEF vars, IInv, MarkedHasContainer, Called, Remembered
<1> QED BY <1>1, <1>2 DEF IInv

LEMMA SpecIInv == Spec => []IInv
<1>1. IInv /\ [Next]_vars => IInv'
  BY RegisterIInv, AddContainerIInv, AddSourceIInv, RaiseIInv, FinishIInv, StutterIInv
     DEF Next, Step
<1> QED BY InitIInv, <1>1, PTL DEF Spec
-----------------------------------------------------------------------------
(* However the analysis threads interleave in register(), a library marked *)
(* as registered has its source in the container the core ends up with,    *)
(* unless adding it raised.                                                *)
THEOREM RegisteredHolds == Spec => []RegisteredIsLoaded
<1>1. IInv => RegisteredIsLoaded
  <2> SUFFICES ASSUME IInv, importable, NEW t \in registered, WorkingOn(t) = {},
                      ~\E b \in Binaries : <<b, t>> \in failures
               PROVE  containers[t] # None /\ containers[t].loaded
    BY DEF RegisteredIsLoaded
  <2> DEFINE b == containers[t].by
  <2>1. t \in Tags /\ containers[t] # None /\ b \in Binaries
    BY DEF IInv, TypeOK, MarkedHasContainer
  <2>2. ~(wanted[b] # <<>> /\ Head(wanted[b]) = t)
    BY <2>1, HeadWanted DEF WorkingOn, IInv
  <2> QED BY <2>1, <2>2 DEF IInv, Owed
<1> QED BY SpecIInv, <1>1, PTL

(* No library is loaded that no opened binary's kind and era calls for.    *)
THEOREM CalledForHolds == Spec => []OnlyCalledFor
<1>1. IInv => OnlyCalledFor
  BY TagsForCalled DEF IInv, Called, OnlyCalledFor
<1> QED BY SpecIInv, <1>1, PTL

(* register() returns only when every library it was asked for is marked   *)
(* or raised, whatever other threads marked meanwhile.                     *)
THEOREM NothingForgotten == Spec => []NoTagForgotten
<1>1. IInv => NoTagForgotten
  <2> SUFFICES ASSUME IInv, NEW b \in Binaries, pc[b] = "done", setting,
                      NEW t \in ToSet(TagsFor(b))
               PROVE  t \in registered \/ <<b, t>> \in failures
    BY DEF NoTagForgotten
  <2>1. ToSet(wanted[b]) = {}
    BY EmptyList DEF IInv, Position
  <2> QED BY <2>1 DEF IInv, Remembered
<1> QED BY SpecIInv, <1>1, PTL

(* Once a library is marked and no thread is at work on it, no binary      *)
(* opened later takes it up again: its container is never replaced.        *)
THEOREM LoadedNeverReplaced == Spec => LoadedStays
<1> DEFINE Stays == \A t \in Tags :
                       Settled(t) => Settled(t)' /\ containers'[t] = containers[t]
<1>1. IInv /\ [Next]_vars => [Stays]_vars
  <2> SUFFICES ASSUME IInv, NEW b \in Binaries, Step(b),
                      NEW t \in Tags, t \in registered,
                      \A c \in Binaries : t \notin ToSet(wanted[c])
               PROVE  /\ t \in registered' /\ containers'[t] = containers[t]
                      /\ \A c \in Binaries : t \notin ToSet(wanted'[c])
    BY DEF Next, Settled, WorkingOn
  <2>1. wanted[b] # <<>> => /\ t # Head(wanted[b])
                            /\ ToSet(Tail(wanted[b])) \subseteq ToSet(wanted[b])
    BY HeadWanted DEF IInv
  <2>2. wanted \in [Binaries -> Seq(Tags)]
    BY DEF IInv, TypeOK
  <2>3. CASE Register(b)
    <3>1. t \notin ToSet(Unregistered(TagsFor(b)))
      BY WantedMembers DEF IInv
    <3> QED BY <2>2, <2>3, <3>1 DEF Register
  <2>4. CASE AddContainer(b)
    BY <2>1, <2>4 DEF AddContainer, IInv, TypeOK
  <2>5. CASE AddSource(b)
    <3>1. wanted[b] # <<>>
      BY <2>5 DEF AddSource, IInv, Position
    <3> QED BY <2>1, <2>2, <2>5, <3>1 DEF AddSource, IInv, TypeOK
  <2>6. CASE Raise(b)
    BY <2>1, <2>2, <2>6 DEF Raise
  <2>7. CASE Finish(b)
    BY <2>7 DEF Finish
  <2> QED BY <2>3, <2>4, <2>5, <2>6, <2>7 DEF Step
<1>2. [][Stays]_vars => LoadedStays
  BY PTL DEF LoadedStays
<1> QED BY SpecIInv, <1>1, <1>2, PTL DEF Spec
=============================================================================
