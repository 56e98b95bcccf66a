-------------------------- MODULE SignatureRegistry --------------------------
(***************************************************************************)
(* integration/signatures.py: the WARP libraries the plugin registers, on  *)
(* demand, in a container cache the whole process shares.                  *)
(*                                                                         *)
(* Every binary opened is analysed by a thread of its own, so several      *)
(* registrations can be under way at once.  The module global _registered  *)
(* and the core's containers outlive them all: nothing is ever unloaded.   *)
(* A library is its tag; Delphi and Free Pascal tags are distinct, as the  *)
(* (kind, tag) pairs in _registered are.                                   *)
(***************************************************************************)
EXTENDS Naturals, SequencesExt, Lists

CONSTANTS
    Binaries,   \* the binaries opened in one process
    DelphiEras, \* DELPHI_ERAS: [virtual slot counts -> sequence of tags]
    LibraryEras,\* the eras DELPHI_LIBRARIES lists, in its order
    FpcTags,    \* the Free Pascal tags
    Shipped,    \* the tags whose library file is there
    Evidence,   \* [Binaries -> [fpc, layout]]: the Free Pascal tag the binary
                \* calls for or None, and its virtual slot count, or None for
                \* a layout that was not recognised
    None

Eras == DOMAIN DelphiEras

ASSUME SignatureAssumption ==
    /\ Eras \subseteq Nat /\ None \notin Eras /\ None \notin FpcTags
    /\ None \notin [by : Binaries, loaded : BOOLEAN]
    /\ \A e \in Eras : DelphiEras[e] \in Seq(ToSet(DelphiEras[e]))
    /\ LibraryEras \in Seq(Eras)
    /\ \A b \in Binaries : /\ Evidence[b].fpc \in FpcTags \cup {None}
                           /\ Evidence[b].layout = None \/ Evidence[b].layout \in Nat

VARIABLES
    setting,     \* the "delphinja.signatures" setting
    importable,  \* `from binaryninja import warp` succeeds
    registered,  \* _registered
    containers,  \* [tags -> None, or [by, loaded]]: which thread added the
                 \* container there is now, and whether it has its source
    pc,          \* [Binaries -> where its registration is]
    wanted,      \* [Binaries -> the tags register() has still to do]
    failures     \* the tags whose registration raised, by binary

vars == <<setting, importable, registered, containers, pc, wanted, failures>>

(* DELPHI_LIBRARIES                                                        *)
DelphiLibraries ==
    Joined([i \in 1 .. Len(LibraryEras) |-> DelphiEras[LibraryEras[i]]])

Tags == (UNION {ToSet(DelphiEras[e]) : e \in Eras}) \cup FpcTags

(* delphi_tags() when the era is not used to narrow the set.               *)
DelphiTagsUnnarrowed(layout) ==
    Kept(DelphiLibraries, Shipped)

(* delphi_tags(): the era's libraries, or all of them.                     *)
DelphiTags(layout) ==
    Kept(IF layout \in Eras THEN DelphiEras[layout] ELSE DelphiLibraries, Shipped)

FpcLibraryTags(tag) == IF tag \in Shipped THEN <<tag>> ELSE <<>>

(* What is passed to register(): a Free Pascal binary stops there.         *)
TagsFor(b) ==
    IF Evidence[b].fpc # None THEN FpcLibraryTags(Evidence[b].fpc)
    ELSE DelphiTags(Evidence[b].layout)

(* What other binaries have registered is registered again.                *)
AllTags(tags) == tags

(* register()'s `wanted`.                                                  *)
Unregistered(tags) == Kept(tags, Tags \ registered)
-----------------------------------------------------------------------------
Init ==
    /\ setting \in BOOLEAN
    /\ importable \in BOOLEAN
    /\ registered = {}
    /\ containers = [t \in Tags |-> None]
    /\ pc = [b \in Binaries |-> "unopened"]
    /\ wanted = [b \in Binaries |-> <<>>]
    /\ failures = {}

(* register() up to the loop. With WARP missing every tag asked for is     *)
(* marked, so that no later binary tries again.                            *)
Register(b) ==
    /\ pc[b] = "unopened"
    /\ LET missing == Unregistered(TagsFor(b))
       IN IF missing = <<>> \/ ~setting
          THEN /\ pc' = [pc EXCEPT ![b] = "done"]
               /\ UNCHANGED <<registered, wanted>>
          ELSE IF ~importable
          THEN /\ pc' = [pc EXCEPT ![b] = "done"]
               /\ registered' = registered \cup ToSet(TagsFor(b))
               /\ UNCHANGED wanted
          ELSE /\ pc' = [pc EXCEPT ![b] = "adding"]
               /\ wanted' = [wanted EXCEPT ![b] = missing]
               /\ UNCHANGED registered
    /\ UNCHANGED <<setting, importable, containers, failures>>

(* WarpContainer.add: a container of the same name is replaced, empty.     *)
AddContainer(b) ==
    /\ pc[b] = "adding"
    /\ wanted[b] # <<>>
    /\ containers' = [containers EXCEPT ![Head(wanted[b])] =
                                    [by |-> b, loaded |-> FALSE]]
    /\ pc' = [pc EXCEPT ![b] = "sourcing"]
    /\ UNCHANGED <<setting, importable, registered, wanted, failures>>

(* A tag marked although its registration raised.                          *)
RaiseButMark(b) ==
    /\ pc[b] \in {"adding", "sourcing"}
    /\ wanted[b] # <<>>
    /\ registered' = registered \cup {Head(wanted[b])}
    /\ wanted' = [wanted EXCEPT ![b] = Tail(@)]
    /\ pc' = [pc EXCEPT ![b] = "adding"]
    /\ UNCHANGED <<setting, importable, containers, failures>>

(* The source added and the tag never marked.                              *)
AddSourceUnmarked(b) ==
    /\ pc[b] = "sourcing"
    /\ LET t == Head(wanted[b])
       IN containers' = [containers EXCEPT ![t].loaded = @ \/ containers[t].by = b]
    /\ wanted' = [wanted EXCEPT ![b] = Tail(@)]
    /\ pc' = [pc EXCEPT ![b] = "adding"]
    /\ UNCHANGED <<setting, importable, registered, failures>>

(* container.add_source, then the tag is marked. The container added       *)
(* meanwhile by another thread is another container: this source goes into *)
(* the one that was replaced.                                              *)
AddSource(b) ==
    /\ pc[b] = "sourcing"
    /\ LET t == Head(wanted[b])
       IN /\ containers' = [containers EXCEPT ![t].loaded = @ \/ containers[t].by = b]
          /\ registered' = registered \cup {t}
    /\ wanted' = [wanted EXCEPT ![b] = Tail(@)]
    /\ pc' = [pc EXCEPT ![b] = "adding"]
    /\ UNCHANGED <<setting, importable, failures>>

(* The tag that raised is tried again at once.                             *)
RaiseAndRetry(b) ==
    /\ pc[b] \in {"adding", "sourcing"}
    /\ wanted[b] # <<>>
    /\ failures' = failures \cup {<<b, Head(wanted[b])>>}
    /\ pc' = [pc EXCEPT ![b] = "adding"]
    /\ UNCHANGED <<setting, importable, registered, containers, wanted>>

(* Either call raises: the error is logged and the next tag taken.         *)
Raise(b) ==
    /\ pc[b] \in {"adding", "sourcing"}
    /\ wanted[b] # <<>>
    /\ failures' = failures \cup {<<b, Head(wanted[b])>>}
    /\ wanted' = [wanted EXCEPT ![b] = Tail(@)]
    /\ pc' = [pc EXCEPT ![b] = "adding"]
    /\ UNCHANGED <<setting, importable, registered, containers>>

Finish(b) ==
    /\ pc[b] = "adding"
    /\ wanted[b] = <<>>
    /\ pc' = [pc EXCEPT ![b] = "done"]
    /\ UNCHANGED <<setting, importable, registered, containers, wanted, failures>>

Step(b) ==
    Register(b) \/ AddContainer(b) \/ AddSource(b) \/ Raise(b) \/ Finish(b)

Next == \E b \in Binaries : Step(b)

(* Each analysis thread is scheduled until it is done.                     *)
Spec == Init /\ [][Next]_vars /\ \A b \in Binaries : WF_vars(Step(b))
-----------------------------------------------------------------------------
(* The threads that have still to add or source `t`.                       *)
WorkingOn(t) == {b \in Binaries : t \in ToSet(wanted[b])}

(* However the threads interleave, a tag marked as registered ends up with *)
(* a container that holds its library, unless registering it raised.       *)
RegisteredIsLoaded ==
    importable =>
        \A t \in registered :
            (WorkingOn(t) = {} /\ ~\E b \in Binaries : <<b, t>> \in failures)
            => containers[t] # None /\ containers[t].loaded

(* Only a library some opened binary's evidence calls for is ever loaded:  *)
(* the version that can match, and not every version there is.             *)
OnlyCalledFor ==
    \A t \in Tags :
        containers[t] # None =>
            \E b \in Binaries :
                /\ pc[b] # "unopened"
                /\ Evidence[b].fpc = None \/ t = Evidence[b].fpc
                /\ (Evidence[b].fpc = None /\ Evidence[b].layout \in Eras)
                   => t \in ToSet(DelphiEras[Evidence[b].layout])

(* A thread that has finished left no library its binary calls for behind: *)
(* each is marked, by it or by another thread, or raised.                  *)
NoTagForgotten ==
    \A b \in Binaries :
        (pc[b] = "done" /\ setting) =>
            \A t \in ToSet(TagsFor(b)) : t \in registered \/ <<b, t>> \in failures

Settled(t) == t \in registered /\ WorkingOn(t) = {}

(* A library that is marked, with no thread left at work on it, is settled *)
(* for the life of the process: no binary opened later sets out to         *)
(* register it again, which would replace its container under the others.  *)
LoadedStays ==
    [][\A t \in Tags :
           Settled(t) => Settled(t)' /\ containers'[t] = containers[t]]_vars

(* No failure, of WARP as a whole or of one library, stops an analysis.    *)
EveryBinaryDone == \A b \in Binaries : <>(pc[b] = "done")
=============================================================================
