-------------------------- MODULE MCSignatureRegistry --------------------------
(***************************************************************************)
(* Two Delphi eras of two libraries each, one library of each not shipped, *)
(* and a Free Pascal library.                                              *)
(***************************************************************************)
EXTENDS SignatureRegistry, TLC

CONSTANTS b1, b2, b3, b4

MCEras == (8 :> <<"core-8", "7-only">>) @@ (11 :> <<"core-11", "2009-only">>)
          @@ (14 :> <<"core-11", "2009-only">>)

MCLibraryEras == <<8, 11>>

MCShipped == {"core-8", "core-11", "3.2.2-win32"}

(* Two binaries of one era, one of an era nothing recognises, one Free     *)
(* Pascal binary.                                                          *)
MixedEvidence ==
    (b1 :> [fpc |-> None, layout |-> 8]) @@ (b2 :> [fpc |-> None, layout |-> 8])
    @@ (b3 :> [fpc |-> None, layout |-> 9])
    @@ (b4 :> [fpc |-> "3.2.2-win32", layout |-> None])
=============================================================================
