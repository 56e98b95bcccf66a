--------------------------- MODULE MCBuildCache ---------------------------
(***************************************************************************)
(* Two tags, so that one can fail before the other, and two source files.  *)
(***************************************************************************)
EXTENDS BuildCache, TLC

MCTagOrder == ("7" :> 1) @@ ("2014" :> 2)
=============================================================================
