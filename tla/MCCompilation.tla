--------------------------- MODULE MCCompilation ---------------------------
(***************************************************************************)
(* Instances of Compilation for TLC.                                       *)
(***************************************************************************)
EXTENDS Compilation
=============================================================================
