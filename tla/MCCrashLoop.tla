---------------------------- MODULE MCCrashLoop ----------------------------
(***************************************************************************)
(* Instances of CrashLoop for TLC.                                         *)
(***************************************************************************)
EXTENDS CrashLoop

OneSlot == {1}
=============================================================================
