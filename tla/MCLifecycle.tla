---------------------------- MODULE MCLifecycle ----------------------------
(***************************************************************************)
(* Instances of Lifecycle for TLC.  The configurations choose the commands *)
(* and the hazards.  Two slots let a run overlap its successor; with one,  *)
(* a launch waits until the run before it and its monitor have ended.      *)
(***************************************************************************)
EXTENDS Lifecycle, TLC

MCSlots == 1 .. 2

OneSlot == {1}

(* The clients of the safety runs are interchangeable.                     *)
Symmetry == Permutations(Clients)
=============================================================================
