--------------------------- MODULE MCTokenRefresh ---------------------------
(***************************************************************************)
(* Instances of TokenRefresh for TLC: two tasks in one process and a third *)
(* in another.                                                             *)
(***************************************************************************)
EXTENDS TokenRefresh, TLC

CONSTANTS t1, t2, t3, proc1, proc2

TwoAndOne == t1 :> proc1 @@ t2 :> proc1 @@ t3 :> proc2
=============================================================================
