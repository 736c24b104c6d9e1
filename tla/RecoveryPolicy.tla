-------------------------- MODULE RecoveryPolicy --------------------------
(***************************************************************************)
(* What the environment does with an instance whose process a restart      *)
(* killed: relaunch it, or fail it once it has been restarted too often    *)
(* without getting anywhere (runtara-environment's recovery module).       *)
(***************************************************************************)
EXTENDS Persistence

(* Slips the checks are tried against: a cap one too large, one too small. *)
RecoversPastCap(attempt, cap, autoRecover) ==
    autoRecover /\ attempt <= cap + 1

RecoversBelowCap(attempt, cap, autoRecover) == autoRecover /\ attempt < cap

(* The number this recovery would carry: 1 after progress (or for a first  *)
(* recovery, which has no marker), else one more than the last.            *)
NextAttempt(prevAttempts, prevMarker, progress) ==
    IF prevMarker = NoMarker \/ progress > prevMarker
    THEN 1
    ELSE prevAttempts + 1

(* decide: TRUE for Recover, FALSE for Fail.                               *)
Recovers(attempt, cap, autoRecover) == autoRecover /\ attempt <= cap

(* recover_or_fail on row r, whose guest has saved "progress" checkpoints. *)
RecoverOrFail(r, progress, cap, autoRecover) ==
    LET attempt == NextAttempt(r.attempts, r.marker, progress)
    IN  IF Recovers(attempt, cap, autoRecover)
        THEN MarkForRecovery(r, attempt, progress)
        ELSE CompleteIfRunning(r, "failed", "environment_restart")
=============================================================================
