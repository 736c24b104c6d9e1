----------------------------- MODULE CrashLoop -----------------------------
(***************************************************************************)
(* How often an instance that gets nowhere is restarted automatically.     *)
(* Lifecycle with a history variable that counts the restarts since the    *)
(* last checkpoint saved; the code has only recovery_attempts,             *)
(* recovery_marker and the rows of the checkpoints table to go by.         *)
(***************************************************************************)
EXTENDS Lifecycle

VARIABLE streak    \* history: automatic restarts since the last checkpoint

loopVars == <<vars, streak>>

(* mark_for_recovery is the one statement that changes the counters, and   *)
(* it does so each time: attempts rises, or else the marker is a new one.  *)
Restarted == <<row.attempts, row.marker>>' # <<row.attempts, row.marker>>

(* A retry attempt adds a row too, but the guest stays where it is.        *)
Saved == ckpts' # ckpts /\ guest' # guest

CountRestarts ==
    streak' = IF Saved THEN 0
              ELSE IF Restarted THEN streak + 1
              ELSE streak

LoopInit == Init /\ streak = 0

LoopNext == Next /\ CountRestarts

LoopSpec == LoopInit /\ [][LoopNext]_loopVars

(* An instance that saves no checkpoint is restarted at most               *)
(* RUNTARA_MAX_AUTO_RESTARTS times in a row; once more if the orphan scan, *)
(* which counts the checkpoints before it marks the row, may hit a guest   *)
(* that is still saving one in between.  The code fails this where a step  *)
(* is retried: recover_or_fail takes the retry attempts' rows for progress *)
(* ("retry" in Hazards).                                                   *)
RestartsBounded ==
    streak <= MaxAutoRestarts + (IF "elapse" \in Hazards THEN 1 ELSE 0)

(* The boot recovery fails a running instance as crash-looping only after  *)
(* all of its automatic restarts came to nothing.                          *)
GivenUpAfterCap ==
    [][/\ phase = "boot" /\ AutoRecover
       /\ row.status = "running" /\ row'.status = "failed"
       => streak >= MaxAutoRestarts]_loopVars
=============================================================================
