--------------------------- MODULE WakeScheduler ---------------------------
(***************************************************************************)
(* process_pending_wakes and wake_instance: the scheduler looks for due    *)
(* rows unless the environment drains, claims one and relaunches it.       *)
(***************************************************************************)
EXTENDS EnvState

(* The drain flag is read once, before the scan.                           *)
WakeScan ==
    /\ Idle("waker")
    /\ ~draining
    /\ DueForWake(row)
    /\ Goto("waker", "wake.claim")
    /\ UNCHANGED <<db, env, handle, runner, mon, paused>>

(* claim_sleeping_instance; a lost claim is skipped.                       *)
WakeClaim ==
    /\ At("waker", "wake.claim")
    /\ IF CanClaim(row)
       THEN row' = Claim(row) /\ Goto("waker", "wake.launch")
       ELSE row' = row /\ Goto("waker", "idle")
    /\ UNCHANGED <<mail, progress, entry, env, handle, runner, mon, paused>>

WakeLaunch ==
    /\ At("waker", "wake.launch")
    /\ LaunchDetached("waker", "wake.register")
    /\ UNCHANGED <<db, env, mon, paused>>

(* Two slips: a failed launch that is dropped, a restore that restores     *)
(* nothing.                                                                *)
WakeLaunchGivesUp ==
    /\ At("waker", "wake.launch") /\ "launch_error" \in Hazards
    /\ Goto("waker", "idle")
    /\ UNCHANGED <<db, env, handle, runner, mon, paused>>

WakeRestoreForgets ==
    /\ At("waker", "wake.restore")
    /\ Goto("waker", "idle")
    /\ UNCHANGED <<db, env, handle, runner, mon, paused>>

WakeLaunchFails ==
    /\ At("waker", "wake.launch") /\ "launch_error" \in Hazards
    /\ Goto("waker", "wake.restore")
    /\ UNCHANGED <<db, env, handle, runner, mon, paused>>

(* The failed launch puts the wake back.                                   *)
WakeRestore ==
    /\ At("waker", "wake.restore")
    /\ row' = SetInstanceSleep(row, "due")
    /\ Goto("waker", "idle")
    /\ UNCHANGED <<mail, progress, entry, env, handle, runner, mon, paused>>

WakeRegister ==
    /\ At("waker", "wake.register")
    /\ RegisterContainer
    /\ SpawnMonitor("waker")
    /\ Goto("waker", "idle")
    /\ UNCHANGED <<row, mail, progress, env, runner, paused>>

WakerStep == \/ WakeScan \/ WakeClaim \/ WakeLaunch \/ WakeLaunchFails
             \/ WakeRestore \/ WakeRegister
=============================================================================
