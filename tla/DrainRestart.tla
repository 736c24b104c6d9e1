---------------------------- MODULE DrainRestart ----------------------------
(***************************************************************************)
(* The process going away and coming back: EnvironmentRuntime::drain, the  *)
(* exit that follows it, an abrupt crash, and recover_orphaned_containers, *)
(* which start() runs to its end before it spawns the wake scheduler, the  *)
(* heartbeat monitor and the HTTP server.                                  *)
(***************************************************************************)
EXTENDS EnvState

DrainSet ==
    /\ Idle("drainer") /\ "drain" \in Hazards
    /\ draining' = TRUE
    /\ Goto("drainer", "drain.list")
    /\ UNCHANGED <<db, phase, orphan, counted, handle, runner, mon, paused>>

(* list_all_registered: an unregistered run is not drained.                *)
DrainList ==
    /\ At("drainer", "drain.list")
    /\ Goto("drainer", IF registry THEN "drain.signal" ELSE "drain.done")
    /\ UNCHANGED <<db, env, handle, runner, mon, paused>>

(* The shutdown signal replaces any pending one.                           *)
DrainSignal ==
    /\ At("drainer", "drain.signal")
    /\ signal' = "shutdown"
    /\ Goto("drainer", "drain.wait")
    /\ UNCHANGED <<row, custom, progress, entry, env, handle, runner, mon,
                   paused>>

(* filter_non_terminal: a settled row is drained; after the grace period   *)
(* the others are force-stopped.                                           *)
DrainWait ==
    /\ At("drainer", "drain.wait")
    /\ Goto("drainer", IF row.status \in SettledStatuses
                       THEN "drain.done" ELSE "drain.stop")
    /\ UNCHANGED <<db, env, handle, runner, mon, paused>>

DrainStop ==
    /\ At("drainer", "drain.stop")
    /\ RunnerStop
    /\ Goto("drainer", "drain.suspend")
    /\ UNCHANGED <<db, env, handle, task, guest, mon, paused>>

DrainSuspend ==
    /\ At("drainer", "drain.suspend")
    /\ row' = CompleteIfRunning(row, "suspended", "shutdown_requested")
    /\ Goto("drainer", IF Applies(row) THEN "drain.sleep" ELSE "drain.done")
    /\ UNCHANGED <<mail, progress, entry, env, handle, runner, mon, paused>>

DrainSleep ==
    /\ At("drainer", "drain.sleep")
    /\ row' = SetInstanceSleep(row, "due")
    /\ Goto("drainer", "drain.done")
    /\ UNCHANGED <<mail, progress, entry, env, handle, runner, mon, paused>>

(* All that lives in the process is gone; the tables stay.                 *)
LoseProcess ==
    /\ phase' = "down"
    /\ draining' = FALSE
    /\ orphan' = FALSE
    /\ counted' = 0
    /\ pc' = [a \in Actors |-> "idle"]
    /\ handle' = [a \in Launchers |-> 0]
    /\ task' = 0
    /\ guest' = [r \in Slots |-> "unused"]
    /\ cancelled' = [r \in Slots |-> FALSE]
    /\ mon' = [r \in Slots |-> "none"]
    /\ UNCHANGED <<db, paused>>

(* shutdown() after the drain: it waits for the wake scheduler and the     *)
(* heartbeat monitor to finish what they are doing, then the process ends. *)
DrainedExit ==
    /\ At("drainer", "drain.done")
    /\ pc["waker"] = "idle" /\ pc["heartbeat"] = "idle"
    /\ LoseProcess

Crash == phase # "down" /\ "crash" \in Hazards /\ LoseProcess

Restart ==
    /\ phase = "down"
    /\ phase' = IF registry THEN "boot" ELSE "up"
    /\ UNCHANGED <<db, draining, orphan, counted, pc, handle, runner, mon,
                   paused>>

(* recover_orphaned_containers, for an entry without a PID: a settled row  *)
(* is left alone, any other is recovered or failed; ...                    *)
BootRecover ==
    /\ phase = "boot"
    /\ row' = IF row.status \in SettledStatuses
              THEN row
              ELSE RecoverOrFail(row, ckpts, MaxAutoRestarts, AutoRecover)
    /\ phase' = "cleanup"
    /\ UNCHANGED <<mail, progress, entry, draining, orphan, counted, pc,
                   handle, runner, mon, paused>>

(* ... either way the entry is dropped.                                    *)
BootCleanup ==
    /\ phase = "cleanup"
    /\ CleanupContainer
    /\ phase' = "up"
    /\ UNCHANGED <<row, mail, progress, draining, orphan, counted, pc, handle,
                   runner, mon, paused>>

DrainStep == \/ DrainSet \/ DrainList \/ DrainSignal \/ DrainWait
             \/ DrainStop \/ DrainSuspend \/ DrainSleep \/ DrainedExit

BootStep == Restart \/ BootRecover \/ BootCleanup
=============================================================================
