-------------------------- MODULE ContainerMonitor --------------------------
(***************************************************************************)
(* spawn_container_monitor: one background task per launch that waits for  *)
(* the run to end, or for its timeout, and settles the instance.           *)
(* The runner's handle_id is a function of the instance id alone, so       *)
(* detect_stale_monitor can tell an old monitor from the owner only by     *)
(* whether the registry has an entry at all.                               *)
(***************************************************************************)
EXTENDS EnvState

(* wait_for_exit returns once the task map has no task for the instance.   *)
MonitorExit(r) ==
    /\ MonAt(r, "wait")
    /\ task = 0
    /\ MonGoto(r, "check")
    /\ UNCHANGED <<db, env, pc, handle, runner, paused>>

(* detect_stale_monitor, after the metrics and stderr were stored.         *)
MonitorCheck(r) ==
    /\ MonAt(r, "check")
    /\ MonGoto(r, IF registry THEN "write" ELSE "cleanup")
    /\ UNCHANGED <<db, env, pc, handle, runner, paused>>

(* A settled status is left alone; else the run died without a word:       *)
(* crashed, or suspended for the shutdown when draining.                   *)
MonitorWrite(r) ==
    /\ MonAt(r, "write")
    /\ row' = IF draining
              THEN CompleteIfRunning(row, "suspended", "shutdown_requested")
              ELSE CompleteIfRunning(row, "failed", "crashed")
    /\ MonGoto(r, IF Applies(row) THEN "sleep" ELSE "cleanup")
    /\ UNCHANGED <<mail, progress, entry, env, pc, handle, runner, paused>>

(* The drain flag is read once more before the wake is scheduled.          *)
MonitorSleep(r) ==
    /\ MonAt(r, "sleep")
    /\ row' = IF draining THEN SetInstanceSleep(row, "due") ELSE row
    /\ MonGoto(r, "cleanup")
    /\ UNCHANGED <<mail, progress, entry, env, pc, handle, runner, paused>>

(* The timeout branch: stop the task, then fail the row if running.        *)
MonitorTimeout(r) ==
    /\ MonAt(r, "wait") /\ "timeout" \in Hazards
    /\ RunnerStop
    /\ MonGoto(r, "expire")
    /\ UNCHANGED <<db, env, pc, handle, task, guest, paused>>

MonitorExpire(r) ==
    /\ MonAt(r, "expire")
    /\ row' = CompleteIfRunning(row, "failed", "timeout")
    /\ MonGoto(r, "cleanup")
    /\ UNCHANGED <<mail, progress, entry, env, pc, handle, runner, paused>>

(* Every branch ends by deleting the instance's registry entry, a stale    *)
(* monitor's too.                                                          *)
MonitorCleanup(r) ==
    /\ MonAt(r, "cleanup")
    /\ CleanupContainer
    /\ MonGoto(r, "none")
    /\ UNCHANGED <<row, mail, progress, env, pc, handle, runner, paused>>

MonitorStep(r) ==
    \/ MonitorExit(r) \/ MonitorCheck(r) \/ MonitorWrite(r)
    \/ MonitorSleep(r) \/ MonitorTimeout(r) \/ MonitorExpire(r)
    \/ MonitorCleanup(r)
=============================================================================
