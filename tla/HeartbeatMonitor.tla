-------------------------- MODULE HeartbeatMonitor --------------------------
(***************************************************************************)
(* check_stale_instances: fail registered containers that have been silent *)
(* for longer than the heartbeat timeout, recover rows that run untracked. *)
(* Both lists are read first; then the stale ones are processed, then the  *)
(* orphans.  The embedded runner records no PID, so killing by PID never   *)
(* applies.                                                                *)
(***************************************************************************)
EXTENDS EnvState

(* get_stale_containers: silent since before the cutoff.                   *)
StaleContainer ==
    /\ registry
    /\ \/ lastEvent = "none" /\ entryOld
       \/ lastEvent = "old"

(* A scan that finds nothing changes nothing and is not a step.            *)
HeartbeatScan ==
    /\ Idle("heartbeat")
    /\ ~draining
    /\ StaleContainer
    /\ Goto("heartbeat", "hb.list")
    /\ UNCHANGED <<db, env, handle, runner, mon, paused>>

(* A slip: the comparison with the cutoff the wrong way round.             *)
RunsSinceAfterCutoff(r) == r.status = "running" /\ ~r.startedOld

(* list_instances(running), filtered by started_at < cutoff: the row is an *)
(* orphan unless the next statement finds it tracked.                      *)
RunsSinceBeforeCutoff(r) == r.status = "running" /\ r.startedOld

HeartbeatList ==
    /\ \/ Idle("heartbeat") /\ ~draining /\ RunsSinceBeforeCutoff(row)
          /\ Goto("heartbeat", "hb.tracked")
       \/ At("heartbeat", "hb.list")
          /\ Goto("heartbeat", IF RunsSinceBeforeCutoff(row)
                               THEN "hb.tracked.stale" ELSE "hb.stop")
    /\ UNCHANGED <<db, env, handle, runner, mon, paused>>

(* SELECT instance_id FROM container_registry.                             *)
HeartbeatTracked ==
    /\ phase = "up" /\ pc["heartbeat"] \in {"hb.tracked", "hb.tracked.stale"}
    /\ orphan' = ~registry
    /\ Goto("heartbeat",
            IF pc["heartbeat"] = "hb.tracked.stale" THEN "hb.stop"
            ELSE IF registry THEN "idle" ELSE "hb.count")
    /\ UNCHANGED <<db, phase, draining, counted, handle, runner, mon, paused>>

(* fail_stale_instance: stop, fail the row if running, drop the entry.     *)
HeartbeatStop ==
    /\ At("heartbeat", "hb.stop")
    /\ RunnerStop
    /\ Goto("heartbeat", "hb.fail")
    /\ UNCHANGED <<db, env, handle, task, guest, mon, paused>>

HeartbeatFail ==
    /\ At("heartbeat", "hb.fail")
    /\ row' = CompleteIfRunning(row, "failed", "heartbeat_timeout")
    /\ Goto("heartbeat", "hb.cleanup")
    /\ UNCHANGED <<mail, progress, entry, env, handle, runner, mon, paused>>

HeartbeatCleanup ==
    /\ At("heartbeat", "hb.cleanup")
    /\ CleanupContainer
    /\ Goto("heartbeat", IF orphan THEN "hb.count" ELSE "idle")
    /\ UNCHANGED <<row, mail, progress, env, handle, runner, mon, paused>>

(* recover_orphaned_instance: recover_or_fail counts the checkpoints ...   *)
HeartbeatCount ==
    /\ At("heartbeat", "hb.count")
    /\ counted' = ckpts
    /\ Goto("heartbeat", "hb.recover")
    /\ UNCHANGED <<db, phase, draining, orphan, handle, runner, mon, paused>>

(* ... reads the counters, which nobody else writes meanwhile, and acts on *)
(* the row as it then is, whatever happened since the scan.                *)
HeartbeatRecover ==
    /\ At("heartbeat", "hb.recover")
    /\ row' = RecoverOrFail(row, counted, MaxAutoRestarts, AutoRecover)
    /\ orphan' = FALSE
    /\ counted' = 0
    /\ Goto("heartbeat", "idle")
    /\ UNCHANGED <<mail, progress, entry, phase, draining, handle, runner,
                   mon, paused>>

HeartbeatStep == \/ HeartbeatScan \/ HeartbeatList \/ HeartbeatTracked
                 \/ HeartbeatStop \/ HeartbeatFail \/ HeartbeatCleanup
                 \/ HeartbeatCount \/ HeartbeatRecover
=============================================================================
