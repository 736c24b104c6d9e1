------------------------- MODULE ManagementRequests -------------------------
(***************************************************************************)
(* The environment's management requests: start, resume, stop, send a      *)
(* lifecycle signal, send a custom signal.  A client runs one at a time;   *)
(* two clients interleave statement by statement.  Requests that the code  *)
(* refuses change nothing and are not actions.                             *)
(***************************************************************************)
EXTENDS EnvState

(***************************************************************************)
(* handle_start_instance                                                   *)
(***************************************************************************)

(* existing_start_response found no row, and the artifact exists.          *)
StartCheck(c) ==
    /\ Idle(c) /\ "start" \in Commands
    /\ row.status = "absent"
    /\ Goto(c, "start.insert")
    /\ UNCHANGED <<db, env, handle, runner, mon, paused>>

(* register_instance.  When another request inserted the row meanwhile,    *)
(* existing_start_response answers for this one and nothing is launched.   *)
StartInsert(c) ==
    /\ At(c, "start.insert")
    /\ IF row.status = "absent"
       THEN row' = RegisterInstance /\ Goto(c, "start.launch")
       ELSE row' = row /\ Goto(c, "idle")
    /\ UNCHANGED <<mail, progress, entry, env, handle, runner, mon, paused>>

StartLaunch(c) ==
    /\ At(c, "start.launch")
    /\ LaunchDetached(c, "start.register")
    /\ UNCHANGED <<db, env, mon, paused>>

StartLaunchFails(c) ==
    /\ At(c, "start.launch") /\ "launch_error" \in Hazards
    /\ row' = Complete(row, "failed", "none")
    /\ Goto(c, "idle")
    /\ UNCHANGED <<mail, progress, entry, env, handle, runner, mon, paused>>

StartRegister(c) ==
    /\ At(c, "start.register")
    /\ RegisterContainer
    /\ Goto(c, "start.running")
    /\ UNCHANGED <<row, mail, progress, env, handle, runner, mon, paused>>

(* The row is set to running after the launch, whatever the guest did.     *)
StartRunning(c) ==
    /\ At(c, "start.running")
    /\ row' = UpdateStatusStarted(row, "running")
    /\ SpawnMonitor(c)
    /\ Goto(c, "idle")
    /\ paused' = FALSE
    /\ UNCHANGED <<mail, progress, entry, env, runner>>

(***************************************************************************)
(* handle_resume_instance                                                  *)
(***************************************************************************)
ResumeCheck(c) ==
    /\ Idle(c) /\ "resume" \in Commands
    /\ row.status \in {"suspended", "failed", "cancelled"}
    /\ Goto(c, "resume.cleanup")
    /\ UNCHANGED <<db, env, handle, runner, mon, paused>>

ResumeCleanup(c) ==
    /\ At(c, "resume.cleanup")
    /\ CleanupContainer
    /\ Goto(c, "resume.running")
    /\ UNCHANGED <<row, mail, progress, env, handle, runner, mon, paused>>

ResumeRunning(c) ==
    /\ At(c, "resume.running")
    /\ row' = UpdateStatusStarted(row, "running")
    /\ Goto(c, "resume.clear")
    /\ paused' = FALSE
    /\ UNCHANGED <<mail, progress, entry, env, handle, runner, mon>>

ResumeClear(c) ==
    /\ At(c, "resume.clear")
    /\ row' = ClearInstanceSleep(row)
    /\ Goto(c, "resume.launch")
    /\ UNCHANGED <<mail, progress, entry, env, handle, runner, mon, paused>>

ResumeLaunch(c) ==
    /\ At(c, "resume.launch")
    /\ LaunchDetached(c, "resume.register")
    /\ UNCHANGED <<db, env, mon, paused>>

(* The error goes to the caller; the row keeps the status set above.       *)
ResumeLaunchFails(c) ==
    /\ At(c, "resume.launch") /\ "launch_error" \in Hazards
    /\ Goto(c, "idle")
    /\ UNCHANGED <<db, env, handle, runner, mon, paused>>

(* A slip: the resumed run gets no monitor.                                *)
ResumeRegisterUnmonitored(c) ==
    /\ At(c, "resume.register")
    /\ RegisterContainer
    /\ handle' = [handle EXCEPT ![c] = 0]
    /\ Goto(c, "idle")
    /\ UNCHANGED <<row, mail, progress, env, runner, mon, paused>>

ResumeRegister(c) ==
    /\ At(c, "resume.register")
    /\ RegisterContainer
    /\ SpawnMonitor(c)
    /\ Goto(c, "idle")
    /\ UNCHANGED <<row, mail, progress, env, runner, paused>>

(***************************************************************************)
(* handle_stop_instance                                                    *)
(***************************************************************************)
StopCheck(c) ==
    /\ Idle(c) /\ "stop" \in Commands
    /\ registry
    /\ Goto(c, "stop.kill")
    /\ UNCHANGED <<db, env, handle, runner, mon, paused>>

StopKill(c) ==
    /\ At(c, "stop.kill")
    /\ RunnerStop
    /\ Goto(c, "stop.complete")
    /\ UNCHANGED <<db, env, handle, task, guest, mon, paused>>

StopComplete(c) ==
    /\ At(c, "stop.complete")
    /\ row' = Complete(row, "cancelled", "none")
    /\ Goto(c, "stop.cleanup")
    /\ UNCHANGED <<mail, progress, entry, env, handle, runner, mon, paused>>

StopCleanup(c) ==
    /\ At(c, "stop.cleanup")
    /\ CleanupContainer
    /\ Goto(c, "idle")
    /\ UNCHANGED <<row, mail, progress, env, handle, runner, mon, paused>>

(***************************************************************************)
(* handle_send_signal: the status is read, then the signal is written over *)
(* whatever signal was pending.  "unpause" is the signal named resume.     *)
(***************************************************************************)
LifecycleSignals == {"cancel", "pause", "unpause"}

SendPC(s) == CASE s = "cancel"  -> "send.cancel"
               [] s = "pause"   -> "send.pause"
               [] s = "unpause" -> "send.unpause"

SendCheck(c, s) ==
    /\ Idle(c) /\ s \in Commands
    /\ row.status \in {"running", "suspended", "pending"}
    /\ Goto(c, SendPC(s))
    /\ UNCHANGED <<db, env, handle, runner, mon, paused>>

SendInsert(c, s) ==
    /\ At(c, SendPC(s))
    /\ signal' = s
    /\ Goto(c, "idle")
    /\ UNCHANGED <<row, custom, progress, entry, env, handle, runner, mon,
                   paused>>

(***************************************************************************)
(* handle_send_custom_signal and wake_suspended_on_signal                  *)
(***************************************************************************)
(* insert_custom_signal, for the wait the workflow has got to or another.  *)
CustomInsert(c) ==
    /\ Idle(c) /\ "custom" \in Commands
    /\ row.status # "absent"
    /\ custom' \in {TRUE, custom}
    /\ Goto(c, "custom.wake")
    /\ UNCHANGED <<row, signal, progress, entry, env, handle, runner, mon,
                   paused>>

(* Only a row parked by an on-signal wait is woken.                        *)
SignalWakes(r) == r.status = "suspended" /\ r.term = "waiting_signal"

CustomWakeCheck(c) ==
    /\ At(c, "custom.wake")
    /\ Goto(c, IF SignalWakes(row) THEN "custom.stamp" ELSE "idle")
    /\ UNCHANGED <<db, env, handle, runner, mon, paused>>

CustomStamp(c) ==
    /\ At(c, "custom.stamp")
    /\ row' = SetInstanceSleep(row, "due")
    /\ Goto(c, "idle")
    /\ UNCHANGED <<mail, progress, entry, env, handle, runner, mon, paused>>

ClientStep(c) ==
    \/ StartCheck(c) \/ StartInsert(c) \/ StartLaunch(c)
    \/ StartLaunchFails(c) \/ StartRegister(c) \/ StartRunning(c)
    \/ ResumeCheck(c) \/ ResumeCleanup(c) \/ ResumeRunning(c)
    \/ ResumeClear(c) \/ ResumeLaunch(c) \/ ResumeLaunchFails(c)
    \/ ResumeRegister(c)
    \/ StopCheck(c) \/ StopKill(c) \/ StopComplete(c) \/ StopCleanup(c)
    \/ \E s \in LifecycleSignals : SendCheck(c, s) \/ SendInsert(c, s)
    \/ CustomInsert(c) \/ CustomWakeCheck(c) \/ CustomStamp(c)
=============================================================================
