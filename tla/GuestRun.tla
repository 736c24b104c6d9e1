------------------------------ MODULE GuestRun ------------------------------
(***************************************************************************)
(* A guest run: the task launch_detached spawns, the workflow it executes  *)
(* and the runtime host that turns the workflow's calls into Core's        *)
(* instance handlers.  Which call the workflow makes next is its own       *)
(* business, hence nondeterministic; what the call does is the host's.     *)
(***************************************************************************)
EXTENDS EnvState

(* Every handled instance event is first inserted into instance_events.    *)
InsertEvent == lastEvent' = "recent"

(* The component loaded: read the stored input, set the row to running     *)
(* whatever it was, and start the guest.                                   *)
GuestStart(r) ==
    /\ GuestAt(r, "spawned")
    /\ row' = UpdateStatus(row, "running")
    /\ GuestGoto(r, "exec")
    /\ paused' = FALSE
    /\ UNCHANGED <<mail, progress, entry, env, pc, handle, task, cancelled,
                   mon>>

(* The component did not load, or trapped, or its cancel flag is up: the   *)
(* task ends and no event is written.  The watchdog drops the invocation   *)
(* at whichever await it is, between two statements of a host call too;    *)
(* what the task does after the invocation (the park) is not interrupted.  *)
Interruptible == {"exec", "save", "cancel.ack", "cancel.apply", "pause.ack",
                  "pause.apply", "pause.event", "shutdown.ack",
                  "shutdown.apply", "shutdown.sleep", "shutdown.event"}

GuestDies(r) ==
    /\ phase = "up"
    /\ \/ guest[r] = "spawned" /\ "load_error" \in Hazards
       \/ guest[r] = "exec" /\ "trap" \in Hazards
       \/ guest[r] \in Interruptible /\ cancelled[r]
    /\ GuestGoto(r, "exit")
    /\ UNCHANGED <<db, env, pc, handle, task, cancelled, mon, paused>>

GuestHeartbeat(r) ==
    /\ GuestAt(r, "exec")
    /\ InsertEvent
    /\ UNCHANGED <<row, mail, ckpts, entry, env, pc, handle, runner, mon,
                   paused>>

(* Bound: with MaxCheckpoints = 0 the workflow saves nothing.              *)
MaySave == MaxCheckpoints > 0

(* handle_checkpoint with a new id: refused unless the row is running,     *)
(* else on to the save.  An id that is there only returns its state.       *)
GuestCheckpoint(r) ==
    /\ GuestAt(r, "exec")
    /\ row.status = "running" => MaySave
    /\ GuestGoto(r, IF row.status = "running" THEN "save" ELSE "exit")
    /\ UNCHANGED <<db, env, pc, handle, task, cancelled, mon, paused>>

(* handle_sleep (durable_sleep_checkpoint) saves whatever the row is.      *)
GuestDurableSleep(r) ==
    /\ GuestAt(r, "exec") /\ MaySave
    /\ GuestGoto(r, "save")
    /\ UNCHANGED <<db, env, pc, handle, task, cancelled, mon, paused>>

(* save_checkpoint, an upsert: a new id adds a row, one that is there (a   *)
(* durable sleep replayed) does not.  It inserts no event.                 *)
GuestSave(r) ==
    /\ GuestAt(r, "save")
    /\ ckpts' \in {ckpts, ckpts + 1} \cap (1 .. MaxCheckpoints)
    /\ GuestGoto(r, "exec")
    /\ UNCHANGED <<row, mail, lastEvent, entry, env, pc, handle, task,
                   cancelled, mon, paused>>

(* save_retry_attempt: a durable step failed and is tried again; the audit *)
(* record is one more row of the checkpoints table.                        *)
GuestRetry(r) ==
    /\ GuestAt(r, "exec") /\ "retry" \in Hazards
    /\ ckpts < MaxCheckpoints
    /\ ckpts' = ckpts + 1
    /\ UNCHANGED <<row, mail, lastEvent, entry, env, pc, handle, runner, mon,
                   paused>>

(* check_signals, or handle_checkpoint_signal on a checkpoint's reply: the *)
(* signal read here is the one acknowledged later.                         *)
AckPC(s) == CASE s = "cancel"   -> "cancel.ack"
              [] s = "pause"    -> "pause.ack"
              [] s = "shutdown" -> "shutdown.ack"
              [] OTHER          -> "exec"

GuestPoll(r) ==
    /\ GuestAt(r, "exec")
    /\ GuestGoto(r, AckPC(signal))
    /\ UNCHANGED <<db, env, pc, handle, task, cancelled, mon, paused>>

(* poll_custom_signal finds the signal and the workflow goes past the      *)
(* wait.  The row stays, so that a replay goes past it again; custom is    *)
(* from now on about the next wait.                                        *)
GuestReadsSignal(r) ==
    /\ GuestAt(r, "exec")
    /\ custom
    /\ custom' = FALSE
    /\ UNCHANGED <<row, signal, progress, entry, env, pc, handle, runner, mon,
                   paused>>

(* A run started in debug mode pauses at its breakpoints: breakpoint_pause *)
(* acknowledges a pause although none may be pending.                      *)
GuestBreakpoint(r) ==
    /\ GuestAt(r, "exec") /\ "debug" \in Commands
    /\ GuestGoto(r, "pause.ack")
    /\ UNCHANGED <<db, env, pc, handle, task, cancelled, mon, paused>>

(* acknowledge_signal marks whatever signal is pending now.                *)
AckNext(loc) == CASE loc = "cancel.ack"   -> "cancel.apply"
                  [] loc = "pause.ack"    -> "pause.apply"
                  [] loc = "shutdown.ack" -> "shutdown.apply"

GuestAck(r) ==
    /\ phase = "up"
    /\ guest[r] \in {"cancel.ack", "pause.ack", "shutdown.ack"}
    /\ signal' = "none"
    /\ GuestGoto(r, AckNext(guest[r]))
    /\ UNCHANGED <<row, custom, progress, entry, env, pc, handle, task,
                   cancelled, mon, paused>>

(* handle_signal_ack, cancel: cancelled, whatever the row was.             *)
GuestApplyCancel(r) ==
    /\ GuestAt(r, "cancel.apply")
    /\ row' = Complete(row, "cancelled", "none")
    /\ GuestGoto(r, "exit")
    /\ UNCHANGED <<mail, progress, entry, env, pc, handle, task, cancelled,
                   mon, paused>>

(* A slip: a pause handled like a shutdown.                                *)
GuestApplyPauseAsShutdown(r) ==
    /\ GuestAt(r, "pause.apply")
    /\ row' = UpdateStatus(row, "suspended")
    /\ GuestGoto(r, "shutdown.sleep")
    /\ paused' = TRUE
    /\ UNCHANGED <<mail, progress, entry, env, pc, handle, task, cancelled,
                   mon>>

(* handle_signal_ack, pause: suspended, the old reason left in place.      *)
GuestApplyPause(r) ==
    /\ GuestAt(r, "pause.apply")
    /\ row' = UpdateStatus(row, "suspended")
    /\ GuestGoto(r, "pause.event")
    /\ paused' = TRUE
    /\ UNCHANGED <<mail, progress, entry, env, pc, handle, task, cancelled,
                   mon>>

(* handle_signal_ack, shutdown: suspended and, next, due at once.          *)
GuestApplyShutdown(r) ==
    /\ GuestAt(r, "shutdown.apply")
    /\ row' = Complete(row, "suspended", "shutdown_requested")
    /\ GuestGoto(r, "shutdown.sleep")
    /\ paused' = FALSE
    /\ UNCHANGED <<mail, progress, entry, env, pc, handle, task, cancelled,
                   mon>>

GuestShutdownSleep(r) ==
    /\ GuestAt(r, "shutdown.sleep")
    /\ row' = SetInstanceSleep(row, "due")
    /\ GuestGoto(r, "shutdown.event")
    /\ UNCHANGED <<mail, progress, entry, env, pc, handle, task, cancelled,
                   mon, paused>>

(* suspended_event after a pause or shutdown acknowledgement.              *)
GuestSuspendedEvent(r) ==
    /\ phase = "up" /\ guest[r] \in {"pause.event", "shutdown.event"}
    /\ InsertEvent
    /\ row' = CompleteIfRunning(row, "suspended", "none")
    /\ GuestGoto(r, "exit")
    /\ UNCHANGED <<mail, ckpts, entry, env, pc, handle, task, cancelled, mon,
                   paused>>

(* runtime.complete and runtime.fail.                                      *)
GuestReports(r, status) ==
    /\ GuestAt(r, "exec")
    /\ InsertEvent
    /\ row' = CompleteIfRunning(row, status, "none")
    /\ GuestGoto(r, "exit")
    /\ UNCHANGED <<mail, ckpts, entry, env, pc, handle, task, cancelled, mon,
                   paused>>

(* The workflow returns outcome::suspended with a timed wake, or, when its *)
(* poll finds no custom signal, with an on-signal wake.                    *)
GuestSuspends(r) ==
    /\ GuestAt(r, "exec")
    /\ \/ GuestGoto(r, "park.at")
       \/ ~custom /\ GuestGoto(r, "park.signal")
       \/ ~custom /\ GuestGoto(r, "park.deadline")
    /\ UNCHANGED <<db, env, pc, handle, task, cancelled, mon, paused>>

(* park_invoke_suspend: the guarded status write with the wake marker ...  *)
ParkMarker(loc) == IF loc = "park.at" THEN "sleeping" ELSE "waiting_signal"

GuestPark(r) ==
    /\ phase = "up" /\ guest[r] \in {"park.at", "park.signal", "park.deadline"}
    /\ row' = CompleteIfRunning(row, "suspended", ParkMarker(guest[r]))
    /\ GuestGoto(r, IF Applies(row) /\ guest[r] # "park.signal"
                    THEN "park.sleep" ELSE "exit")
    /\ UNCHANGED <<mail, progress, entry, env, pc, handle, task, cancelled,
                   mon, paused>>

(* ... and the deadline, when there is one.                                *)
GuestParkSleep(r) ==
    /\ GuestAt(r, "park.sleep")
    /\ row' = SetInstanceSleep(row, "later")
    /\ GuestGoto(r, "exit")
    /\ UNCHANGED <<mail, progress, entry, env, pc, handle, task, cancelled,
                   mon, paused>>

(* The task's last lines: finished, and removal by instance id from the    *)
(* task map, whichever run's task is there.                                *)
GuestExit(r) ==
    /\ GuestAt(r, "exit")
    /\ task' = 0
    /\ GuestGoto(r, "unused")
    /\ cancelled' = [cancelled EXCEPT ![r] = FALSE]
    /\ UNCHANGED <<db, env, pc, handle, mon, paused>>

(* What the workflow chooses to do next, ...                               *)
GuestChooses(r) ==
    \/ GuestHeartbeat(r) \/ GuestCheckpoint(r) \/ GuestDurableSleep(r)
    \/ GuestRetry(r) \/ GuestPoll(r) \/ GuestReadsSignal(r)
    \/ GuestBreakpoint(r)
    \/ \E s \in {"completed", "failed"} : GuestReports(r, s)
    \/ GuestSuspends(r)

(* ... and what the host does for it once that is chosen.                  *)
HostWorks(r) ==
    \/ GuestStart(r) \/ GuestSave(r) \/ GuestAck(r) \/ GuestApplyCancel(r)
    \/ GuestApplyPause(r) \/ GuestApplyShutdown(r) \/ GuestShutdownSleep(r)
    \/ GuestSuspendedEvent(r) \/ GuestPark(r) \/ GuestParkSleep(r)
    \/ GuestExit(r)

GuestStep(r) == GuestChooses(r) \/ HostWorks(r) \/ GuestDies(r)
=============================================================================
