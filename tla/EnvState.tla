------------------------------ MODULE EnvState ------------------------------
(***************************************************************************)
(* The life of one workflow instance under one Environment process: the    *)
(* management requests, the embedded runner with its guests, the container *)
(* monitors, the wake scheduler, the heartbeat monitor, the graceful       *)
(* drain, crashes of the process and the recovery at its next start.       *)
(*                                                                         *)
(* Instances share no state but the tables' rows, and every statement      *)
(* names one instance, so one instance is modelled.  A step is one         *)
(* database statement, or one access to the runner's task map, together    *)
(* with the local code around it: everything between two awaits.           *)
(*                                                                         *)
(* Durable state survives a crash: the row, the pending lifecycle signal,  *)
(* the custom signal, the checkpoints, the container registry entry and    *)
(* the time of the last event.  All the rest is process memory.            *)
(***************************************************************************)
EXTENDS RecoveryPolicy, FiniteSets

CONSTANTS
    Clients,          \* connections that issue management requests
    Slots,            \* bound: guest runs (with their monitors) at a time
    Commands,         \* the requests the clients use ("debug": debug mode)
    Hazards,          \* what may go wrong in this instance of the model
    MaxCheckpoints,   \* bound: rows of the checkpoints table
    MaxAutoRestarts,  \* RUNTARA_MAX_AUTO_RESTARTS
    AutoRecover       \* RUNTARA_AUTO_RECOVER

AllCommands == {"start", "resume", "stop", "cancel", "pause", "unpause",
                "custom", "debug"}

AllHazards == {"crash", "drain", "elapse", "timeout", "launch_error",
               "load_error", "trap", "retry"}

ASSUME ConstantsAssumption ==
    /\ Slots \subseteq Nat \ {0}
    /\ IsFiniteSet(Clients) /\ IsFiniteSet(Slots)
    /\ Commands \subseteq AllCommands /\ Hazards \subseteq AllHazards
    /\ MaxCheckpoints \in Nat
    /\ MaxAutoRestarts \in Nat \ {0} /\ AutoRecover \in BOOLEAN
    /\ Clients \cap {"waker", "heartbeat", "drainer"} = {}

VARIABLES
    row,        \* the instance's row in Core's instances table
    signal,     \* pending_signals: the one unacknowledged signal, or "none"
    custom,     \* the signal for the wait the workflow has got to is stored
    ckpts,      \* rows of the checkpoints table, retry attempts included
    registry,   \* container_registry has an entry for the instance
    entryOld,   \* that entry's started_at lies before the heartbeat cutoff
    lastEvent,  \* newest instance_events row: "none", "recent" or "old"
    phase,      \* the process: "down", "boot", "cleanup", "up"
    draining,   \* the DrainController's flag
    pc,         \* where each client, the waker, heartbeat and drainer are
    handle,     \* the RunnerHandle (its slot) a launcher holds, 0 if none
    task,       \* the runner's task map: slot of the instance's task, or 0
    guest,      \* where each guest run is
    cancelled,  \* cancel flag of each guest run's task
    mon,        \* where each run's container monitor is
    orphan,     \* the heartbeat scan listed the instance as orphaned
    counted,    \* the checkpoints its recovery counted
    paused      \* history: the latest suspend was a pause or a breakpoint

mail == <<signal, custom>>
progress == <<ckpts, lastEvent>>
entry == <<registry, entryOld>>
db == <<row, mail, progress, entry>>
env == <<phase, draining, orphan, counted>>
runner == <<task, guest, cancelled>>
vars == <<db, env, pc, handle, runner, mon, paused>>

Launchers == Clients \cup {"waker"}
Actors == Launchers \cup {"heartbeat", "drainer"}

ClientPCs == {"idle", "start.insert", "start.launch", "start.register",
              "start.running", "resume.cleanup", "resume.running",
              "resume.clear", "resume.launch", "resume.register",
              "stop.kill", "stop.complete", "stop.cleanup",
              "send.cancel", "send.pause", "send.unpause",
              "custom.wake", "custom.stamp"}
WakerPCs == {"idle", "wake.claim", "wake.launch", "wake.restore",
             "wake.register"}
HeartbeatPCs == {"idle", "hb.list", "hb.tracked", "hb.tracked.stale",
                 "hb.stop", "hb.fail", "hb.cleanup", "hb.count",
                 "hb.recover"}
DrainerPCs == {"idle", "drain.list", "drain.signal", "drain.wait",
               "drain.stop", "drain.suspend", "drain.sleep", "drain.done"}
GuestPCs == {"unused", "spawned", "exec", "save",
             "cancel.ack", "cancel.apply",
             "pause.ack", "pause.apply", "pause.event",
             "shutdown.ack", "shutdown.apply", "shutdown.sleep",
             "shutdown.event",
             "park.at", "park.signal", "park.deadline", "park.sleep",
             "exit"}
MonitorPCs == {"none", "wait", "check", "write", "sleep", "expire",
               "cleanup"}

(* A run whose guest code may still execute a step of the workflow.        *)
Executing(r) == guest[r] \in {"exec", "save"}

Live(r) == guest[r] # "unused"

(***************************************************************************)
(* Bookkeeping shared by the actions.                                      *)
(***************************************************************************)
Idle(a) == phase = "up" /\ pc[a] = "idle"

At(a, loc) == phase = "up" /\ pc[a] = loc

Goto(a, loc) == pc' = [pc EXCEPT ![a] = loc]

GuestAt(r, loc) == phase = "up" /\ guest[r] = loc

GuestGoto(r, loc) == guest' = [guest EXCEPT ![r] = loc]

MonAt(r, loc) == phase = "up" /\ mon[r] = loc

MonGoto(r, loc) == mon' = [mon EXCEPT ![r] = loc]

(* A slot is free when its guest has ended, its monitor too, and no        *)
(* launcher still holds the handle.  Launches take the lowest free slot.   *)
Free(r) ==
    /\ guest[r] = "unused"
    /\ mon[r] = "none"
    /\ \A a \in Launchers : handle[a] # r

NextSlot(r) == Free(r) /\ \A q \in Slots : q < r => ~Free(q)

Init ==
    /\ row = AbsentRow
    /\ signal = "none"
    /\ custom = FALSE
    /\ ckpts = 0
    /\ registry = FALSE
    /\ entryOld = FALSE
    /\ lastEvent = "none"
    /\ phase = "up"
    /\ draining = FALSE
    /\ pc = [a \in Actors |-> "idle"]
    /\ handle = [a \in Launchers |-> 0]
    /\ task = 0
    /\ guest = [r \in Slots |-> "unused"]
    /\ cancelled = [r \in Slots |-> FALSE]
    /\ mon = [r \in Slots |-> "none"]
    /\ orphan = FALSE
    /\ counted = 0
    /\ paused = FALSE

(***************************************************************************)
(* The embedded runner: launch_detached and stop, used by several actors.  *)
(***************************************************************************)

(* launch_detached: insert a task under the instance's id (replacing any   *)
(* task already there) and spawn the guest.                                *)
LaunchDetached(a, next) ==
    \E r \in Slots :
        /\ NextSlot(r)
        /\ task' = r
        /\ GuestGoto(r, "spawned")
        /\ cancelled' = [cancelled EXCEPT ![r] = FALSE]
        /\ handle' = [handle EXCEPT ![a] = r]
        /\ Goto(a, next)

(* stop: set the cancel flag of whatever task the map holds.               *)
RunnerStop == cancelled' = [r \in Slots |-> cancelled[r] \/ r = task]

(* ContainerRegistry::register, an upsert keyed by the instance.           *)
RegisterContainer == registry' = TRUE /\ entryOld' = FALSE

(* ContainerRegistry::cleanup, a delete keyed by the instance.             *)
CleanupContainer == registry' = FALSE /\ entryOld' = FALSE

(* spawn_container_monitor for the handle a launcher holds.                *)
SpawnMonitor(a) ==
    /\ MonGoto(handle[a], "wait")
    /\ handle' = [handle EXCEPT ![a] = 0]
=============================================================================
