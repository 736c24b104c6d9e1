----------------------------- MODULE Lifecycle -----------------------------
(***************************************************************************)
(* The environment as a whole: management requests, guest runs, container  *)
(* monitors, wake scheduler, heartbeat monitor, drain, crash and restart,  *)
(* interleaved over one instance's tables.                                 *)
(***************************************************************************)
EXTENDS ManagementRequests, GuestRun, ContainerMonitor, WakeScheduler,
        HeartbeatMonitor, DrainRestart

(* A sleep deadline passes.                                                *)
DeadlinePasses ==
    /\ row.sleep = "later"
    /\ row' = SetInstanceSleep(row, "due")
    /\ UNCHANGED <<mail, progress, entry, env, pc, handle, runner, mon,
                   paused>>

(* No request, scan or background write is between two statements.         *)
Settled ==
    /\ phase = "up"
    /\ \A a \in Actors : pc[a] = "idle"
    /\ \A r \in Slots : mon[r] \in {"none", "wait"}
    /\ \A r \in Slots : guest[r] \in {"unused", "exec"}

(* A whole heartbeat timeout (two minutes by default) passes without an    *)
(* event.  No handler takes that long between two statements, so it only   *)
(* happens when all of them are at rest.                                   *)
HeartbeatElapses ==
    /\ "elapse" \in Hazards
    /\ Settled
    /\ row.status # "absent"
    /\ row' = [row EXCEPT !.startedOld = TRUE]
    /\ lastEvent' = IF lastEvent = "none" THEN "none" ELSE "old"
    /\ entryOld' = registry
    /\ <<row, lastEvent, entryOld>>' # <<row, lastEvent, entryOld>>
    /\ UNCHANGED <<mail, ckpts, registry, env, pc, handle, runner, mon,
                   paused>>

Next ==
    \/ \E c \in Clients : ClientStep(c)
    \/ \E r \in Slots : GuestStep(r)
    \/ \E r \in Slots : MonitorStep(r)
    \/ WakerStep
    \/ HeartbeatStep
    \/ DrainStep
    \/ Crash
    \/ BootStep
    \/ DeadlinePasses
    \/ HeartbeatElapses

Spec == Init /\ [][Next]_vars

(* Fairness of the tasks the process runs: a request that has begun, a     *)
(* host call, a monitor, the wake scheduler, the heartbeat monitor and the *)
(* boot sequence go on; a supervisor restarts the process; time passes; a  *)
(* launch that is tried again and again succeeds in the end.               *)
(* Nothing obliges a client to ask, a workflow to act, or a fault to       *)
(* happen.                                                                 *)
ClientWorks(c) == pc[c] # "idle" /\ ClientStep(c)

CancelTakesEffect(r) == cancelled[r] /\ GuestDies(r)

Fairness ==
    /\ \A c \in Clients : WF_vars(ClientWorks(c))
    /\ \A r \in Slots : WF_vars(HostWorks(r)) /\ WF_vars(CancelTakesEffect(r))
    /\ \A r \in Slots : WF_vars(MonitorStep(r))
    /\ WF_vars(WakerStep) /\ WF_vars(HeartbeatStep) /\ WF_vars(BootStep)
    /\ WF_vars(DeadlinePasses) /\ SF_vars(HeartbeatElapses)
    /\ SF_vars(WakeLaunch)

FairSpec == Spec /\ Fairness

(***************************************************************************)
(* Properties                                                              *)
(***************************************************************************)

Rows == [status : Statuses, term : Reasons, sleep : Sleeps,
         finished : BOOLEAN, startedOld : BOOLEAN,
         attempts : 0 .. MaxAutoRestarts,
         marker : {NoMarker} \cup 0 .. MaxCheckpoints]

PCs == ClientPCs \cup WakerPCs \cup HeartbeatPCs \cup DrainerPCs

(* Every variable has the type its comment gives; in particular no row has *)
(* more recovery attempts than RUNTARA_MAX_AUTO_RESTARTS.                  *)
TypeOK ==
    /\ row \in Rows
    /\ signal \in {"none", "cancel", "pause", "unpause", "shutdown"}
    /\ custom \in BOOLEAN
    /\ ckpts \in 0 .. MaxCheckpoints
    /\ registry \in BOOLEAN /\ entryOld \in BOOLEAN
    /\ lastEvent \in {"none", "recent", "old"}
    /\ phase \in {"down", "boot", "cleanup", "up"}
    /\ draining \in BOOLEAN
    /\ pc \in [Actors -> PCs]
    /\ handle \in [Launchers -> Slots \cup {0}]
    /\ task \in Slots \cup {0}
    /\ guest \in [Slots -> GuestPCs]
    /\ cancelled \in [Slots -> BOOLEAN]
    /\ mon \in [Slots -> MonitorPCs]
    /\ orphan \in BOOLEAN /\ counted \in 0 .. MaxCheckpoints
    /\ paused \in BOOLEAN

(* Two guests never execute steps of the same instance at the same time    *)
(* (the claim in wake_instance is there for this).                         *)
OneGuest ==
    \A q, r \in Slots : Executing(q) /\ Executing(r) => q = r

(* A launcher about to register its run holds the run's handle.            *)
HandlesHeld ==
    \A a \in Launchers :
        pc[a] \in {"start.register", "start.running", "resume.register",
                  "wake.register"} => handle[a] \in Slots

(* While the process is up, a container registry entry has an owner that   *)
(* will delete it: a monitor, or a start request about to spawn one.  Stop *)
(* and drain act on the registry, so a leaked entry would make them act on *)
(* an instance nobody runs.                                                *)
RegistryOwned ==
    phase = "up" /\ registry =>
        \/ \E r \in Slots : mon[r] # "none"
        \/ \E c \in Clients : pc[c] = "start.running"

(* A start request has launched its guest and not yet set the row running. *)
StartInFlight ==
    \E c \in Clients : pc[c] \in {"start.register", "start.running"}

(* Once the start request is over, nothing moves an instance out of        *)
(* completed: neither a relaunch nor a monitor, a park, a drain, a crash   *)
(* or the recovery after it.  (The request itself may: it sets the row to  *)
(* running after the launch, whatever the guest has reported by then.)     *)
CompletedIsFinal ==
    [][row.status = "completed" /\ ~StartInFlight
       => row'.status = "completed"]_vars

(* Nobody schedules a wake for an instance its operator paused: it stays   *)
(* suspended until a resume request.                                       *)
PauseHolds ==
    [][paused /\ row.status = "suspended" /\ row'.status = "suspended"
       /\ row.sleep = "none" => row'.sleep = "none"]_vars

(* Someone is on the way to relaunching, parking or stopping the instance. *)
InCharge ==
    \/ \E r \in Slots : Live(r)
    \/ pc["waker"] # "idle"
    \/ \E c \in Clients : pc[c] # "idle"
    \/ \E r \in Slots : mon[r] = "sleep"
    \/ pc["drainer"] = "drain.sleep"

(* A suspended instance that is neither paused nor waiting for a signal    *)
(* has a wake time, or someone at work on it: it is not suspended forever. *)
(* (Not so when the process ends between the two statements of a suspend.) *)
NeverStranded ==
    /\ row.status = "suspended" /\ ~paused
    /\ row.term \in {"sleeping", "shutdown_requested", "environment_restart"}
    => row.sleep # "none" \/ InCharge

(* A monitor that finds its own run gone leaves the state of a newer run   *)
(* alone (detect_stale_monitor).                                           *)
OldMonitorIsHarmless ==
    [][\A r \in Slots :
         MonitorWrite(r) /\ row' # row => \A q \in Slots : ~Executing(q)]_vars

Up == phase = "up" /\ ~draining

(* As long as the process stays up from then on, a sleeping instance whose *)
(* time has come is run again (wake_scheduler).                            *)
DueIsWoken == [](DueForWake(row) /\ []Up => <>(row.status # "suspended"))

(* The row says running and no guest runs.                                 *)
Zombie == row.status = "running" /\ \A r \in Slots : ~Live(r)

(* A row that says running although no guest runs is put right: by the     *)
(* monitor, by the boot recovery or, at the latest, by the orphan scan.    *)
ZombieIsRepaired == <>[]Up => (Zombie ~> ~Zombie)
=============================================================================
