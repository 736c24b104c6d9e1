--------------------------- MODULE TriggerStream ---------------------------
(***************************************************************************)
(* The trigger stream of a tenant in Valkey, the trigger workers that read *)
(* it through one consumer group, and the instances in the Environment.    *)
(* An event carries the id of the instance it starts, so an event stands   *)
(* for its instance too.  All events are for one workflow.                 *)
(***************************************************************************)
EXTENDS Integers, Sequences, FiniteSets, SequencesExt

CONSTANTS
    Events,          \* trigger events, each with its instance id
    Triggered,       \* those with a trigger_id; the others come from the API
    SingleInstance,  \* the trigger's single_instance
    Workers,         \* trigger workers, each in a server process
    MaxRetries,      \* max_retries
    MaxFaults,       \* bound: how often something fails
    Hazards          \* what may fail: "crash", "transient", "slow"

None == "none"

ASSUME TriggerAssumption ==
    /\ IsFiniteSet(Events) /\ Triggered \subseteq Events
    /\ SingleInstance \in BOOLEAN
    /\ MaxRetries \in Nat /\ MaxFaults \in Nat
    /\ None \notin Events \cup Workers

VARIABLES
    backlog,   \* entries after the group's last-delivered id
    pel,       \* entry -> how often it was delivered; 0 when not in the PEL
    idle,      \* PEL entries idle for at least pending_retry_delay_ms
    outcome,   \* why an event was acknowledged; None while it is not
    worker,    \* the loop of a trigger worker
    starting,  \* a worker's starting_workflows holds the workflow
    timers,    \* a worker's tasks that will take it out, by event
    instance,  \* how far the Environment has come with an instance
    launches,  \* history: how often an event's instance was launched
    fired,     \* history: how often trigger.fired was emitted for an event
    faults     \* history: how often something has failed

(* bound: a delivery is counted up to the limit it is compared with, and   *)
(* the first one is, whatever the limit: a counted entry is in the PEL.    *)
CountCap == IF MaxRetries = 0 THEN 1 ELSE MaxRetries

stream == <<backlog, pel, idle, outcome>>
engine == <<starting, timers>>
history == <<fired, faults>>
vars == <<stream, worker, engine, instance, launches, history>>

Loop(l) == [pc |-> l, batch |-> <<>>, next |-> l, result |-> None]

Init ==
    /\ backlog = <<>>
    /\ pel = [e \in Events |-> 0]
    /\ idle = {}
    /\ outcome = [e \in Events |-> None]
    /\ worker = [w \in Workers |-> Loop("claim")]
    /\ starting = [w \in Workers |-> FALSE]
    /\ timers = [w \in Workers |-> {}]
    /\ instance = [e \in Events |-> None]
    /\ launches = [e \in Events |-> 0]
    /\ fired = [e \in Events |-> 0]
    /\ faults = 0

Fails(hazard) ==
    /\ hazard \in Hazards /\ faults < MaxFaults
    /\ faults' = faults + 1

(***************************************************************************)
(* publish: XADD                                                           *)
(***************************************************************************)
Published(e) ==
    outcome[e] # None \/ pel[e] > 0 \/ Contains(backlog, e)

Publish(e) ==
    /\ ~Published(e)
    /\ backlog' = Append(backlog, e)
    /\ UNCHANGED <<pel, idle, outcome, worker, engine, instance, launches,
                   history>>

(* An unacknowledged entry grows idle.  While a live worker holds it, that *)
(* means that its batch takes longer than the retry delay.                 *)
Held(e) == \E w \in Workers : Contains(worker[w].batch, e)

GrowIdle(e) ==
    /\ pel[e] > 0 /\ e \notin idle
    /\ IF Held(e) THEN Fails("slow") ELSE UNCHANGED faults
    /\ idle' = idle \cup {e}
    /\ UNCHANGED <<backlog, pel, outcome, worker, engine, instance, launches,
                   fired>>
=============================================================================
