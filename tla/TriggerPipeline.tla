-------------------------- MODULE TriggerPipeline --------------------------
(***************************************************************************)
(* The trigger pipeline: publishers, the stream, the trigger workers and   *)
(* the Environment's start requests.                                       *)
(***************************************************************************)
EXTENDS TriggerWorker

Next ==
    \/ \E e \in Events : Publish(e) \/ GrowIdle(e)
    \/ \E w \in Workers :
         \/ WorkerStep(w)
         \/ \E e \in Events : StartingExpires(w, e)
         \/ Crash(w)

Spec == Init /\ [][Next]_vars

(* The workers' loops go on and an entry nobody acknowledges grows idle.   *)
(* Nothing has to be published or compiled, no instance has to end.        *)
FairSpec ==
    /\ Spec
    /\ \A w \in Workers : WF_vars(WorkerStep(w))
    /\ \A e \in Events : WF_vars(GrowIdle(e))

(***************************************************************************)
(* Properties                                                              *)
(***************************************************************************)
Results == {"started", "skipped", "failed", "deduplicated", "retry",
            "exhausted"}

Outcomes == Results \ {"retry"}

StartPCs == {"compiled", "check", "insert", "associate", "launch"}

PCs == {"claim", "read", "event", "result", "count", "ack"} \cup StartPCs

Loops == [pc : PCs, batch : Seq(Events), next : {"claim", "read"},
          result : Results \cup {None}]

StreamTyped ==
    /\ backlog \in Seq(Events)
    /\ pel \in [Events -> 0 .. CountCap]
    /\ idle \in SUBSET Events
    /\ outcome \in [Events -> Outcomes \cup {None}]

WorkersTyped ==
    /\ worker \in [Workers -> Loops]
    /\ \A w \in Workers :
         worker[w].pc \notin {"claim", "read"} => worker[w].batch # <<>>
    /\ starting \in [Workers -> BOOLEAN]
    /\ timers \in [Workers -> SUBSET Events]

HistoryTyped ==
    /\ instance \in [Events -> {None, "row", "pending", "launched",
                                "failed"}]
    /\ launches \in [Events -> Nat]
    /\ fired \in [Events -> Nat]
    /\ faults \in 0 .. MaxFaults

(* Every variable has the type its comment gives; a worker that processes  *)
(* an event has one.                                                       *)
TypeOK == StreamTyped /\ WorkersTyped /\ HistoryTyped

(* However often an event is delivered, to however many workers, its       *)
(* instance is launched at most once.                                      *)
LaunchedOnce == \A e \in Events : launches[e] <= 1

(* When nothing fails, trigger.fired is emitted exactly once for an event  *)
(* with a trigger, and before the event is acknowledged.                   *)
FiredOnce ==
    faults = 0 =>
        \A e \in Triggered : /\ fired[e] <= 1
                             /\ outcome[e] # None => fired[e] = 1

(* Published and not acknowledged.                                         *)
Open == {e \in Events : Published(e) /\ outcome[e] = None}

Contract == INSTANCE TriggerContract
              WITH Verdicts <- Outcomes,
                   open <- Open,
                   verdict <- outcome,
                   taken <- {e \in Events : instance[e] # None},
                   starts <- launches

(* The pipeline keeps the contract of TriggerContract: each published      *)
(* event is settled in the end, launched at most once, and acknowledged as *)
(* started or replayed only if its instance id has been taken.             *)
KeepsContract == Contract!FairSpec
=============================================================================
