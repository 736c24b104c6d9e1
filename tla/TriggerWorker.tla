--------------------------- MODULE TriggerWorker ---------------------------
(***************************************************************************)
(* The trigger worker: it claims idle entries, then reads new ones, and    *)
(* processes each batch event by event.  A step is one Valkey command or   *)
(* one statement with the local code around it.                            *)
(***************************************************************************)
EXTENDS TriggerStream

At(w, l) == worker[w].pc = l

Current(w) == Head(worker[w].batch)

Goto(w, l) == worker' = [worker EXCEPT ![w].pc = l]

Result(w, r) == worker' = [worker EXCEPT ![w].pc = "result", ![w].result = r]

NextEvent(w) ==
    LET rest == Tail(worker[w].batch) IN
    worker' = [worker EXCEPT
                 ![w] = IF rest = <<>> THEN Loop(@.next)
                        ELSE [@ EXCEPT !.pc = "event", !.batch = rest,
                                       !.result = None]]

(* A delivery: the loop goes on with the other phase after the batch.      *)
Deliver(w, batch, other) ==
    /\ worker' = [worker EXCEPT
                    ![w] = IF batch = <<>> THEN Loop(other)
                           ELSE [pc |-> "event", batch |-> batch,
                                 next |-> other, result |-> None]]
    /\ pel' = [e \in Events |->
                 IF Contains(batch, e) /\ pel[e] < CountCap THEN pel[e] + 1
                                                           ELSE pel[e]]
    /\ idle' = {e \in idle : ~Contains(batch, e)}
    /\ UNCHANGED <<outcome, engine, instance, launches, history>>

(* XAUTOCLAIM of every idle entry; the order of the stream is not kept.    *)
ClaimPending(w) ==
    /\ At(w, "claim")
    /\ \E batch \in SetToSeqs(idle) : Deliver(w, batch, "read")
    /\ UNCHANGED backlog

(* XREADGROUP with ">".                                                    *)
ReadNew(w) ==
    /\ At(w, "read")
    /\ Deliver(w, backlog, "claim")
    /\ backlog' = <<>>

(***************************************************************************)
(* process_trigger_event                                                   *)
(***************************************************************************)
(* A launched instance may be running, suspended or ended (Lifecycle).     *)
MayHaveRunningInstance(w) ==
    starting[w] \/ \E e \in Events : instance[e] = "launched"

Constrained(e) == SingleInstance /\ e \in Triggered

CheckSingleInstance(w) ==
    /\ At(w, "event")
    /\ \/ /\ Constrained(Current(w)) /\ MayHaveRunningInstance(w)
          /\ Result(w, "skipped")
          /\ UNCHANGED faults
       \/ /\ Constrained(Current(w)) => ~starting[w]
          /\ Goto(w, "compiled")
          /\ UNCHANGED faults
       \/ /\ Constrained(Current(w)) /\ starting[w]
          /\ Fails("transient")
          /\ Goto(w, "compiled")
    /\ UNCHANGED <<stream, engine, instance, launches, fired>>

(* execute_detached marks the workflow as starting, and has the mark taken *)
(* away a second after execute_detached_inner has returned.                *)
Returns(w, r) ==
    /\ Result(w, r)
    /\ timers' = [timers EXCEPT ![w] = @ \cup {Current(w)}]

(* Whether the workflow is compiled can change at any time (Compilation):  *)
(* it is, it will be (NotCompiled), or it will never be.                   *)
EnsureCompiled(w) ==
    /\ At(w, "compiled")
    /\ starting' = [starting EXCEPT ![w] = TRUE]
    /\ \/ Goto(w, "check") /\ UNCHANGED timers
       \/ Returns(w, "retry")
       \/ Returns(w, "failed")
    /\ UNCHANGED <<stream, instance, launches, history>>

StartingExpires(w, e) ==
    /\ e \in timers[w]
    /\ timers' = [timers EXCEPT ![w] = @ \ {e}]
    /\ starting' = [starting EXCEPT ![w] = FALSE]
    /\ UNCHANGED <<stream, worker, instance, launches, history>>

(***************************************************************************)
(* handle_start_instance, in the Environment of the same process           *)
(***************************************************************************)

(* existing_start_response: a row without an image is not proof of an      *)
(* accepted start, and neither is one with another image than the request, *)
(* for a workflow that was built again meanwhile (Compilation).            *)
ExistingStartResponse(e) ==
    {"failed"} \cup (IF instance[e] = "row" THEN {} ELSE {"deduplicated"})

(* Or the image or its artifact is gone (Compilation), which reads as      *)
(* NotCompiled.                                                            *)
CheckExisting(w) ==
    /\ At(w, "check")
    /\ \/ IF instance[Current(w)] # None
            THEN \E r \in ExistingStartResponse(Current(w)) : Returns(w, r)
            ELSE Goto(w, "insert") /\ UNCHANGED timers
       \/ Returns(w, "retry")
    /\ UNCHANGED <<stream, starting, instance, launches, history>>

(* Mutant: the insert overwrites the row of another request.               *)
RegisterOverwrites(w) ==
    /\ At(w, "insert")
    /\ instance' = [instance EXCEPT ![Current(w)] = "row"]
    /\ Goto(w, "associate")
    /\ UNCHANGED <<stream, engine, launches, history>>

RegisterInstance(w) ==
    /\ At(w, "insert")
    /\ IF instance[Current(w)] # None
         THEN /\ \E r \in ExistingStartResponse(Current(w)) : Returns(w, r)
              /\ UNCHANGED instance
         ELSE /\ instance' = [instance EXCEPT ![Current(w)] = "row"]
              /\ Goto(w, "associate")
              /\ UNCHANGED timers
    /\ UNCHANGED <<stream, starting, launches, history>>

AssociateImage(w) ==
    /\ At(w, "associate")
    /\ \/ /\ instance' = [instance EXCEPT ![Current(w)] = "pending"]
          /\ Goto(w, "launch")
          /\ UNCHANGED <<timers, faults>>
       \/ Fails("transient") /\ Returns(w, "failed") /\ UNCHANGED instance
    /\ UNCHANGED <<stream, starting, launches, fired>>

(* The launch fails, or its answer is lost on the way to the worker.       *)
LaunchDetached(w) ==
    /\ At(w, "launch")
    /\ \/ /\ Returns(w, "started")
          /\ instance' = [instance EXCEPT ![Current(w)] = "launched"]
          /\ launches' = [launches EXCEPT ![Current(w)] = @ + 1]
          /\ UNCHANGED faults
       \/ /\ Fails("transient") /\ Returns(w, "failed")
          /\ \/ /\ instance' = [instance EXCEPT ![Current(w)] = "launched"]
                /\ launches' = [launches EXCEPT ![Current(w)] = @ + 1]
             \/ /\ instance' = [instance EXCEPT ![Current(w)] = "failed"]
                /\ UNCHANGED launches
    /\ UNCHANGED <<stream, starting, fired>>

(***************************************************************************)
(* process_event: what becomes of the entry                                *)
(***************************************************************************)
EmitFired(e) ==
    fired' = IF e \in Triggered THEN [fired EXCEPT ![e] = @ + 1] ELSE fired

(* Mutant: a result that is to be retried is acknowledged.                 *)
AcknowledgeRetries(w) ==
    /\ At(w, "result")
    /\ IF worker[w].result \in {"started", "skipped", "failed"}
         THEN EmitFired(Current(w)) ELSE UNCHANGED fired
    /\ Goto(w, "ack")
    /\ UNCHANGED <<stream, engine, instance, launches, faults>>

(* Mutant: every delivery is reported as a firing.                         *)
FireRetries(w) ==
    /\ At(w, "result")
    /\ EmitFired(Current(w))
    /\ Goto(w, IF worker[w].result = "retry" THEN "count" ELSE "ack")
    /\ UNCHANGED <<stream, engine, instance, launches, faults>>

HandleResult(w) ==
    /\ At(w, "result")
    /\ IF worker[w].result \in {"started", "skipped", "failed"}
         THEN EmitFired(Current(w)) ELSE UNCHANGED fired
    /\ Goto(w, IF worker[w].result = "retry" THEN "count" ELSE "ack")
    /\ UNCHANGED <<stream, engine, instance, launches, faults>>

(* Mutant: no limit.                                                       *)
GiveUpNever(count) == count > MaxRetries

(* get_delivery_count: 0 for an entry that is no longer pending, 1 when    *)
(* XPENDING fails.                                                         *)
GiveUp(count) == count >= MaxRetries

HandleRetry(w) ==
    /\ At(w, "count")
    /\ \E count \in 0 .. CountCap :
         /\ \/ count = pel[Current(w)] /\ UNCHANGED faults
            \/ count = 1 /\ Fails("transient")
         /\ IF GiveUp(count)
              THEN /\ EmitFired(Current(w))
                   /\ worker' = [worker EXCEPT ![w].pc = "ack",
                                               ![w].result = "exhausted"]
              ELSE NextEvent(w) /\ UNCHANGED fired
    /\ UNCHANGED <<stream, engine, instance, launches>>

(* XACK; an error is logged.                                               *)
Acknowledge(w) ==
    /\ At(w, "ack")
    /\ LET e == Current(w) IN
       \/ /\ outcome' = IF pel[e] > 0
                          THEN [outcome EXCEPT ![e] = worker[w].result]
                          ELSE outcome
          /\ pel' = [pel EXCEPT ![e] = 0]
          /\ idle' = idle \ {e}
          /\ UNCHANGED faults
       \/ Fails("transient") /\ UNCHANGED <<outcome, pel, idle>>
    /\ NextEvent(w)
    /\ UNCHANGED <<backlog, engine, instance, launches, fired>>

WorkerStep(w) ==
    \/ ClaimPending(w) \/ ReadNew(w) \/ CheckSingleInstance(w)
    \/ EnsureCompiled(w) \/ CheckExisting(w) \/ RegisterInstance(w)
    \/ AssociateImage(w) \/ LaunchDetached(w) \/ HandleResult(w)
    \/ HandleRetry(w) \/ Acknowledge(w)

(* The server process ends and is started again.                           *)
Crash(w) ==
    /\ Fails("crash")
    /\ worker' = [worker EXCEPT ![w] = Loop("claim")]
    /\ starting' = [starting EXCEPT ![w] = FALSE]
    /\ timers' = [timers EXCEPT ![w] = {}]
    /\ UNCHANGED <<stream, instance, launches, fired>>
=============================================================================
