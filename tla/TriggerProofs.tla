--------------------------- MODULE TriggerProofs ---------------------------
(***************************************************************************)
(* The trigger pipeline implements the safety part of TriggerContract, for *)
(* any finite set of events and any number of workers, faults and retries. *)
(***************************************************************************)
EXTENDS TriggerPipeline, FiniteSetTheorems, TLAPS

(* An entry is before the group's last-delivered id, pending, or settled.  *)
StreamInv ==
    \A e \in Events :
        /\ e \in idle => pel[e] > 0
        /\ pel[e] > 0 => outcome[e] = None /\ ~Contains(backlog, e)
        /\ Contains(backlog, e) => outcome[e] = None

(* A worker has read what it processes from the stream, has the instance   *)
(* it starts in the state its last step left it in, and acknowledges only  *)
(* what its result allows.                                                 *)
WorkerInv(w) ==
    /\ \A e \in Events : Contains(worker[w].batch, e) => Published(e)
    /\ worker[w].pc = "associate" => instance[Current(w)] = "row"
    /\ worker[w].pc = "launch" => instance[Current(w)] = "pending"
    /\ worker[w].pc \in {"result", "ack"} =>
         /\ worker[w].result = "started" => instance[Current(w)] = "launched"
         /\ worker[w].result = "deduplicated" => instance[Current(w)] # None
    /\ worker[w].pc = "result" => worker[w].result \in Results
    /\ worker[w].pc = "ack" => worker[w].result \in Outcomes

Owns(w) == worker[w].pc \in {"associate", "launch"}

(* Only the worker that inserted the row goes on to launch the instance.   *)
OneOwner ==
    \A w, x \in Workers :
        w # x /\ Owns(w) /\ Owns(x) => Current(w) # Current(x)

LaunchCount ==
    \A e \in Events : launches[e] = IF instance[e] = "launched" THEN 1 ELSE 0

Inv ==
    /\ TypeOK /\ StreamInv /\ OneOwner /\ LaunchCount
    /\ \A w \in Workers : WorkerInv(w)

(***************************************************************************)
(* What a step does to its worker                                          *)
(***************************************************************************)
OthersStay(w) == \A x \in Workers : x # w => worker'[x] = worker[x]

(* A worker that processes an event has an event.                          *)
LEMMA CurrentType ==
    ASSUME WorkersTyped, NEW w \in Workers,
           worker[w].pc \notin {"claim", "read"}
    PROVE  /\ Current(w) \in Events /\ Current(w) = worker[w].batch[1]
           /\ 1 \in 1 .. Len(worker[w].batch)
<1>1. worker[w].batch \in Seq(Events) /\ worker[w].batch # <<>>
  BY DEF WorkersTyped, Loops
<1> QED BY <1>1 DEF Current

(* A new location leaves the rest of the loop as it is.                    *)
LEMMA GotoDoes ==
    ASSUME WorkersTyped, NEW w \in Workers, NEW l \in PCs \ {"claim", "read"},
           worker[w].pc \notin {"claim", "read"}, Goto(w, l)
    PROVE  /\ worker' \in [Workers -> Loops] /\ OthersStay(w)
           /\ worker'[w].pc = l /\ worker'[w].batch = worker[w].batch
           /\ worker'[w].result = worker[w].result
           /\ \A x \in Workers : worker'[x].pc \notin {"claim", "read"} =>
                                   worker'[x].batch # <<>>
BY DEF WorkersTyped, Loops, Goto, OthersStay

(* So does a result.                                                       *)
LEMMA ResultDoes ==
    ASSUME WorkersTyped, NEW w \in Workers, NEW r \in Results,
           worker[w].pc \notin {"claim", "read"}, Result(w, r)
    PROVE  /\ worker' \in [Workers -> Loops] /\ OthersStay(w)
           /\ worker'[w].pc = "result" /\ worker'[w].batch = worker[w].batch
           /\ worker'[w].result = r
           /\ \A x \in Workers : worker'[x].pc \notin {"claim", "read"} =>
                                   worker'[x].batch # <<>>
<1>1. "result" \in PCs
  BY DEF PCs
<1> QED BY <1>1 DEF WorkersTyped, Loops, Result, OthersStay

(* An empty loop is well typed.                                            *)
LEMMA LoopType ==
    ASSUME NEW l \in {"claim", "read"}
    PROVE  /\ Loop(l) \in Loops /\ Loop(l).pc = l /\ Loop(l).batch = <<>>
           /\ Loop(l).result = None
BY DEF Loop, Loops, PCs

(* The next event is one of the batch, or the loop goes round.             *)
LEMMA NextEventDoes ==
    ASSUME WorkersTyped, NEW w \in Workers,
           worker[w].pc \notin {"claim", "read"}, NextEvent(w)
    PROVE  /\ worker' \in [Workers -> Loops] /\ OthersStay(w)
           /\ worker'[w].pc \in {"event", "claim", "read"}
           /\ \A e : Contains(worker'[w].batch, e) =>
                      Contains(worker[w].batch, e)
           /\ \A x \in Workers : worker'[x].pc \notin {"claim", "read"} =>
                                   worker'[x].batch # <<>>
<1> DEFINE b == worker[w].batch
           rest == Tail(b)
<1>1. /\ b \in Seq(Events) /\ b # <<>> /\ worker[w].next \in {"claim", "read"}
      /\ worker[w] \in Loops
  BY DEF WorkersTyped, Loops
<1>2. /\ rest \in Seq(Events) /\ Len(rest) = Len(b) - 1 /\ Len(b) \in Nat
      /\ \A i \in 1 .. Len(rest) : rest[i] = b[i + 1]
  BY <1>1
<1>3. "event" \in PCs
  BY DEF PCs
<1>4. CASE rest = <<>>
  <2>1. worker' = [worker EXCEPT ![w] = Loop(worker[w].next)]
    BY <1>4 DEF NextEvent
  <2>2. /\ worker'[w] = Loop(worker[w].next) /\ OthersStay(w)
        /\ worker' \in [Workers -> Loops]
    BY <1>1, <2>1, LoopType DEF WorkersTyped, OthersStay
  <2>3. worker'[w].pc \in {"claim", "read"} /\ worker'[w].batch = <<>>
    BY <1>1, <2>2, LoopType
  <2> QED BY <2>2, <2>3 DEF WorkersTyped, OthersStay, Contains
<1>5. CASE rest # <<>>
  <2> DEFINE new == [worker[w] EXCEPT !.pc = "event", !.batch = rest,
                                      !.result = None]
  <2>1. worker' = [worker EXCEPT ![w] = new]
    BY <1>5 DEF NextEvent
  <2>2. new \in Loops /\ new.pc = "event" /\ new.batch = rest
    BY <1>1, <1>2, <1>3 DEF Loops
  <2> HIDE DEF new
  <2>3. /\ worker'[w] = new /\ OthersStay(w) /\ worker' \in [Workers -> Loops]
    BY <2>1, <2>2 DEF WorkersTyped, OthersStay
  <2>4. ASSUME NEW e, Contains(rest, e)
        PROVE  Contains(b, e)
    <3>1. PICK i \in 1 .. Len(rest) : rest[i] = e
      BY <2>4 DEF Contains
    <3>2. i + 1 \in 1 .. Len(b) /\ b[i + 1] = e
      BY <1>2, <3>1
    <3> QED BY <3>2 DEF Contains
  <2> QED BY <1>5, <2>2, <2>3, <2>4 DEF WorkersTyped, OthersStay
<1> QED BY <1>4, <1>5

(* A delivery gives the worker its batch and counts it.                    *)
LEMMA DeliverDoes ==
    ASSUME TypeOK, NEW w \in Workers, NEW b \in Seq(Events),
           NEW other \in {"claim", "read"}, Deliver(w, b, other)
    PROVE  /\ worker' \in [Workers -> Loops] /\ OthersStay(w)
           /\ worker'[w].pc \in {"event", "claim", "read"}
           /\ worker'[w].batch = b
           /\ \A x \in Workers : worker'[x].pc \notin {"claim", "read"} =>
                                   worker'[x].batch # <<>>
           /\ pel' \in [Events -> 0 .. CountCap]
           /\ \A e \in Events : pel'[e] > 0 <=> pel[e] > 0 \/ Contains(b, e)
           /\ idle' = {e \in idle : ~Contains(b, e)}
<1>1. worker \in [Workers -> Loops] /\ pel \in [Events -> 0 .. CountCap]
  BY DEF TypeOK, WorkersTyped, StreamTyped
<1>2. /\ worker' \in [Workers -> Loops] /\ OthersStay(w)
      /\ worker'[w].pc \in {"event", "claim", "read"}
      /\ worker'[w].batch = b
      /\ worker'[w].pc \notin {"claim", "read"} => worker'[w].batch # <<>>
  <2>1. CASE b = <<>>
    <3>1. worker' = [worker EXCEPT ![w] = Loop(other)]
      BY <2>1 DEF Deliver
    <3>2. /\ worker' \in [Workers -> Loops] /\ OthersStay(w)
          /\ worker'[w] = Loop(other)
      BY <1>1, <3>1, LoopType DEF OthersStay
    <3> QED BY <2>1, <3>2, LoopType
  <2>2. CASE b # <<>>
    <3> DEFINE new == [pc |-> "event", batch |-> b, next |-> other,
                       result |-> None]
    <3>1. worker' = [worker EXCEPT ![w] = new]
      BY <2>2 DEF Deliver
    <3>2. new \in Loops /\ new.pc = "event" /\ new.batch = b
      BY DEF Loops, PCs
    <3> HIDE DEF new
    <3>3. /\ worker' \in [Workers -> Loops] /\ OthersStay(w)
          /\ worker'[w] = new
      BY <1>1, <3>1, <3>2 DEF OthersStay
    <3> QED BY <2>2, <3>2, <3>3
  <2> QED BY <2>1, <2>2
<1>3. \A x \in Workers : worker'[x].pc \notin {"claim", "read"} =>
                           worker'[x].batch # <<>>
  BY <1>2 DEF OthersStay, TypeOK, WorkersTyped
<1>4. /\ pel' \in [Events -> 0 .. CountCap]
      /\ \A e \in Events : pel'[e] > 0 <=> pel[e] > 0 \/ Contains(b, e)
  BY <1>1, TriggerAssumption DEF Deliver, CountCap
<1> QED BY <1>2, <1>3, <1>4 DEF Deliver

(* XAUTOCLAIM delivers idle entries.                                       *)
LEMMA ClaimedAreIdle ==
    ASSUME idle \in SUBSET Events, NEW b \in SetToSeqs(idle)
    PROVE  b \in Seq(Events) /\ \A e : Contains(b, e) => e \in idle
<1>1. Cardinality(idle) \in Nat
  BY TriggerAssumption, FS_Subset, FS_CardinalityType
<1>2. b \in [1 .. Cardinality(idle) -> idle]
  BY DEF SetToSeqs
<1>3. b \in Seq(idle) /\ Len(b) = Cardinality(idle)
  BY <1>1, <1>2
<1> QED BY <1>2, <1>3 DEF Contains

(***************************************************************************)
(* What a step may do to the instances                                     *)
(***************************************************************************)
InstanceStep(w) ==
    \/ UNCHANGED <<instance, launches>>
    \/ /\ worker[w].pc = "insert" /\ instance[Current(w)] = None
       /\ instance' = [instance EXCEPT ![Current(w)] = "row"]
       /\ UNCHANGED launches
    \/ /\ worker[w].pc = "associate"
       /\ instance' = [instance EXCEPT ![Current(w)] = "pending"]
       /\ UNCHANGED launches
    \/ /\ worker[w].pc = "launch"
       /\ \/ /\ instance' = [instance EXCEPT ![Current(w)] = "launched"]
             /\ launches' = [launches EXCEPT ![Current(w)] = @ + 1]
          \/ /\ instance' = [instance EXCEPT ![Current(w)] = "failed"]
             /\ UNCHANGED launches

(* An instance that is launched, or exists, stays so, and nobody touches   *)
(* the one another worker is starting.                                     *)
LEMMA InstancesAdvance ==
    ASSUME Inv, NEW w \in Workers, InstanceStep(w)
    PROVE  /\ instance' \in [Events -> {None, "row", "pending", "launched",
                                        "failed"}]
           /\ launches' \in [Events -> Nat]
           /\ LaunchCount'
           /\ \A e \in Events :
                /\ instance[e] # None => instance'[e] # None
                /\ instance[e] = "launched" => instance'[e] = "launched"
           /\ \A x \in Workers : x # w /\ Owns(x) =>
                instance'[Current(x)] = instance[Current(x)]
<1>1. /\ instance \in [Events -> {None, "row", "pending", "launched",
                                  "failed"}]
      /\ launches \in [Events -> Nat] /\ LaunchCount /\ WorkersTyped
  BY DEF Inv, TypeOK, HistoryTyped
<1>2. CASE UNCHANGED <<instance, launches>>
  BY <1>1, <1>2 DEF LaunchCount
<1>3. CASE ~UNCHANGED <<instance, launches>>
  <2>1. worker[w].pc \in {"insert", "associate", "launch"}
    BY <1>3 DEF InstanceStep
  <2>2. PICK f : f = Current(w)
    OBVIOUS
  <2>3. f \in Events
    BY <1>1, <2>1, <2>2, CurrentType
  <2>4. /\ worker[w].pc = "insert" => instance[f] = None
        /\ worker[w].pc = "associate" => instance[f] = "row"
        /\ worker[w].pc = "launch" => instance[f] = "pending"
    BY <1>3, <2>2 DEF InstanceStep, Inv, WorkerInv
  <2>5. /\ \E s \in {"row", "pending", "launched", "failed"} :
             instance' = [instance EXCEPT ![f] = s]
        /\ \/ /\ instance'[f] = "launched"
              /\ launches' = [launches EXCEPT ![f] = launches[f] + 1]
           \/ instance'[f] # "launched" /\ UNCHANGED launches
    BY <1>1, <1>3, <2>2, <2>3 DEF InstanceStep
  <2>6. instance[f] # "launched" /\ launches[f] = 0
    BY <1>1, <2>1, <2>3, <2>4 DEF LaunchCount, None
  <2>7. /\ instance' \in [Events -> {None, "row", "pending", "launched",
                                     "failed"}]
        /\ launches' \in [Events -> Nat]
    BY <1>1, <2>3, <2>5
  <2>8. LaunchCount'
    <3>1. ASSUME NEW e \in Events
          PROVE  launches'[e] = IF instance'[e] = "launched" THEN 1 ELSE 0
      <4>1. CASE e = f
        BY <1>1, <2>3, <2>5, <2>6, <4>1
      <4>2. CASE e # f
        BY <1>1, <2>3, <2>5, <4>2 DEF LaunchCount
      <4> QED BY <4>1, <4>2
    <3> QED BY <3>1 DEF LaunchCount
  <2>9. \A e \in Events :
           /\ instance[e] # None => instance'[e] # None
           /\ instance[e] = "launched" => instance'[e] = "launched"
    BY <1>1, <2>3, <2>5, <2>6 DEF None
  <2>10. ASSUME NEW x \in Workers, x # w, Owns(x)
         PROVE  instance'[Current(x)] = instance[Current(x)]
    <3>1. Current(x) \in Events
      BY <1>1, <2>10, CurrentType DEF Owns
    <3>2. instance[Current(x)] \in {"row", "pending"}
      BY <2>10 DEF Owns, Inv, WorkerInv
    <3>3. Current(x) # f
      <4>1. CASE worker[w].pc = "insert"
        BY <2>4, <3>2, <4>1 DEF None
      <4>2. CASE worker[w].pc # "insert"
        BY <2>1, <2>2, <2>10, <4>2 DEF Owns, Inv, OneOwner
      <4> QED BY <4>1, <4>2
    <3> QED BY <1>1, <2>3, <2>5, <3>1, <3>3
  <2> QED BY <2>7, <2>8, <2>9, <2>10
<1> QED BY <1>2, <1>3

(* The other workers are not disturbed.                                    *)
LEMMA OthersKeep ==
    ASSUME Inv, NEW w \in Workers, InstanceStep(w), OthersStay(w),
           \A e \in Events : Published(e) => Published(e)',
           NEW x \in Workers, x # w
    PROVE  WorkerInv(x)'
<1>1. worker'[x] = worker[x] /\ Current(x)' = Current(x)
  BY DEF OthersStay, Current
<1>3. WorkerInv(x) /\ WorkersTyped
  BY DEF Inv, TypeOK
<1>4. \A e \in Events : Contains(worker'[x].batch, e) => Published(e)'
  BY <1>1, <1>3 DEF WorkerInv
<1>5. CASE worker[x].pc \in {"claim", "read"}
  BY <1>1, <1>4, <1>5 DEF WorkerInv
<1>6. CASE worker[x].pc \notin {"claim", "read"}
  <2>1. Current(x) \in Events
    BY <1>3, <1>6, CurrentType
  <2>2. /\ worker[x].pc = "associate" => instance'[Current(x)] = "row"
        /\ worker[x].pc = "launch" => instance'[Current(x)] = "pending"
    BY <1>3, InstancesAdvance DEF WorkerInv, Owns
  <2>3. worker[x].pc \in {"result", "ack"} =>
         /\ worker[x].result = "started" => instance'[Current(x)] = "launched"
         /\ worker[x].result = "deduplicated" => instance'[Current(x)] # None
    BY <1>3, <2>1, InstancesAdvance DEF WorkerInv
  <2> QED BY <1>1, <1>3, <1>4, <2>2, <2>3 DEF WorkerInv, Results, Outcomes
<1> QED BY <1>5, <1>6

(* A worker comes to own an instance only by inserting its row.            *)
LEMMA OwnersKeep ==
    ASSUME Inv, NEW w \in Workers, OthersStay(w),
           Owns(w)' => /\ worker'[w].batch = worker[w].batch
                       /\ \/ Owns(w)
                          \/ /\ worker[w].pc = "insert"
                             /\ instance[Current(w)] = None
    PROVE  OneOwner'
<1>1. \A x \in Workers : x # w => /\ Owns(x)' <=> Owns(x)
                                  /\ Current(x)' = Current(x)
  BY DEF OthersStay, Owns, Current
<1>2. ASSUME NEW x \in Workers, x # w, Owns(w)', Owns(x)'
      PROVE  Current(w)' # Current(x)'
  <2>1. Owns(x) /\ Current(x)' = Current(x) /\ Current(w)' = Current(w)
    BY <1>1, <1>2 DEF Current
  <2>2. CASE Owns(w)
    BY <1>2, <2>1, <2>2 DEF Inv, OneOwner
  <2>3. CASE instance[Current(w)] = None
    BY <2>1, <2>3 DEF Inv, WorkerInv, Owns, None
  <2> QED BY <1>2, <2>2, <2>3
<1>3. ASSUME NEW x \in Workers, NEW y \in Workers, x # y, Owns(x)', Owns(y)'
      PROVE  Current(x)' # Current(y)'
  <2>1. CASE x = w \/ y = w
    BY <1>2, <1>3, <2>1
  <2>2. CASE x # w /\ y # w
    BY <1>1, <1>3, <2>2 DEF Inv, OneOwner
  <2> QED BY <2>1, <2>2
<1> QED BY <1>3 DEF OneOwner

(* A worker that keeps its batch keeps its invariant, if it has done what  *)
(* its new location says.                                                  *)
LEMMA SelfKeeps ==
    ASSUME Inv, NEW w \in Workers, worker'[w].batch = worker[w].batch,
           \A e \in Events : Published(e) => Published(e)',
           worker'[w].pc = "associate" => instance'[Current(w)] = "row",
           worker'[w].pc = "launch" => instance'[Current(w)] = "pending",
           worker'[w].pc \in {"result", "ack"} =>
             /\ worker'[w].result = "started" =>
                  instance'[Current(w)] = "launched"
             /\ worker'[w].result = "deduplicated" =>
                  instance'[Current(w)] # None,
           worker'[w].pc = "result" => worker'[w].result \in Results,
           worker'[w].pc = "ack" => worker'[w].result \in Outcomes
    PROVE  WorkerInv(w)'
<1>1. Current(w)' = Current(w)
  BY DEF Current
<1>2. \A e \in Events : Contains(worker'[w].batch, e) => Published(e)'
  BY DEF Inv, WorkerInv
<1> QED BY <1>1, <1>2 DEF WorkerInv, Results, Outcomes

(* A worker that is through with an event keeps its invariant.             *)
LEMMA FreshKeeps ==
    ASSUME Inv, NEW w \in Workers,
           worker'[w].pc \in {"event", "claim", "read"},
           \A e \in Events : Contains(worker'[w].batch, e) => Published(e)'
    PROVE  WorkerInv(w)'
BY DEF WorkerInv

(* What has to be shown of a worker's step that leaves the stream alone.   *)
LEMMA StepKeeps ==
    ASSUME Inv, NEW w \in Workers, UNCHANGED stream,
           InstanceStep(w), OthersStay(w),
           worker' \in [Workers -> Loops],
           \A x \in Workers : worker'[x].pc \notin {"claim", "read"} =>
                                worker'[x].batch # <<>>,
           starting' \in [Workers -> BOOLEAN],
           timers' \in [Workers -> SUBSET Events],
           fired' \in [Events -> Nat], faults' \in 0 .. MaxFaults,
           Owns(w)' => /\ worker'[w].batch = worker[w].batch
                       /\ \/ Owns(w)
                          \/ /\ worker[w].pc = "insert"
                             /\ instance[Current(w)] = None,
           WorkerInv(w)'
    PROVE  Inv'
<1>1. \A e \in Events : Published(e) <=> Published(e)'
  BY DEF stream, Published
<1>2. TypeOK'
  BY InstancesAdvance
     DEF Inv, TypeOK, StreamTyped, WorkersTyped, HistoryTyped, stream
<1>3. StreamInv'
  BY DEF Inv, StreamInv, stream
<1>4. OneOwner' /\ LaunchCount'
  BY OwnersKeep, InstancesAdvance
<1>5. \A x \in Workers : WorkerInv(x)'
  BY <1>1, OthersKeep
<1> QED BY <1>2, <1>3, <1>4, <1>5 DEF Inv

(* The types of what a step emits and counts.                              *)
LEMMA CountTypes ==
    ASSUME Inv
    PROVE  /\ \A hazard : Fails(hazard) => faults' \in 0 .. MaxFaults
           /\ \A e \in Events : EmitFired(e) => fired' \in [Events -> Nat]
           /\ UNCHANGED faults => faults' \in 0 .. MaxFaults
           /\ UNCHANGED fired => fired' \in [Events -> Nat]
           /\ UNCHANGED starting => starting' \in [Workers -> BOOLEAN]
           /\ UNCHANGED timers => timers' \in [Workers -> SUBSET Events]
<1>1. /\ faults \in 0 .. MaxFaults /\ fired \in [Events -> Nat]
      /\ starting \in [Workers -> BOOLEAN]
      /\ timers \in [Workers -> SUBSET Events]
  BY DEF Inv, TypeOK, WorkersTyped, HistoryTyped
<1>2. \A hazard : Fails(hazard) => faults' \in 0 .. MaxFaults
  BY <1>1, TriggerAssumption DEF Fails
<1>3. \A e \in Events : EmitFired(e) => fired' \in [Events -> Nat]
  BY <1>1 DEF EmitFired
<1> QED BY <1>1, <1>2, <1>3

(* What execute_detached's return does.                                    *)
LEMMA ReturnsDoes ==
    ASSUME Inv, NEW w \in Workers, NEW r \in Results,
           worker[w].pc \notin {"claim", "read"}, Returns(w, r)
    PROVE  /\ worker' \in [Workers -> Loops] /\ OthersStay(w)
           /\ worker'[w].pc = "result" /\ worker'[w].batch = worker[w].batch
           /\ worker'[w].result = r
           /\ \A x \in Workers : worker'[x].pc \notin {"claim", "read"} =>
                                   worker'[x].batch # <<>>
           /\ timers' \in [Workers -> SUBSET Events]
<1>1. WorkersTyped /\ Result(w, r)
  BY DEF Inv, TypeOK, Returns
<1>2. Current(w) \in Events
  BY <1>1, CurrentType
<1>3. timers' \in [Workers -> SUBSET Events]
  BY <1>1, <1>2 DEF WorkersTyped, Returns
<1> QED BY <1>1, <1>3, ResultDoes

(***************************************************************************)
(* The steps of a worker that leave the stream alone                       *)
(***************************************************************************)
EngineTyped ==
    /\ starting \in [Workers -> BOOLEAN]
    /\ timers \in [Workers -> SUBSET Events]
    /\ fired \in [Events -> Nat] /\ faults \in 0 .. MaxFaults

(* A step to a location before the insert, or to the delivery count.       *)
LEMMA PlainKeeps ==
    ASSUME Inv, NEW w \in Workers, worker[w].pc \notin {"claim", "read"},
           NEW l \in {"compiled", "check", "insert", "count"}, Goto(w, l),
           UNCHANGED <<stream, instance, launches>>, EngineTyped'
    PROVE  Inv'
<1>1. l \in PCs \ {"claim", "read"} /\ WorkersTyped
  BY DEF PCs, StartPCs, Inv, TypeOK
<1>2. /\ worker' \in [Workers -> Loops] /\ OthersStay(w)
      /\ worker'[w].pc = l /\ worker'[w].batch = worker[w].batch
      /\ \A x \in Workers : worker'[x].pc \notin {"claim", "read"} =>
                              worker'[x].batch # <<>>
  BY <1>1, GotoDoes
<1>3. \A e \in Events : Published(e) <=> Published(e)'
  BY DEF stream, Published
<1>4. WorkerInv(w)'
  BY <1>2, <1>3, SelfKeeps
<1>5. InstanceStep(w) /\ ~Owns(w)'
  BY <1>2 DEF InstanceStep, Owns
<1> QED BY <1>2, <1>4, <1>5, StepKeeps DEF EngineTyped

(* A step that ends with a result.                                         *)
LEMMA ResultKeeps ==
    ASSUME Inv, NEW w \in Workers, worker[w].pc \notin {"claim", "read"},
           NEW r \in Results, Result(w, r), UNCHANGED stream,
           InstanceStep(w), EngineTyped',
           r = "started" => instance'[Current(w)] = "launched",
           r = "deduplicated" => instance'[Current(w)] # None
    PROVE  Inv'
<1>1. WorkersTyped
  BY DEF Inv, TypeOK
<1>2. /\ worker' \in [Workers -> Loops] /\ OthersStay(w)
      /\ worker'[w].pc = "result" /\ worker'[w].batch = worker[w].batch
      /\ worker'[w].result = r
      /\ \A x \in Workers : worker'[x].pc \notin {"claim", "read"} =>
                              worker'[x].batch # <<>>
  BY <1>1, ResultDoes
<1>3. \A e \in Events : Published(e) <=> Published(e)'
  BY DEF stream, Published
<1>4. WorkerInv(w)'
  BY <1>2, <1>3, SelfKeeps
<1>5. ~Owns(w)'
  BY <1>2 DEF Owns
<1> QED BY <1>2, <1>4, <1>5, StepKeeps DEF EngineTyped

(* The single_instance check keeps the invariant.                          *)
LEMMA CheckSingleInstanceKeeps ==
    ASSUME Inv, NEW w \in Workers, CheckSingleInstance(w)
    PROVE  Inv'
<1>1. /\ worker[w].pc \notin {"claim", "read"} /\ EngineTyped'
      /\ UNCHANGED <<stream, instance, launches>> /\ InstanceStep(w)
  BY CountTypes DEF CheckSingleInstance, At, EngineTyped, engine, InstanceStep
<1>2. Result(w, "skipped") \/ Goto(w, "compiled")
  BY DEF CheckSingleInstance
<1>3. CASE Result(w, "skipped")
  BY <1>1, <1>3, ResultKeeps DEF Results
<1>4. CASE Goto(w, "compiled")
  BY <1>1, <1>4, PlainKeeps
<1> QED BY <1>2, <1>3, <1>4

(* ensure_compiled keeps the invariant.                                    *)
LEMMA EnsureCompiledKeeps ==
    ASSUME Inv, NEW w \in Workers, EnsureCompiled(w)
    PROVE  Inv'
<1>1. /\ worker[w].pc \notin {"claim", "read"}
      /\ UNCHANGED <<stream, instance, launches>> /\ InstanceStep(w)
  BY DEF EnsureCompiled, At, InstanceStep
<1>2. /\ starting' \in [Workers -> BOOLEAN]
      /\ fired' \in [Events -> Nat] /\ faults' \in 0 .. MaxFaults
  BY CountTypes DEF EnsureCompiled, history, Inv, TypeOK, WorkersTyped
<1>3. CASE Goto(w, "check") /\ UNCHANGED timers
  BY <1>1, <1>2, <1>3, CountTypes, PlainKeeps DEF EngineTyped
<1>4. ASSUME NEW r \in {"retry", "failed"}, Returns(w, r)
      PROVE  Inv'
  BY <1>1, <1>2, <1>4, ReturnsDoes, ResultKeeps
     DEF EngineTyped, Returns, Results
<1> QED BY <1>3, <1>4 DEF EnsureCompiled

(* A replay is reported for a taken id only.                               *)
LEMMA CheckExistingKeeps ==
    ASSUME Inv, NEW w \in Workers, CheckExisting(w)
    PROVE  Inv'
<1>1. /\ worker[w].pc \notin {"claim", "read"}
      /\ UNCHANGED <<stream, instance, launches>> /\ InstanceStep(w)
      /\ starting' \in [Workers -> BOOLEAN]
      /\ fired' \in [Events -> Nat] /\ faults' \in 0 .. MaxFaults
  BY CountTypes DEF CheckExisting, At, InstanceStep, history
<1>2. \/ Goto(w, "insert") /\ UNCHANGED timers
      \/ \E r \in {"failed", "retry", "deduplicated"} :
           /\ Returns(w, r)
           /\ r = "deduplicated" => instance[Current(w)] # None
  BY DEF CheckExisting, ExistingStartResponse
<1>3. CASE Goto(w, "insert") /\ UNCHANGED timers
  BY <1>1, <1>3, CountTypes, PlainKeeps DEF EngineTyped
<1>4. ASSUME NEW r \in {"failed", "retry", "deduplicated"}, Returns(w, r),
             r = "deduplicated" => instance[Current(w)] # None
      PROVE  Inv'
  BY <1>1, <1>4, ReturnsDoes, ResultKeeps DEF EngineTyped, Returns, Results
<1> QED BY <1>2, <1>3, <1>4

(* The insert makes the worker the owner, or another one was first.        *)
LEMMA RegisterInstanceKeeps ==
    ASSUME Inv, NEW w \in Workers, RegisterInstance(w)
    PROVE  Inv'
<1>1. /\ worker[w].pc = "insert"
      /\ UNCHANGED <<stream, launches>>
      /\ starting' \in [Workers -> BOOLEAN]
      /\ fired' \in [Events -> Nat] /\ faults' \in 0 .. MaxFaults
  BY CountTypes DEF RegisterInstance, At, history
<1>2. CASE instance[Current(w)] # None
  <2>1. PICK r \in {"failed", "deduplicated"} : Returns(w, r)
    BY <1>2 DEF RegisterInstance, ExistingStartResponse
  <2>2. InstanceStep(w) /\ UNCHANGED instance
    BY <1>1, <1>2 DEF RegisterInstance, InstanceStep
  <2> QED BY <1>1, <1>2, <2>1, <2>2, ReturnsDoes, ResultKeeps
          DEF EngineTyped, Returns, Results
<1>3. CASE instance[Current(w)] = None
  <2>1. /\ instance' = [instance EXCEPT ![Current(w)] = "row"]
        /\ Goto(w, "associate") /\ UNCHANGED timers
    BY <1>3 DEF RegisterInstance
  <2>2. WorkersTyped /\ "associate" \in PCs \ {"claim", "read"}
    BY DEF Inv, TypeOK, PCs, StartPCs
  <2>3. /\ worker' \in [Workers -> Loops] /\ OthersStay(w)
        /\ worker'[w].pc = "associate"
        /\ worker'[w].batch = worker[w].batch
        /\ \A x \in Workers : worker'[x].pc \notin {"claim", "read"} =>
                                worker'[x].batch # <<>>
    BY <1>1, <2>1, <2>2, GotoDoes
  <2>4. instance'[Current(w)] = "row" /\ InstanceStep(w)
    BY <1>1, <1>3, <2>1, <2>2, CurrentType
       DEF InstanceStep, Inv, TypeOK, HistoryTyped
  <2>5. \A e \in Events : Published(e) <=> Published(e)'
    BY <1>1 DEF stream, Published
  <2>6. WorkerInv(w)'
    BY <2>3, <2>4, <2>5, SelfKeeps
  <2> QED BY <1>1, <1>3, <2>1, <2>3, <2>4, <2>6, CountTypes, StepKeeps
<1> QED BY <1>2, <1>3

(* The image association keeps the invariant.                              *)
LEMMA AssociateImageKeeps ==
    ASSUME Inv, NEW w \in Workers, AssociateImage(w)
    PROVE  Inv'
<1>1. /\ worker[w].pc = "associate"
      /\ UNCHANGED <<stream, launches>>
      /\ starting' \in [Workers -> BOOLEAN]
      /\ fired' \in [Events -> Nat] /\ faults' \in 0 .. MaxFaults
  BY CountTypes DEF AssociateImage, At
<1>2. CASE Returns(w, "failed") /\ UNCHANGED instance
  BY <1>1, <1>2, ReturnsDoes, ResultKeeps
     DEF EngineTyped, Returns, Results, InstanceStep
<1>3. CASE /\ instance' = [instance EXCEPT ![Current(w)] = "pending"]
           /\ Goto(w, "launch") /\ UNCHANGED timers
  <2>2. WorkersTyped /\ "launch" \in PCs \ {"claim", "read"}
    BY DEF Inv, TypeOK, PCs, StartPCs
  <2>3. /\ worker' \in [Workers -> Loops] /\ OthersStay(w)
        /\ worker'[w].pc = "launch"
        /\ worker'[w].batch = worker[w].batch
        /\ \A x \in Workers : worker'[x].pc \notin {"claim", "read"} =>
                                worker'[x].batch # <<>>
    BY <1>1, <1>3, <2>2, GotoDoes
  <2>4. instance'[Current(w)] = "pending" /\ InstanceStep(w)
    BY <1>1, <1>3, <2>2, CurrentType
       DEF InstanceStep, Inv, TypeOK, HistoryTyped
  <2>5. \A e \in Events : Published(e) <=> Published(e)'
    BY <1>1 DEF stream, Published
  <2>6. WorkerInv(w)'
    BY <2>3, <2>4, <2>5, SelfKeeps
  <2>7. Owns(w)
    BY <1>1 DEF Owns
  <2> QED BY <1>1, <1>3, <2>3, <2>4, <2>6, <2>7, CountTypes, StepKeeps
<1> QED BY <1>2, <1>3 DEF AssociateImage

(* The launch counts once for the owner.                                   *)
LEMMA LaunchDetachedKeeps ==
    ASSUME Inv, NEW w \in Workers, LaunchDetached(w)
    PROVE  Inv'
<1>1. /\ worker[w].pc = "launch"
      /\ UNCHANGED stream
      /\ starting' \in [Workers -> BOOLEAN]
      /\ fired' \in [Events -> Nat] /\ faults' \in 0 .. MaxFaults
  BY CountTypes DEF LaunchDetached, At
<1>2. WorkersTyped /\ instance \in [Events -> {None, "row", "pending",
                                               "launched", "failed"}]
  BY DEF Inv, TypeOK, HistoryTyped
<1>3. Current(w) \in Events
  BY <1>1, <1>2, CurrentType
<1>4. InstanceStep(w)
  BY <1>1 DEF LaunchDetached, InstanceStep
<1>5. PICK r \in {"started", "failed"} :
             /\ Returns(w, r)
             /\ r = "started" => instance'[Current(w)] = "launched"
  BY <1>2, <1>3 DEF LaunchDetached
<1> QED BY <1>1, <1>4, <1>5, ReturnsDoes, ResultKeeps
        DEF EngineTyped, Returns, Results

(* The result decides whether the entry is acknowledged.                   *)
LEMMA HandleResultKeeps ==
    ASSUME Inv, NEW w \in Workers, HandleResult(w)
    PROVE  Inv'
<1>1. WorkersTyped /\ worker[w].pc = "result"
  BY DEF Inv, TypeOK, HandleResult, At
<1>2. Current(w) \in Events
  BY <1>1, CurrentType
<1>3. /\ UNCHANGED <<stream, instance, launches>> /\ EngineTyped'
      /\ InstanceStep(w)
  BY <1>2, CountTypes DEF HandleResult, EngineTyped, engine, InstanceStep
<1>4. CASE worker[w].result = "retry"
  BY <1>1, <1>3, <1>4, PlainKeeps DEF HandleResult
<1>5. CASE worker[w].result # "retry"
  <2>1. Goto(w, "ack") /\ "ack" \in PCs \ {"claim", "read"}
    BY <1>5 DEF HandleResult, PCs
  <2>2. /\ worker' \in [Workers -> Loops] /\ OthersStay(w)
        /\ worker'[w].pc = "ack" /\ worker'[w].batch = worker[w].batch
        /\ worker'[w].result = worker[w].result
        /\ \A x \in Workers : worker'[x].pc \notin {"claim", "read"} =>
                                worker'[x].batch # <<>>
    BY <1>1, <2>1, GotoDoes
  <2>3. \A e \in Events : Published(e) <=> Published(e)'
    BY <1>3 DEF stream, Published
  <2>4. worker[w].result \in Outcomes
    BY <1>1, <1>5 DEF Inv, WorkerInv, Outcomes
  <2>5. WorkerInv(w)
    BY DEF Inv
  <2>6. WorkerInv(w)'
    BY <1>1, <1>3, <2>2, <2>3, <2>4, <2>5, SelfKeeps DEF WorkerInv
  <2>7. ~Owns(w)'
    BY <2>2 DEF Owns
  <2> QED BY <1>3, <2>2, <2>6, <2>7, StepKeeps DEF EngineTyped
<1> QED BY <1>4, <1>5

(* A worker that is through with an event.                                 *)
LEMMA ThroughKeeps ==
    ASSUME Inv, NEW w \in Workers, worker[w].pc \notin {"claim", "read"},
           NextEvent(w), UNCHANGED <<stream, instance, launches>>,
           EngineTyped'
    PROVE  Inv'
<1>1. WorkersTyped
  BY DEF Inv, TypeOK
<1>2. /\ worker' \in [Workers -> Loops] /\ OthersStay(w)
      /\ worker'[w].pc \in {"event", "claim", "read"}
      /\ \A e : Contains(worker'[w].batch, e) => Contains(worker[w].batch, e)
      /\ \A x \in Workers : worker'[x].pc \notin {"claim", "read"} =>
                              worker'[x].batch # <<>>
  BY <1>1, NextEventDoes
<1>3. \A e \in Events : Published(e) <=> Published(e)'
  BY DEF stream, Published
<1>4. WorkerInv(w)'
  BY <1>2, <1>3, FreshKeeps DEF Inv, WorkerInv
<1>5. ~Owns(w)' /\ InstanceStep(w)
  BY <1>2 DEF Owns, InstanceStep
<1> QED BY <1>2, <1>4, <1>5, StepKeeps DEF EngineTyped

(* A retry leaves the entry pending or gives it up.                        *)
LEMMA HandleRetryKeeps ==
    ASSUME Inv, NEW w \in Workers, HandleRetry(w)
    PROVE  Inv'
<1>1. /\ WorkersTyped /\ worker[w].pc = "count"
      /\ UNCHANGED <<stream, instance, launches>> /\ InstanceStep(w)
  BY DEF Inv, TypeOK, HandleRetry, At, InstanceStep
<1>2. Current(w) \in Events
  BY <1>1, CurrentType
<1>3. EngineTyped'
  BY <1>2, CountTypes DEF HandleRetry, EngineTyped, engine
<1>4. CASE NextEvent(w)
  BY <1>1, <1>3, <1>4, ThroughKeeps
<1>5. CASE worker' = [worker EXCEPT ![w].pc = "ack",
                                    ![w].result = "exhausted"]
  <2>1. "ack" \in PCs /\ "exhausted" \in Results /\ "exhausted" \in Outcomes
    BY DEF PCs, Results, Outcomes
  <2>2. /\ worker' \in [Workers -> Loops] /\ OthersStay(w)
        /\ worker'[w].pc = "ack" /\ worker'[w].batch = worker[w].batch
        /\ worker'[w].result = "exhausted"
        /\ \A x \in Workers : worker'[x].pc \notin {"claim", "read"} =>
                                worker'[x].batch # <<>>
    BY <1>1, <1>5, <2>1 DEF WorkersTyped, Loops, OthersStay
  <2>3. \A e \in Events : Published(e) <=> Published(e)'
    BY <1>1 DEF stream, Published
  <2>4. WorkerInv(w)'
    BY <2>1, <2>2, <2>3, SelfKeeps
  <2>5. ~Owns(w)'
    BY <2>2 DEF Owns
  <2> QED BY <1>1, <1>3, <2>2, <2>4, <2>5, StepKeeps DEF EngineTyped
<1> QED BY <1>4, <1>5 DEF HandleRetry

(* A crash costs a worker its batch; the rows it inserted stay.            *)
LEMMA CrashKeeps ==
    ASSUME Inv, NEW w \in Workers, Crash(w)
    PROVE  Inv'
<1>1. /\ worker' = [worker EXCEPT ![w] = Loop("claim")]
      /\ UNCHANGED <<stream, instance, launches>> /\ InstanceStep(w)
  BY DEF Crash, InstanceStep
<1>2. EngineTyped'
  BY CountTypes DEF Crash, EngineTyped, Inv, TypeOK, WorkersTyped
<1>3. /\ worker' \in [Workers -> Loops] /\ OthersStay(w)
      /\ worker'[w] = Loop("claim")
  BY <1>1, LoopType DEF OthersStay, Inv, TypeOK, WorkersTyped
<1>4. worker'[w].pc = "claim" /\ worker'[w].batch = <<>>
  BY <1>3, LoopType
<1>5. \A x \in Workers : worker'[x].pc \notin {"claim", "read"} =>
                           worker'[x].batch # <<>>
  BY <1>3, <1>4 DEF OthersStay, Inv, TypeOK, WorkersTyped
<1>6. WorkerInv(w)'
  BY <1>4, FreshKeeps DEF Contains
<1>7. ~Owns(w)'
  BY <1>4 DEF Owns
<1> QED BY <1>1, <1>2, <1>3, <1>5, <1>6, <1>7, StepKeeps DEF EngineTyped

(***************************************************************************)
(* The steps that change the stream                                        *)
(***************************************************************************)
(* What has to be shown of a step that changes the stream and at most one  *)
(* worker, which is then between two events.                               *)
LEMMA StreamKeeps ==
    ASSUME Inv, NEW w \in Workers, UNCHANGED <<instance, launches>>,
           OthersStay(w), worker' \in [Workers -> Loops],
           \A x \in Workers : worker'[x].pc \notin {"claim", "read"} =>
                                worker'[x].batch # <<>>,
           worker'[w].pc \in {"event", "claim", "read"},
           \A e \in Events : Contains(worker'[w].batch, e) => Published(e)',
           \A e \in Events : Published(e) => Published(e)',
           StreamTyped', StreamInv', EngineTyped'
    PROVE  Inv'
<1>1. InstanceStep(w) /\ ~Owns(w)'
  BY DEF InstanceStep, Owns
<1>2. TypeOK'
  BY <1>1, InstancesAdvance DEF TypeOK, WorkersTyped, HistoryTyped, EngineTyped
<1>3. OneOwner' /\ LaunchCount'
  BY <1>1, OwnersKeep, InstancesAdvance
<1>4. WorkerInv(w)'
  BY FreshKeeps
<1>5. \A x \in Workers : WorkerInv(x)'
  BY <1>1, <1>4, OthersKeep
<1> QED BY <1>2, <1>3, <1>5 DEF Inv

(* Claimed entries stay pending.                                           *)
LEMMA ClaimPendingKeeps ==
    ASSUME Inv, NEW w \in Workers, ClaimPending(w)
    PROVE  Inv'
<1>1. TypeOK /\ StreamTyped /\ StreamInv /\ idle \in SUBSET Events
  BY DEF Inv, TypeOK, StreamTyped
<1>2. PICK b \in SetToSeqs(idle) : Deliver(w, b, "read")
  BY DEF ClaimPending
<1>3. b \in Seq(Events) /\ \A e : Contains(b, e) => e \in idle
  BY <1>1, ClaimedAreIdle
<1>4. /\ worker' \in [Workers -> Loops] /\ OthersStay(w)
      /\ worker'[w].pc \in {"event", "claim", "read"} /\ worker'[w].batch = b
      /\ \A x \in Workers : worker'[x].pc \notin {"claim", "read"} =>
                              worker'[x].batch # <<>>
      /\ pel' \in [Events -> 0 .. CountCap]
      /\ \A e \in Events : pel'[e] > 0 <=> pel[e] > 0 \/ Contains(b, e)
      /\ idle' = {e \in idle : ~Contains(b, e)}
  BY <1>1, <1>2, <1>3, DeliverDoes
<1>5. UNCHANGED <<backlog, outcome, instance, launches>> /\ EngineTyped'
  BY <1>2, CountTypes DEF ClaimPending, Deliver, engine, history, EngineTyped
<1>6. \A e \in Events : pel'[e] > 0 <=> pel[e] > 0
  BY <1>1, <1>3, <1>4 DEF StreamInv
<1>7. StreamTyped' /\ StreamInv'
  BY <1>1, <1>4, <1>5, <1>6 DEF StreamTyped, StreamInv
<1>8. \A e \in Events : /\ Published(e) => Published(e)'
                        /\ Contains(b, e) => Published(e)'
  BY <1>4, <1>5, <1>6 DEF Published
<1> QED BY <1>4, <1>5, <1>7, <1>8, StreamKeeps

(* Entries that are read become pending.                                   *)
LEMMA ReadNewKeeps ==
    ASSUME Inv, NEW w \in Workers, ReadNew(w)
    PROVE  Inv'
<1>1. TypeOK /\ StreamTyped /\ StreamInv
  BY DEF Inv, TypeOK
<1>2. PICK b \in Seq(Events) : b = backlog
  BY <1>1 DEF StreamTyped
<1>3. Deliver(w, b, "claim") /\ backlog' = <<>>
  BY <1>2 DEF ReadNew
<1>4. /\ worker' \in [Workers -> Loops] /\ OthersStay(w)
      /\ worker'[w].pc \in {"event", "claim", "read"} /\ worker'[w].batch = b
      /\ \A x \in Workers : worker'[x].pc \notin {"claim", "read"} =>
                              worker'[x].batch # <<>>
      /\ pel' \in [Events -> 0 .. CountCap]
      /\ \A e \in Events : pel'[e] > 0 <=> pel[e] > 0 \/ Contains(b, e)
      /\ idle' = {e \in idle : ~Contains(b, e)}
  BY <1>1, <1>3, DeliverDoes
<1>5. UNCHANGED <<outcome, instance, launches>> /\ EngineTyped'
  BY <1>3, CountTypes DEF Deliver, engine, history, EngineTyped
<1>6. \A e \in Events : ~Contains(backlog', e)
  BY <1>3 DEF Contains
<1>7. StreamTyped' /\ StreamInv'
  BY <1>1, <1>2, <1>3, <1>4, <1>5, <1>6 DEF StreamTyped, StreamInv
<1>8. \A e \in Events : /\ Published(e) => Published(e)'
                        /\ Contains(b, e) => Published(e)'
  BY <1>2, <1>4, <1>5 DEF Published
<1> QED BY <1>4, <1>5, <1>7, <1>8, StreamKeeps

(* What XACK does: the entry is settled if it was pending.                 *)
LEMMA AcknowledgeDoes ==
    ASSUME Inv, NEW w \in Workers, Acknowledge(w), NEW e, e = Current(w)
    PROVE  /\ e \in Events /\ worker[w].result \in Outcomes
           /\ \/ /\ pel[e] > 0 /\ pel' = [pel EXCEPT ![e] = 0]
                 /\ outcome' = [outcome EXCEPT ![e] = worker[w].result]
                 /\ idle' = idle \ {e}
              \/ /\ UNCHANGED <<pel, outcome>>
                 /\ idle' = idle
           /\ UNCHANGED <<backlog, instance, launches>> /\ EngineTyped'
           /\ worker[w].pc = "ack" /\ WorkersTyped /\ NextEvent(w)
<1>1. WorkersTyped /\ worker[w].pc = "ack" /\ NextEvent(w)
  BY DEF Inv, TypeOK, Acknowledge, At
<1>2. e \in Events
  BY <1>1, CurrentType
<1>3. worker[w].result \in Outcomes
  BY <1>1 DEF Inv, WorkerInv
<1>4. UNCHANGED <<backlog, instance, launches>> /\ EngineTyped'
  BY CountTypes DEF Acknowledge, EngineTyped, engine
<1>5. \/ /\ pel[e] > 0 /\ pel' = [pel EXCEPT ![e] = 0]
         /\ outcome' = [outcome EXCEPT ![e] = worker[w].result]
         /\ idle' = idle \ {e}
      \/ UNCHANGED <<pel, outcome>> /\ idle' = idle
  <2>1. CASE UNCHANGED <<outcome, pel, idle>>
    BY <2>1
  <2>2. CASE /\ outcome' = IF pel[e] > 0
                             THEN [outcome EXCEPT ![e] = worker[w].result]
                             ELSE outcome
             /\ pel' = [pel EXCEPT ![e] = 0]
             /\ idle' = idle \ {e}
    <3>1. CASE pel[e] > 0
      BY <2>2, <3>1
    <3>2. CASE ~(pel[e] > 0)
      <4>1. pel[e] = 0 /\ pel \in [Events -> 0 .. CountCap] /\ e \notin idle
        BY <1>2, <3>2, TriggerAssumption
           DEF CountCap, Inv, TypeOK, StreamTyped, StreamInv
      <4>2. pel' = pel /\ idle' = idle
        BY <2>2, <4>1
      <4> QED BY <2>2, <3>2, <4>2
    <3> QED BY <3>1, <3>2
  <2> QED BY <2>1, <2>2 DEF Acknowledge
<1> QED BY <1>1, <1>2, <1>3, <1>4, <1>5

(* A pending entry that is acknowledged is settled.                        *)
LEMMA AcknowledgeKeeps ==
    ASSUME Inv, NEW w \in Workers, Acknowledge(w)
    PROVE  Inv'
<1>1. PICK f : f = Current(w)
  OBVIOUS
<1>2. /\ f \in Events /\ worker[w].result \in Outcomes
      /\ \/ /\ pel[f] > 0 /\ pel' = [pel EXCEPT ![f] = 0]
            /\ outcome' = [outcome EXCEPT ![f] = worker[w].result]
            /\ idle' = idle \ {f}
         \/ UNCHANGED <<pel, outcome>> /\ idle' = idle
      /\ UNCHANGED <<backlog, instance, launches>> /\ EngineTyped'
      /\ worker[w].pc = "ack" /\ WorkersTyped /\ NextEvent(w)
  BY <1>1, AcknowledgeDoes
<1>3. StreamTyped /\ StreamInv
  BY DEF Inv, TypeOK
<1>4. StreamTyped'
  <2>1. 0 \in 0 .. CountCap
    BY TriggerAssumption DEF CountCap
  <2> QED BY <1>2, <1>3, <2>1 DEF StreamTyped
<1>5. StreamInv' /\ \A e \in Events : Published(e) => Published(e)'
  <2>1. CASE UNCHANGED <<pel, outcome>> /\ idle' = idle
    BY <1>2, <1>3, <2>1 DEF StreamInv, Published
  <2>2. CASE /\ pel[f] > 0 /\ pel' = [pel EXCEPT ![f] = 0]
             /\ outcome' = [outcome EXCEPT ![f] = worker[w].result]
             /\ idle' = idle \ {f}
    <3>1. /\ ~Contains(backlog', f) /\ pel'[f] = 0
          /\ outcome'[f] # None /\ f \notin idle'
      BY <1>2, <1>3, <2>2 DEF StreamInv, StreamTyped, Outcomes, Results, None
    <3>2. ASSUME NEW e \in Events, e # f
          PROVE  /\ pel'[e] = pel[e] /\ outcome'[e] = outcome[e]
                 /\ e \in idle' <=> e \in idle
      BY <1>3, <2>2, <3>2 DEF StreamTyped
    <3> QED BY <1>2, <1>3, <3>1, <3>2 DEF StreamInv, Published
  <2> QED BY <1>2, <2>1, <2>2
<1>6. /\ worker' \in [Workers -> Loops] /\ OthersStay(w)
      /\ worker'[w].pc \in {"event", "claim", "read"}
      /\ \A e : Contains(worker'[w].batch, e) => Contains(worker[w].batch, e)
      /\ \A x \in Workers : worker'[x].pc \notin {"claim", "read"} =>
                              worker'[x].batch # <<>>
  BY <1>2, NextEventDoes
<1>7. \A e \in Events : Contains(worker'[w].batch, e) => Published(e)'
  BY <1>5, <1>6 DEF Inv, WorkerInv
<1> QED BY <1>2, <1>4, <1>5, <1>6, <1>7, StreamKeeps

(* The steps of nobody in particular leave every worker as it is.          *)
LEMMA OutsideKeeps ==
    ASSUME Inv, UNCHANGED <<worker, instance, launches>>,
           StreamTyped', StreamInv', EngineTyped',
           \A e \in Events : Published(e) => Published(e)'
    PROVE  Inv'
<1>1. TypeOK'
  BY DEF Inv, TypeOK, WorkersTyped, HistoryTyped, EngineTyped
<1>2. OneOwner' /\ LaunchCount'
  BY DEF Inv, OneOwner, LaunchCount, Owns, Current
<1>3. \A w \in Workers : WorkerInv(w)'
  BY DEF Inv, WorkerInv, Current, Results, Outcomes
<1> QED BY <1>1, <1>2, <1>3 DEF Inv

(* A new entry is in the backlog only.                                     *)
LEMMA PublishKeeps ==
    ASSUME Inv, NEW f \in Events, Publish(f)
    PROVE  Inv'
<1>1. StreamTyped /\ StreamInv
  BY DEF Inv, TypeOK
<1>2. /\ ~Published(f) /\ backlog' = Append(backlog, f)
      /\ UNCHANGED <<pel, idle, outcome, worker, instance, launches>>
      /\ EngineTyped'
  BY CountTypes DEF Publish, engine, history, EngineTyped
<1>3. \A e : Contains(backlog', e) <=> Contains(backlog, e) \/ e = f
  <2>1. /\ Len(backlog) \in Nat /\ Len(backlog') = Len(backlog) + 1
        /\ \A i \in 1 .. Len(backlog) : backlog'[i] = backlog[i]
        /\ backlog'[Len(backlog) + 1] = f
    BY <1>1, <1>2 DEF StreamTyped
  <2> QED BY <2>1 DEF Contains
<1>4. StreamTyped'
  BY <1>1, <1>2 DEF StreamTyped
<1>5. StreamInv' /\ \A e \in Events : Published(e) => Published(e)'
  BY <1>1, <1>2, <1>3 DEF StreamInv, Published
<1> QED BY <1>2, <1>4, <1>5, OutsideKeeps

(* Only pending entries grow idle.                                         *)
LEMMA GrowIdleKeeps ==
    ASSUME Inv, NEW f \in Events, GrowIdle(f)
    PROVE  Inv'
<1>1. StreamTyped /\ StreamInv
  BY DEF Inv, TypeOK
<1>2. /\ pel[f] > 0 /\ idle' = idle \cup {f}
      /\ UNCHANGED <<backlog, pel, outcome, worker, instance, launches>>
      /\ EngineTyped'
  BY CountTypes DEF GrowIdle, engine, EngineTyped
<1>3. StreamTyped' /\ StreamInv'
  BY <1>1, <1>2 DEF StreamTyped, StreamInv
<1>4. \A e \in Events : Published(e) => Published(e)'
  BY <1>2 DEF Published
<1> QED BY <1>2, <1>3, <1>4, OutsideKeeps

(* The end of a starting mark keeps the invariant.                         *)
LEMMA StartingExpiresKeeps ==
    ASSUME Inv, NEW w \in Workers, NEW f \in Events, StartingExpires(w, f)
    PROVE  Inv'
<1>1. UNCHANGED <<stream, worker, instance, launches>>
  BY DEF StartingExpires
<1>2. EngineTyped'
  BY CountTypes DEF StartingExpires, history, EngineTyped, Inv, TypeOK,
                    WorkersTyped
<1>3. StreamTyped' /\ StreamInv'
  BY <1>1 DEF Inv, TypeOK, StreamTyped, StreamInv, stream
<1>4. \A e \in Events : Published(e) => Published(e)'
  BY <1>1 DEF Published, stream
<1> QED BY <1>1, <1>2, <1>3, <1>4, OutsideKeeps

(* Nothing is published at the start.                                      *)
LEMMA InitInv == Init => Inv
<1> SUFFICES ASSUME Init PROVE Inv
  OBVIOUS
<1>1. /\ worker \in [Workers -> Loops]
      /\ \A w \in Workers : worker[w].pc = "claim" /\ worker[w].batch = <<>>
  BY LoopType DEF Init
<1>2. TypeOK
  BY <1>1, TriggerAssumption
     DEF CountCap, Init, TypeOK, StreamTyped, WorkersTyped, HistoryTyped
<1>3. \A e \in Events : ~Contains(backlog, e)
  BY DEF Init, Contains
<1>4. StreamInv
  BY <1>3 DEF Init, StreamInv
<1>5. OneOwner
  BY <1>1 DEF OneOwner, Owns
<1>6. LaunchCount
  BY DEF Init, LaunchCount, None
<1>7. \A w \in Workers : WorkerInv(w)
  BY <1>1 DEF WorkerInv, Contains
<1> QED BY <1>2, <1>4, <1>5, <1>6, <1>7 DEF Inv

(* Every step keeps the inductive invariant.                               *)
LEMMA NextInv == Inv /\ [Next]_vars => Inv'
<1> SUFFICES ASSUME Inv, [Next]_vars PROVE Inv'
  OBVIOUS
<1>1. ASSUME NEW e \in Events, Publish(e) \/ GrowIdle(e) PROVE Inv'
  BY <1>1, PublishKeeps, GrowIdleKeeps
<1>2. ASSUME NEW w \in Workers, WorkerStep(w) PROVE Inv'
  BY <1>2, ClaimPendingKeeps, ReadNewKeeps, CheckSingleInstanceKeeps,
     EnsureCompiledKeeps, CheckExistingKeeps, RegisterInstanceKeeps,
     AssociateImageKeeps, LaunchDetachedKeeps, HandleResultKeeps,
     HandleRetryKeeps, AcknowledgeKeeps DEF WorkerStep
<1>3. ASSUME NEW w \in Workers, NEW e \in Events, StartingExpires(w, e)
      PROVE  Inv'
  BY <1>3, StartingExpiresKeeps
<1>4. ASSUME NEW w \in Workers, Crash(w) PROVE Inv'
  BY <1>4, CrashKeeps
<1>5. CASE UNCHANGED vars
  <2>1. UNCHANGED <<stream, worker, instance, launches>> /\ EngineTyped'
    BY <1>5, CountTypes DEF vars, engine, history, EngineTyped
  <2>2. StreamTyped' /\ StreamInv'
    BY <2>1 DEF Inv, TypeOK, StreamTyped, StreamInv, stream
  <2>3. \A e \in Events : Published(e) => Published(e)'
    BY <2>1 DEF Published, stream
  <2> QED BY <2>1, <2>2, <2>3, OutsideKeeps
<1> QED BY <1>1, <1>2, <1>3, <1>4, <1>5 DEF Next

(* The inductive invariant holds.                                          *)
LEMMA InvHolds == Spec => []Inv
BY InitInv, NextInv, PTL DEF Spec

(* Every reachable state of the pipeline is well typed; a worker that      *)
(* processes an event has one.                                             *)
THEOREM TypeCorrect == Spec => []TypeOK
BY InvHolds, PTL DEF Inv

(* No event launches its instance twice, for any number of workers,        *)
(* redeliveries, crashes and lost answers: the row handle_start_instance   *)
(* inserts decides who launches.                                           *)
THEOREM LaunchesOnce == Spec => []LaunchedOnce
<1>1. Inv => LaunchedOnce
  BY DEF Inv, LaunchCount, LaunchedOnce, TypeOK, HistoryTyped
<1> QED BY <1>1, InvHolds, PTL

(***************************************************************************)
(* The refinement                                                          *)
(***************************************************************************)
Taken == {e \in Events : instance[e] # None}

(* A step that publishes, settles, takes and launches nothing is a stutter *)
(* of the contract.                                                        *)
LEMMA Stutters ==
    ASSUME \A e \in Events : Published(e) <=> Published(e)',
           UNCHANGED <<outcome, launches>>,
           \A e \in Events : instance[e] # None <=> instance'[e] # None
    PROVE  UNCHANGED Contract!vars
BY DEF Contract!vars, Open, Taken

(* The initial state is the contract's.                                    *)
LEMMA InitRefines == Init => Contract!Init
<1> SUFFICES ASSUME Init PROVE Contract!Init
  OBVIOUS
<1>1. \A e \in Events : ~Published(e)
  BY DEF Init, Published, Contains, None
<1> QED BY <1>1 DEF Init, Contract!Init, Open, None

(* publish is Send.                                                        *)
LEMMA PublishRefines ==
    ASSUME Inv, NEW f \in Events, Publish(f)
    PROVE  Contract!Send(f)
<1>1. /\ ~Published(f) /\ backlog' = Append(backlog, f)
      /\ UNCHANGED <<pel, outcome, instance, launches>>
      /\ backlog \in Seq(Events)
  BY DEF Publish, Inv, TypeOK, StreamTyped
<1>2. \A e : Contains(backlog', e) <=> Contains(backlog, e) \/ e = f
  <2>1. /\ Len(backlog) \in Nat /\ Len(backlog') = Len(backlog) + 1
        /\ \A i \in 1 .. Len(backlog) : backlog'[i] = backlog[i]
        /\ backlog'[Len(backlog) + 1] = f
    BY <1>1
  <2> QED BY <2>1 DEF Contains
<1>3. Open' = Open \cup {f}
  BY <1>1, <1>2 DEF Open, Published
<1>4. f \notin Open /\ outcome[f] = "none"
  BY <1>1 DEF Open, Published, None
<1> QED BY <1>1, <1>3, <1>4 DEF Contract!Send

(* A delivery is a stutter: a pending entry stays open.                    *)
LEMMA DeliveryRefines ==
    ASSUME Inv, NEW w \in Workers, ClaimPending(w) \/ ReadNew(w)
    PROVE  UNCHANGED Contract!vars
<1>1. TypeOK /\ StreamTyped /\ StreamInv /\ idle \in SUBSET Events
  BY DEF Inv, TypeOK, StreamTyped
<1>2. UNCHANGED <<outcome, instance, launches>>
  BY DEF ClaimPending, ReadNew, Deliver
<1>3. CASE ClaimPending(w)
  <2>1. PICK b \in SetToSeqs(idle) : Deliver(w, b, "read")
    BY <1>3 DEF ClaimPending
  <2>2. b \in Seq(Events) /\ \A e : Contains(b, e) => e \in idle
    BY <1>1, ClaimedAreIdle
  <2>3. \A e \in Events : pel'[e] > 0 <=> pel[e] > 0 \/ Contains(b, e)
    BY <1>1, <2>1, <2>2, DeliverDoes
  <2>4. \A e \in Events : Published(e) <=> Published(e)'
    BY <1>1, <1>2, <1>3, <2>2, <2>3 DEF StreamInv, Published, ClaimPending
  <2> QED BY <1>2, <2>4, Stutters
<1>4. CASE ReadNew(w)
  <2>1. PICK b \in Seq(Events) : b = backlog
    BY <1>1 DEF StreamTyped
  <2>2. Deliver(w, b, "claim") /\ \A e : ~Contains(backlog', e)
    BY <1>4, <2>1 DEF ReadNew, Contains
  <2>3. \A e \in Events : pel'[e] > 0 <=> pel[e] > 0 \/ Contains(b, e)
    BY <1>1, <2>2, DeliverDoes
  <2>4. \A e \in Events : Published(e) <=> Published(e)'
    BY <1>2, <2>1, <2>2, <2>3 DEF Published
  <2> QED BY <1>2, <2>4, Stutters
<1> QED BY <1>3, <1>4

(* The insert of the instance row is Take.                                 *)
LEMMA RegisterRefines ==
    ASSUME Inv, NEW w \in Workers, RegisterInstance(w)
    PROVE  \/ UNCHANGED Contract!vars
           \/ \E f \in Events : Contract!Take(f)
<1>1. UNCHANGED <<stream, launches>>
  BY DEF RegisterInstance
<1>2. \A e \in Events : Published(e) <=> Published(e)'
  BY <1>1 DEF stream, Published
<1>3. CASE UNCHANGED instance
  BY <1>1, <1>2, <1>3, Stutters DEF stream
<1>4. CASE ~UNCHANGED instance
  <2>1. PICK f : f = Current(w)
    OBVIOUS
  <2>2. /\ worker[w].pc = "insert" /\ instance[f] = None
        /\ instance' = [instance EXCEPT ![f] = "row"]
    BY <1>4, <2>1 DEF RegisterInstance, At
  <2>3. f \in Events /\ Contains(worker[w].batch, f)
    BY <2>1, <2>2, CurrentType DEF Inv, TypeOK, Contains
  <2>4. Published(f)
    BY <2>3 DEF Inv, WorkerInv
  <2>5. Taken' = Taken \cup {f} /\ f \notin Taken
    BY <2>2, <2>3 DEF Taken, Inv, TypeOK, HistoryTyped, None
  <2>6. Contract!Known(f)
    BY <2>3, <2>4 DEF Contract!Known, Open, None
  <2>7. UNCHANGED <<Open, outcome, launches>>
    BY <1>1, <1>2 DEF Open, stream
  <2>8. Contract!Take(f)
    BY <2>5, <2>6, <2>7 DEF Contract!Take, Taken
  <2> QED BY <2>3, <2>8
<1> QED BY <1>3, <1>4

(* The launch is Launch, or it fails.                                      *)
LEMMA LaunchRefines ==
    ASSUME Inv, NEW w \in Workers, LaunchDetached(w)
    PROVE  \/ UNCHANGED Contract!vars
           \/ \E f \in Events : Contract!Launch(f)
<1>1. UNCHANGED stream
  BY DEF LaunchDetached
<1>2. \A e \in Events : Published(e) <=> Published(e)'
  BY <1>1 DEF stream, Published
<1>3. PICK f : f = Current(w)
  OBVIOUS
<1>4. /\ worker[w].pc = "launch" /\ f \in Events
      /\ instance \in [Events -> {None, "row", "pending", "launched",
                                  "failed"}]
  BY <1>3, CurrentType DEF LaunchDetached, At, Inv, TypeOK, HistoryTyped
<1>5. instance[f] = "pending" /\ launches[f] = 0
  BY <1>3, <1>4 DEF Inv, WorkerInv, LaunchCount
<1>6. \E s \in {"launched", "failed"} :
        instance' = [instance EXCEPT ![f] = s]
  BY <1>3 DEF LaunchDetached
<1>7. \A e \in Events : instance[e] # None <=> instance'[e] # None
  BY <1>4, <1>5, <1>6 DEF None
<1>8. CASE UNCHANGED launches
  BY <1>1, <1>2, <1>7, <1>8, Stutters DEF stream
<1>9. CASE ~UNCHANGED launches
  <2>1. launches' = [launches EXCEPT ![f] = 1]
    BY <1>3, <1>5, <1>9 DEF LaunchDetached
  <2>2. UNCHANGED <<Open, outcome, Taken>> /\ f \in Taken
    BY <1>1, <1>2, <1>4, <1>5, <1>7 DEF Open, Taken, stream, None
  <2>3. Contract!Launch(f)
    BY <1>5, <2>1, <2>2 DEF Contract!Launch, Taken
  <2> QED BY <1>4, <2>3
<1> QED BY <1>8, <1>9

(* XACK is Settle, or the entry was no longer pending.                     *)
LEMMA AcknowledgeRefines ==
    ASSUME Inv, NEW w \in Workers, Acknowledge(w)
    PROVE  \/ UNCHANGED Contract!vars
           \/ \E f \in Events : Contract!Settle(f)
<1>1. PICK f : f = Current(w)
  OBVIOUS
<1>2. PICK r : r = worker[w].result
  OBVIOUS
<1>3. /\ f \in Events /\ r \in Outcomes
      /\ \/ /\ pel[f] > 0 /\ pel' = [pel EXCEPT ![f] = 0]
            /\ outcome' = [outcome EXCEPT ![f] = r]
         \/ UNCHANGED <<pel, outcome>>
      /\ UNCHANGED <<backlog, instance, launches>>
      /\ worker[w].pc = "ack"
  BY <1>1, <1>2, AcknowledgeDoes
<1>4. StreamTyped /\ StreamInv
  BY DEF Inv, TypeOK
<1>5. CASE UNCHANGED <<pel, outcome>>
  BY <1>3, <1>5, Stutters DEF Published
<1>6. CASE /\ pel[f] > 0 /\ pel' = [pel EXCEPT ![f] = 0]
           /\ outcome' = [outcome EXCEPT ![f] = r]
  <2>1. outcome[f] = None /\ f \in Open
    BY <1>3, <1>4, <1>6 DEF StreamInv, Open, Published
  <2>2. r # None
    BY <1>3 DEF Outcomes, Results, None
  <2>3. Open' = Open \ {f}
    <3>1. f \notin Open'
      BY <1>3, <1>4, <1>6, <2>2 DEF Open, StreamTyped
    <3>2. ASSUME NEW e \in Events, e # f
          PROVE  e \in Open' <=> e \in Open
      BY <1>3, <1>4, <1>6, <3>2 DEF Open, Published, StreamTyped
    <3> QED BY <3>1, <3>2 DEF Open
  <2>4. /\ r \in {"started", "deduplicated"} => f \in Taken
        /\ r = "started" => launches[f] = 1
    BY <1>1, <1>2, <1>3 DEF Inv, WorkerInv, LaunchCount, Taken, None
  <2>5. UNCHANGED <<Taken, launches>>
    BY <1>3 DEF Taken
  <2>6. Contract!Settle(f)
    BY <1>3, <1>6, <2>1, <2>3, <2>4, <2>5 DEF Contract!Settle, Taken
  <2> QED BY <1>3, <2>6
<1> QED BY <1>3, <1>5, <1>6

(* The rest of what a worker does is a stutter.                            *)
LEMMA InternalRefines ==
    ASSUME Inv, NEW w \in Workers,
           \/ CheckSingleInstance(w) \/ EnsureCompiled(w) \/ CheckExisting(w)
           \/ AssociateImage(w) \/ HandleResult(w) \/ HandleRetry(w)
           \/ Crash(w) \/ \E e \in Events : StartingExpires(w, e)
    PROVE  UNCHANGED Contract!vars
<1>1. UNCHANGED <<stream, launches>>
  BY DEF CheckSingleInstance, EnsureCompiled, CheckExisting, AssociateImage,
         HandleResult, HandleRetry, Crash, StartingExpires
<1>2. \A e \in Events : Published(e) <=> Published(e)'
  BY <1>1 DEF stream, Published
<1>3. \A e \in Events : instance[e] # None <=> instance'[e] # None
  <2>1. CASE UNCHANGED instance
    BY <2>1
  <2>2. CASE ~UNCHANGED instance
    <3>1. AssociateImage(w) /\ worker[w].pc = "associate"
      BY <2>2 DEF CheckSingleInstance, EnsureCompiled, CheckExisting,
                  AssociateImage, HandleResult, HandleRetry, Crash,
                  StartingExpires, At
    <3>2. PICK f : f = Current(w)
      OBVIOUS
    <3>3. instance[f] = "row" /\ instance' = [instance EXCEPT ![f] = "pending"]
      BY <2>2, <3>1, <3>2 DEF AssociateImage, Inv, WorkerInv
    <3> QED BY <3>3 DEF Inv, TypeOK, HistoryTyped, None
  <2> QED BY <2>1, <2>2
<1> QED BY <1>1, <1>2, <1>3, Stutters DEF stream

(* Every step is a step of the contract or a stutter.                      *)
LEMMA NextRefines == Inv /\ [Next]_vars => [Contract!Next]_(Contract!vars)
<1> SUFFICES ASSUME Inv, [Next]_vars PROVE [Contract!Next]_(Contract!vars)
  OBVIOUS
<1>1. ASSUME NEW e \in Events, Publish(e)
      PROVE  Contract!Next
  BY <1>1, PublishRefines DEF Contract!Next
<1>2. ASSUME NEW e \in Events, GrowIdle(e)
      PROVE  UNCHANGED Contract!vars
  BY <1>2, Stutters DEF GrowIdle, Published
<1>3. ASSUME NEW w \in Workers, WorkerStep(w)
      PROVE  Contract!Next \/ UNCHANGED Contract!vars
  BY <1>3, DeliveryRefines, InternalRefines, RegisterRefines, LaunchRefines,
     AcknowledgeRefines DEF WorkerStep, Contract!Next
<1>4. ASSUME NEW w \in Workers,
             Crash(w) \/ \E e \in Events : StartingExpires(w, e)
      PROVE  UNCHANGED Contract!vars
  BY <1>4, InternalRefines
<1>5. CASE UNCHANGED vars
  BY <1>5, Stutters DEF vars, stream, Published
<1> QED BY <1>1, <1>2, <1>3, <1>4, <1>5 DEF Next

(* The pipeline implements the contract: a published event is settled at   *)
(* most once, launched at most once and only under a taken instance id,    *)
(* and acknowledged as started or replayed only if that has happened.      *)
(* That it is settled in the end is left to TLC (KeepsContract).           *)
THEOREM PipelineRefinesContract == Spec => Contract!Spec
BY InitRefines, NextRefines, InvHolds, PTL DEF Spec, Contract!Spec
=============================================================================
