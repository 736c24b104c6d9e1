---------------------------- MODULE FiringProofs ----------------------------
(***************************************************************************)
(* While nothing fails, every entry of the trigger stream is in one place  *)
(* at a time, so that trigger.fired is emitted exactly once per event, for *)
(* any finite set of events and any number of workers and retries.         *)
(***************************************************************************)
EXTENDS TriggerProofs

NoRepeats(s) == \A i, j \in 1 .. Len(s) : s[i] = s[j] => i = j

Holds(w, e) == Contains(worker[w].batch, e)

(* An entry is read once and is in one batch; one that a worker holds is   *)
(* pending and not idle, so that no other worker can claim it.             *)
Exclusive ==
    /\ NoRepeats(backlog)
    /\ \A w \in Workers : NoRepeats(worker[w].batch)
    /\ \A w, x \in Workers, e \in Events : Holds(w, e) /\ Holds(x, e) => w = x
    /\ \A w \in Workers, e \in Events :
         Holds(w, e) => pel[e] > 0 /\ e \notin idle

Processing(w) == worker[w].pc \notin {"claim", "read"}

(* The id of the event's instance may have been taken.                     *)
Started(w) ==
    \/ worker[w].pc \in {"associate", "launch", "ack"}
    \/ worker[w].pc = "result" /\ worker[w].result # "retry"

(* A worker finds the id of its event free, meets no replay, and has       *)
(* emitted trigger.fired exactly when it is about to acknowledge.          *)
FiringInv(w) ==
    Processing(w) =>
        /\ ~Started(w) => instance[Current(w)] = None
        /\ worker[w].pc = "result" =>
             worker[w].result \in {"started", "skipped", "failed", "retry"}
        /\ fired[Current(w)] =
             IF worker[w].pc = "ack" /\ Current(w) \in Triggered THEN 1 ELSE 0

(* Nothing has happened for an event that nobody processes, unless it is   *)
(* settled; then it has been reported.                                     *)
AtRest(e) == \A w \in Workers : Processing(w) => Current(w) # e

RestInv(e) ==
    /\ outcome[e] = None /\ AtRest(e) => instance[e] = None /\ fired[e] = 0
    /\ outcome[e] # None /\ e \in Triggered => fired[e] = 1

CalmInv ==
    /\ Exclusive
    /\ \A w \in Workers : FiringInv(w)
    /\ \A e \in Events : RestInv(e)

(* What holds as long as nothing has failed.                               *)
OneDelivery == faults = 0 => CalmInv

(***************************************************************************)
(* Sequences without repetitions                                           *)
(***************************************************************************)

(* The head of such a sequence is not in its tail.                         *)
LEMMA HeadTail ==
    ASSUME NEW S, NEW b \in Seq(S), b # <<>>, NoRepeats(b)
    PROVE  /\ NoRepeats(Tail(b)) /\ Contains(b, Head(b))
           /\ ~Contains(Tail(b), Head(b))
           /\ \A e : Contains(Tail(b), e) => Contains(b, e)
           /\ \A e : Contains(b, e) => e = Head(b) \/ Contains(Tail(b), e)
<1> DEFINE t == Tail(b)
<1>1. /\ t \in Seq(S) /\ Len(b) \in Nat /\ Len(b) > 0
      /\ Len(t) = Len(b) - 1 /\ Head(b) = b[1]
      /\ \A i \in 1 .. Len(t) : t[i] = b[i + 1]
  OBVIOUS
<1> HIDE DEF t
<1>2. NoRepeats(t)
  <2>1. ASSUME NEW i \in 1 .. Len(t), NEW j \in 1 .. Len(t), t[i] = t[j]
        PROVE  i = j
    <3>1. i + 1 \in 1 .. Len(b) /\ j + 1 \in 1 .. Len(b)
      BY <1>1
    <3>2. b[i + 1] = b[j + 1]
      BY <1>1, <2>1
    <3> QED BY <3>1, <3>2 DEF NoRepeats
  <2> QED BY <2>1 DEF NoRepeats
<1>3. Contains(b, Head(b))
  BY <1>1 DEF Contains
<1>4. ~Contains(t, Head(b))
  <2>1. SUFFICES ASSUME NEW i \in 1 .. Len(t), t[i] = b[1]
                 PROVE  FALSE
    BY <1>1 DEF Contains
  <2>2. i + 1 \in 1 .. Len(b) /\ 1 \in 1 .. Len(b) /\ b[i + 1] = b[1]
    BY <1>1, <2>1
  <2> QED BY <2>2 DEF NoRepeats
<1>5. ASSUME NEW e, Contains(t, e)
      PROVE  Contains(b, e)
  <2>1. PICK i \in 1 .. Len(t) : t[i] = e
    BY <1>5 DEF Contains
  <2>2. i + 1 \in 1 .. Len(b) /\ b[i + 1] = e
    BY <1>1, <2>1
  <2> QED BY <2>2 DEF Contains
<1>6. ASSUME NEW e, Contains(b, e), e # Head(b)
      PROVE  Contains(t, e)
  <2>1. PICK i \in 1 .. Len(b) : b[i] = e
    BY <1>6 DEF Contains
  <2>2. i - 1 \in 1 .. Len(t) /\ t[i - 1] = e
    BY <1>1, <1>6, <2>1
  <2> QED BY <2>2 DEF Contains
<1> QED BY <1>2, <1>3, <1>4, <1>5, <1>6 DEF t

(* The claimed entries are put in some order, each once.                   *)
LEMMA ClaimedOnce ==
    ASSUME idle \in SUBSET Events, NEW b \in SetToSeqs(idle)
    PROVE  NoRepeats(b)
<1>1. Cardinality(idle) \in Nat
  BY TriggerAssumption, FS_Subset, FS_CardinalityType
<1>2. /\ b \in [1 .. Cardinality(idle) -> idle]
      /\ \A i, j \in 1 .. Cardinality(idle) : i # j => b[i] # b[j]
  BY DEF SetToSeqs
<1>3. Len(b) = Cardinality(idle)
  BY <1>1, <1>2
<1> QED BY <1>2, <1>3 DEF NoRepeats

(* A new entry is appended once.                                           *)
LEMMA AppendOnce ==
    ASSUME NEW S, NEW b \in Seq(S), NEW f \in S, NoRepeats(b), ~Contains(b, f)
    PROVE  NoRepeats(Append(b, f))
<1> DEFINE a == Append(b, f)
<1>1. /\ Len(b) \in Nat /\ Len(a) = Len(b) + 1 /\ a[Len(b) + 1] = f
      /\ \A i \in 1 .. Len(b) : a[i] = b[i]
  OBVIOUS
<1> HIDE DEF a
<1>2. ASSUME NEW i \in 1 .. Len(a), NEW j \in 1 .. Len(a), a[i] = a[j]
      PROVE  i = j
  <2>1. CASE i \in 1 .. Len(b) /\ j \in 1 .. Len(b)
    BY <1>1, <1>2, <2>1 DEF NoRepeats
  <2>2. CASE i \in 1 .. Len(b) /\ j = Len(b) + 1
    BY <1>1, <1>2, <2>2 DEF Contains
  <2>3. CASE i = Len(b) + 1 /\ j \in 1 .. Len(b)
    BY <1>1, <1>2, <2>3 DEF Contains
  <2> QED BY <1>1, <2>1, <2>2, <2>3
<1> QED BY <1>2 DEF NoRepeats, a

(***************************************************************************)
(* Steps of a worker                                                       *)
(***************************************************************************)

(* Nothing fails in a step after which nothing has failed.                 *)
LEMMA NoFault ==
    ASSUME Inv, faults' = 0
    PROVE  \A hazard : ~Fails(hazard)
BY DEF Fails, Inv, TypeOK, HistoryTyped

(* Nobody else processes what a worker holds.                              *)
LEMMA HeldAlone ==
    ASSUME Inv, CalmInv, NEW w \in Workers, Processing(w)
    PROVE  /\ Current(w) \in Events /\ Holds(w, Current(w))
           /\ outcome[Current(w)] = None
           /\ \A x \in Workers : x # w => ~Holds(x, Current(w))
           /\ \A x \in Workers : x # w /\ Processing(x) =>
                Current(x) # Current(w)
<1>1. ASSUME NEW x \in Workers, Processing(x)
      PROVE  Current(x) \in Events /\ Holds(x, Current(x))
  <2>1. /\ Current(x) \in Events /\ Current(x) = worker[x].batch[1]
        /\ 1 \in 1 .. Len(worker[x].batch)
    BY <1>1, CurrentType DEF Inv, TypeOK, Processing
  <2> QED BY <2>1 DEF Holds, Contains
<1>2. Current(w) \in Events /\ Holds(w, Current(w))
  BY <1>1
<1>3. pel[Current(w)] > 0
  BY <1>2 DEF CalmInv, Exclusive
<1>4. outcome[Current(w)] = None
  BY <1>2, <1>3 DEF Inv, StreamInv
<1>5. \A x \in Workers : x # w => ~Holds(x, Current(w))
  BY <1>2 DEF CalmInv, Exclusive
<1> QED BY <1>1, <1>2, <1>4, <1>5

(* A step of a worker that keeps its batch and leaves the stream alone may *)
(* only concern the event it processes.                                    *)
LEMMA SameBatch ==
    ASSUME Inv, CalmInv, NEW w \in Workers, Processing(w), Processing(w)',
           UNCHANGED stream, OthersStay(w),
           worker'[w].batch = worker[w].batch,
           \A e \in Events : e # Current(w) =>
             instance'[e] = instance[e] /\ fired'[e] = fired[e],
           FiringInv(w)'
    PROVE  CalmInv'
<1>1. \A x \in Workers : worker'[x].batch = worker[x].batch
  BY DEF OthersStay
<1>2. Exclusive'
  <2>1. \A x \in Workers, e \in Events : Holds(x, e)' <=> Holds(x, e)
    BY <1>1 DEF Holds
  <2>2. /\ NoRepeats(backlog')
        /\ \A x \in Workers : NoRepeats(worker'[x].batch)
    BY <1>1 DEF CalmInv, Exclusive, stream
  <2> QED BY <2>1, <2>2 DEF CalmInv, Exclusive, stream
<1>3. \A x \in Workers : /\ Current(x)' = Current(x)
                        /\ Processing(x)' = Processing(x)
  BY <1>1 DEF Current, Processing, OthersStay
<1>4. ASSUME NEW x \in Workers, x # w
      PROVE  FiringInv(x)'
  <2>1. CASE ~Processing(x)
    BY <1>3, <2>1 DEF FiringInv, Processing
  <2>2. CASE Processing(x)
    <3>1. Current(x) \in Events /\ Current(x) # Current(w)
      BY <1>4, <2>2, HeldAlone
    <3>2. worker'[x] = worker[x] /\ FiringInv(x)
      BY <1>4 DEF OthersStay, CalmInv
    <3> QED BY <1>3, <3>1, <3>2 DEF FiringInv, Processing, Started
  <2> QED BY <2>1, <2>2
<1>5. ASSUME NEW e \in Events
      PROVE  RestInv(e)'
  <2>1. RestInv(e) /\ outcome'[e] = outcome[e]
    BY DEF CalmInv, stream
  <2>2. CASE e = Current(w)
    <3>1. outcome[e] = None
      BY <2>2, HeldAlone
    <3>2. ~AtRest(e)'
      BY <1>3, <2>2 DEF AtRest
    <3> QED BY <2>1, <3>1, <3>2 DEF RestInv
  <2>3. CASE e # Current(w)
    <3>1. AtRest(e)' <=> AtRest(e)
      BY <1>3 DEF AtRest, Processing, Current
    <3>2. instance'[e] = instance[e] /\ fired'[e] = fired[e]
      BY <2>3
    <3> QED BY <2>1, <3>1, <3>2 DEF RestInv
  <2> QED BY <2>2, <2>3
<1> QED BY <1>2, <1>4, <1>5 DEF CalmInv

(* The next event of the batch is the head of its tail.                    *)
LEMMA NextEventTail ==
    ASSUME WorkersTyped, NEW w \in Workers, Processing(w), NextEvent(w)
    PROVE  /\ worker'[w].batch = Tail(worker[w].batch) /\ OthersStay(w)
           /\ worker'[w].pc \in {"event", "claim", "read"}
<1> DEFINE rest == Tail(worker[w].batch)
<1>1. OthersStay(w) /\ worker'[w].pc \in {"event", "claim", "read"}
  BY NextEventDoes DEF Processing
<1>2. worker[w] \in Loops /\ worker \in [Workers -> Loops]
  BY DEF WorkersTyped
<1>3. CASE rest = <<>>
  <2>1. worker'[w] = Loop(worker[w].next)
    BY <1>2, <1>3 DEF NextEvent
  <2> QED BY <1>1, <1>3, <2>1 DEF Loop
<1>4. CASE rest # <<>>
  <2>1. worker'[w] = [worker[w] EXCEPT !.pc = "event", !.batch = rest,
                                       !.result = None]
    BY <1>2, <1>4 DEF NextEvent
  <2> QED BY <1>1, <1>2, <2>1 DEF Loops
<1> QED BY <1>3, <1>4

(* A worker that goes on with its next event, when the last one is settled *)
(* and reported, or untouched.                                             *)
LEMMA NextKeeps ==
    ASSUME Inv, Inv', CalmInv, NEW w \in Workers, Processing(w), NextEvent(w),
           UNCHANGED <<backlog, instance, fired>>,
           idle' \subseteq idle,
           \A e \in Events : e # Current(w) =>
             outcome'[e] = outcome[e] /\ pel'[e] = pel[e],
           \/ /\ outcome'[Current(w)] = None
              /\ instance[Current(w)] = None /\ fired[Current(w)] = 0
           \/ /\ outcome'[Current(w)] # None
              /\ Current(w) \in Triggered => fired[Current(w)] = 1
    PROVE  CalmInv'
<1> DEFINE b == worker[w].batch
           c == Current(w)
<1>1. /\ WorkersTyped /\ worker[w].batch \in Seq(Events)
      /\ worker[w].batch # <<>> /\ NoRepeats(worker[w].batch)
  BY DEF Inv, TypeOK, WorkersTyped, Loops, Processing, CalmInv, Exclusive
<1>2. /\ NoRepeats(Tail(b)) /\ ~Contains(Tail(b), c)
      /\ \A e : Contains(Tail(b), e) => Contains(b, e)
  BY <1>1, HeadTail DEF Current
<1>3. /\ worker'[w].batch = Tail(b) /\ OthersStay(w)
      /\ worker'[w].pc \in {"event", "claim", "read"}
  BY <1>1, NextEventTail
<1>4. /\ c \in Events
      /\ \A x \in Workers : x # w => ~Holds(x, c)
      /\ \A x \in Workers : x # w /\ Processing(x) => Current(x) # c
  BY HeldAlone
<1> HIDE DEF b, c
<1>5. ASSUME NEW x \in Workers
      PROVE  /\ NoRepeats(worker'[x].batch)
             /\ \A e \in Events : Holds(x, e)' => Holds(x, e) /\ e # c
  <2>1. CASE x = w
    BY <1>2, <1>3, <2>1 DEF Holds, b
  <2>2. CASE x # w
    BY <1>3, <1>4, <2>2 DEF Holds, OthersStay, CalmInv, Exclusive
  <2> QED BY <2>1, <2>2
<1>6. Exclusive'
  <2>1. \A x, y \in Workers, e \in Events :
          Holds(x, e)' /\ Holds(y, e)' => x = y
    BY <1>5 DEF CalmInv, Exclusive
  <2>2. \A x \in Workers, e \in Events :
          Holds(x, e)' => pel'[e] > 0 /\ e \notin idle'
    BY <1>5 DEF CalmInv, Exclusive, c
  <2>3. NoRepeats(backlog')
    BY DEF CalmInv, Exclusive
  <2> QED BY <1>5, <2>1, <2>2, <2>3 DEF Exclusive
<1>7. ASSUME NEW x \in Workers, x # w
      PROVE  FiringInv(x)'
  <2>1. worker'[x] = worker[x] /\ FiringInv(x) /\ Current(x)' = Current(x)
    BY <1>3, <1>7 DEF OthersStay, CalmInv, Current
  <2> QED BY <2>1 DEF FiringInv, Processing, Started
<1>8. FiringInv(w)'
  <2>1. SUFFICES ASSUME Processing(w)'
                 PROVE  /\ instance[Current(w)'] = None
                        /\ fired[Current(w)'] = 0
    BY <1>3 DEF FiringInv, Processing
  <2>2. PICK n : n = Current(w)'
    OBVIOUS
  <2>3. n \in Events /\ Holds(w, n)'
    <3>1. WorkersTyped'
      BY DEF Inv, TypeOK
    <3>2. /\ worker'[w].batch \in Seq(Events) /\ worker'[w].batch # <<>>
      BY <2>1, <3>1 DEF WorkersTyped, Loops, Processing
    <3>3. n \in Events /\ n = worker'[w].batch[1]
          /\ 1 \in 1 .. Len(worker'[w].batch)
      BY <2>2, <3>2 DEF Current
    <3> QED BY <3>3 DEF Holds, Contains
  <2>4. Holds(w, n) /\ n # c
    BY <1>5, <2>3
  <2>5. AtRest(n)
    <3>1. ASSUME NEW x \in Workers, x # w, Processing(x)
          PROVE  Current(x) # n
      <4>1. Holds(x, Current(x))
        BY <3>1, HeldAlone
      <4> QED BY <2>3, <2>4, <3>1, <4>1 DEF CalmInv, Exclusive
    <3> QED BY <2>4, <3>1 DEF AtRest, c
  <2>6. outcome[n] = None
    BY <2>3, <2>4 DEF CalmInv, Exclusive, Inv, StreamInv
  <2> QED BY <2>2, <2>3, <2>5, <2>6 DEF CalmInv, RestInv
<1>9. ASSUME NEW e \in Events
      PROVE  RestInv(e)'
  <2>1. CASE e = c
    BY <2>1 DEF RestInv, c
  <2>2. CASE e # c
    <3>1. outcome'[e] = outcome[e] /\ RestInv(e)
      BY <2>2 DEF c, CalmInv
    <3>2. ASSUME AtRest(e)' PROVE AtRest(e)
      <4>1. \A x \in Workers : x # w /\ Processing(x) => Current(x) # e
        BY <1>3, <3>2 DEF AtRest, OthersStay, Processing, Current
      <4> QED BY <2>2, <4>1 DEF AtRest, c
    <3> QED BY <3>1, <3>2 DEF RestInv
  <2> QED BY <2>1, <2>2
<1> QED BY <1>6, <1>7, <1>8, <1>9 DEF CalmInv

(* A new location before the insert, or the delivery count, for an event   *)
(* whose id is free.                                                       *)
LEMMA PlainFires ==
    ASSUME Inv, CalmInv, NEW w \in Workers, Processing(w), ~Started(w),
           NEW l \in {"compiled", "check", "insert", "count"}, Goto(w, l),
           UNCHANGED <<stream, instance, fired>>
    PROVE  CalmInv'
<1>1. WorkersTyped /\ l \in PCs \ {"claim", "read"}
  BY DEF Inv, TypeOK, PCs, StartPCs
<1>2. /\ OthersStay(w) /\ worker'[w].pc = l
      /\ worker'[w].batch = worker[w].batch
  BY <1>1, GotoDoes DEF Processing
<1>3. FiringInv(w) /\ worker[w].pc # "ack"
  BY DEF CalmInv, Started
<1>4. Current(w)' = Current(w) /\ Processing(w)'
  BY <1>2 DEF Current, Processing
<1>5. FiringInv(w)'
  BY <1>2, <1>3, <1>4 DEF FiringInv, Started
<1> QED BY <1>2, <1>4, <1>5, SameBatch

(* The result of an event that has not been reported; a retry leaves the   *)
(* id free.                                                                *)
LEMMA ResultFires ==
    ASSUME Inv, CalmInv, NEW w \in Workers, Processing(w),
           worker[w].pc # "ack",
           NEW r \in {"started", "skipped", "failed", "retry"}, Result(w, r),
           UNCHANGED <<stream, fired>>,
           \A e \in Events : e # Current(w) => instance'[e] = instance[e],
           r = "retry" => instance'[Current(w)] = None
    PROVE  CalmInv'
<1>1. WorkersTyped /\ r \in Results
  BY DEF Inv, TypeOK, Results
<1>2. /\ OthersStay(w) /\ worker'[w].pc = "result"
      /\ worker'[w].batch = worker[w].batch /\ worker'[w].result = r
  BY <1>1, ResultDoes DEF Processing
<1>3. FiringInv(w)
  BY DEF CalmInv
<1>4. Current(w)' = Current(w) /\ Processing(w)'
  BY <1>2 DEF Current, Processing
<1>5. FiringInv(w)'
  BY <1>2, <1>3, <1>4 DEF FiringInv, Started
<1> QED BY <1>2, <1>4, <1>5, SameBatch

(* The steps that do not touch an instance.                                *)
LEMMA ChecksFire ==
    ASSUME Inv, CalmInv, NEW w \in Workers, faults' = 0,
           CheckSingleInstance(w) \/ EnsureCompiled(w) \/ CheckExisting(w)
    PROVE  CalmInv'
<1>1. /\ Processing(w) /\ ~Started(w) /\ worker[w].pc # "ack"
      /\ UNCHANGED <<stream, instance, fired>>
  BY DEF CheckSingleInstance, EnsureCompiled, CheckExisting, At, Processing,
         Started, history
<1>2. instance[Current(w)] = None
  BY <1>1 DEF CalmInv, FiringInv
<1>3. \/ \E l \in {"compiled", "check", "insert"} : Goto(w, l)
      \/ \E r \in {"skipped", "retry", "failed"} : Result(w, r)
  BY <1>2 DEF CheckSingleInstance, EnsureCompiled, CheckExisting, Returns
<1>4. CASE \E l \in {"compiled", "check", "insert"} : Goto(w, l)
  BY <1>1, <1>4, PlainFires
<1>5. CASE \E r \in {"skipped", "retry", "failed"} : Result(w, r)
  BY <1>1, <1>2, <1>5, ResultFires
<1> QED BY <1>3, <1>4, <1>5

(* A worker finds the id of its event free, takes it and launches the      *)
(* instance.                                                               *)
LEMMA StartFires ==
    ASSUME Inv, CalmInv, NEW w \in Workers, faults' = 0,
           RegisterInstance(w) \/ AssociateImage(w) \/ LaunchDetached(w)
    PROVE  CalmInv'
<1>1. /\ Processing(w) /\ worker[w].pc \in {"insert", "associate", "launch"}
      /\ UNCHANGED <<stream, fired>>
  BY DEF RegisterInstance, AssociateImage, LaunchDetached, At, Processing,
         history
<1>2. /\ instance \in [Events -> {None, "row", "pending", "launched",
                                  "failed"}]
      /\ WorkersTyped
  BY DEF Inv, TypeOK, HistoryTyped
<1>3. worker[w].pc = "insert" => instance[Current(w)] = None
  BY <1>1 DEF CalmInv, FiringInv, Started
<1>4. \A hazard : ~Fails(hazard)
  BY NoFault
<1>5. /\ \E s : instance' = [instance EXCEPT ![Current(w)] = s]
      /\ \/ Goto(w, "associate") \/ Goto(w, "launch")
         \/ Result(w, "started")
  BY <1>1, <1>3, <1>4
     DEF RegisterInstance, AssociateImage, LaunchDetached, Returns, At
<1>6. \A e \in Events : e # Current(w) => instance'[e] = instance[e]
  BY <1>2, <1>5
<1>7. ASSUME NEW l \in {"associate", "launch"}, Goto(w, l)
      PROVE  CalmInv'
  <2>1. l \in PCs \ {"claim", "read"}
    BY DEF PCs, StartPCs
  <2>2. /\ OthersStay(w) /\ worker'[w].pc = l
        /\ worker'[w].batch = worker[w].batch
    BY <1>1, <1>2, <1>7, <2>1, GotoDoes DEF Processing
  <2>3. FiringInv(w)
    BY DEF CalmInv
  <2>4. Current(w)' = Current(w) /\ Processing(w)'
    BY <2>2 DEF Current, Processing
  <2>5. FiringInv(w)'
    BY <1>1, <2>2, <2>3, <2>4 DEF FiringInv, Started
  <2> QED BY <1>1, <1>6, <2>2, <2>4, <2>5, SameBatch
<1>8. CASE Result(w, "started")
  BY <1>1, <1>6, <1>8, ResultFires
<1> QED BY <1>5, <1>7, <1>8

(* What a report does.                                                     *)
LEMMA EmitDoes ==
    ASSUME Inv, NEW c \in Events, EmitFired(c)
    PROVE  /\ fired'[c] = fired[c] + (IF c \in Triggered THEN 1 ELSE 0)
           /\ \A e \in Events : e # c => fired'[e] = fired[e]
BY DEF EmitFired, Inv, TypeOK, HistoryTyped

(* Every result but a retry is reported on the way to the acknowledgement. *)
LEMMA HandleResultFires ==
    ASSUME Inv, CalmInv, NEW w \in Workers, HandleResult(w)
    PROVE  CalmInv'
<1>1. /\ worker[w].pc = "result" /\ Processing(w)
      /\ UNCHANGED <<stream, instance>> /\ WorkersTyped
  BY DEF HandleResult, At, Processing, Inv, TypeOK
<1>2. /\ worker[w].result \in {"started", "skipped", "failed", "retry"}
      /\ FiringInv(w) /\ Current(w) \in Events
  BY <1>1, HeldAlone DEF CalmInv, FiringInv
<1>3. CASE worker[w].result = "retry"
  <2>1. Goto(w, "count") /\ UNCHANGED fired /\ ~Started(w)
    BY <1>1, <1>3 DEF HandleResult, Started
  <2> QED BY <1>1, <2>1, PlainFires
<1>4. CASE worker[w].result \in {"started", "skipped", "failed"}
  <2>1. Goto(w, "ack") /\ EmitFired(Current(w)) /\ "ack" \in PCs
    BY <1>4 DEF HandleResult, PCs
  <2>2. /\ OthersStay(w) /\ worker'[w].pc = "ack"
        /\ worker'[w].batch = worker[w].batch
        /\ worker'[w].result = worker[w].result
    BY <1>1, <2>1, GotoDoes
  <2>3. Current(w)' = Current(w) /\ Processing(w)'
    BY <2>2 DEF Current, Processing
  <2>4. /\ fired'[Current(w)] =
             IF Current(w) \in Triggered THEN 1 ELSE 0
        /\ \A e \in Events : e # Current(w) => fired'[e] = fired[e]
    BY <1>1, <1>2, <2>1, EmitDoes DEF FiringInv
  <2>5. FiringInv(w)'
    BY <1>2, <2>2, <2>3, <2>4 DEF FiringInv, Started
  <2> QED BY <1>1, <2>2, <2>3, <2>4, <2>5, SameBatch
<1> QED BY <1>2, <1>3, <1>4

(* A retry leaves its event as it was, or gives it up and reports it.      *)
LEMMA HandleRetryFires ==
    ASSUME Inv, Inv', CalmInv, NEW w \in Workers, HandleRetry(w)
    PROVE  CalmInv'
<1>1. /\ worker[w].pc = "count" /\ Processing(w) /\ ~Started(w)
      /\ UNCHANGED <<stream, instance>> /\ WorkersTyped
  BY DEF HandleRetry, At, Processing, Started, Inv, TypeOK
<1>2. /\ FiringInv(w) /\ Current(w) \in Events /\ outcome[Current(w)] = None
  BY <1>1, HeldAlone DEF CalmInv
<1>3. instance[Current(w)] = None /\ fired[Current(w)] = 0
  BY <1>1, <1>2 DEF FiringInv
<1>4. CASE NextEvent(w) /\ UNCHANGED fired
  BY <1>1, <1>2, <1>3, <1>4, NextKeeps DEF stream
<1>5. CASE /\ EmitFired(Current(w))
           /\ worker' = [worker EXCEPT ![w].pc = "ack",
                                       ![w].result = "exhausted"]
  <2>1. /\ OthersStay(w) /\ worker'[w].pc = "ack"
        /\ worker'[w].batch = worker[w].batch
    BY <1>1, <1>5 DEF WorkersTyped, Loops, OthersStay
  <2>2. Current(w)' = Current(w) /\ Processing(w)'
    BY <2>1 DEF Current, Processing
  <2>3. /\ fired'[Current(w)] = IF Current(w) \in Triggered THEN 1 ELSE 0
        /\ \A e \in Events : e # Current(w) => fired'[e] = fired[e]
    BY <1>2, <1>3, <1>5, EmitDoes
  <2>4. FiringInv(w)'
    BY <2>1, <2>2, <2>3 DEF FiringInv, Started
  <2> QED BY <1>1, <2>1, <2>2, <2>3, <2>4, SameBatch
<1> QED BY <1>4, <1>5 DEF HandleRetry

(* An acknowledged entry has been reported.                                *)
LEMMA AcknowledgeFires ==
    ASSUME Inv, Inv', CalmInv, NEW w \in Workers, faults' = 0, Acknowledge(w)
    PROVE  CalmInv'
<1>1. /\ worker[w].pc = "ack" /\ Processing(w) /\ NextEvent(w)
      /\ UNCHANGED <<backlog, instance, fired>>
  BY DEF Acknowledge, At, Processing
<1>2. PICK c : c = Current(w)
  OBVIOUS
<1>3. /\ c \in Events /\ FiringInv(w) /\ pel[c] > 0
      /\ worker[w].result \in Outcomes
      /\ pel \in [Events -> 0 .. CountCap]
      /\ outcome \in [Events -> Outcomes \cup {None}]
  BY <1>1, <1>2, HeldAlone
     DEF CalmInv, Exclusive, Inv, WorkerInv, TypeOK, StreamTyped
<1>4. /\ outcome' = [outcome EXCEPT ![c] = worker[w].result]
      /\ pel' = [pel EXCEPT ![c] = 0] /\ idle' = idle \ {c}
  BY <1>2, <1>3, NoFault DEF Acknowledge
<1>5. /\ outcome'[c] # None /\ idle' \subseteq idle
      /\ \A e \in Events : e # c =>
            outcome'[e] = outcome[e] /\ pel'[e] = pel[e]
  BY <1>3, <1>4 DEF Outcomes, Results, None
<1>6. c \in Triggered => fired[c] = 1
  BY <1>1, <1>2, <1>3 DEF FiringInv
<1> QED BY <1>1, <1>2, <1>5, <1>6, NextKeeps

(***************************************************************************)
(* Deliveries and the stream                                               *)
(***************************************************************************)

(* A delivery of entries that nobody holds, to a worker between batches.   *)
LEMMA DeliverFires ==
    ASSUME Inv, Inv', CalmInv, NEW w \in Workers, ~Processing(w),
           NEW b \in Seq(Events), NoRepeats(b), OthersStay(w),
           worker'[w].pc \in {"event", "claim", "read"},
           worker'[w].batch = b,
           \A e \in Events : Contains(b, e) =>
             /\ outcome[e] = None /\ \A x \in Workers : ~Holds(x, e),
           \A e \in Events : pel'[e] > 0 <=> pel[e] > 0 \/ Contains(b, e),
           idle' = {e \in idle : ~Contains(b, e)},
           NoRepeats(backlog'), UNCHANGED <<outcome, instance, fired>>
    PROVE  CalmInv'
<1>1. ASSUME NEW x \in Workers, x # w
      PROVE  /\ worker'[x] = worker[x] /\ Current(x)' = Current(x)
             /\ \A e \in Events : Holds(x, e)' = Holds(x, e)
             /\ Processing(x)' = Processing(x)
  BY <1>1 DEF OthersStay, Current, Holds, Processing
<1>2. \A e \in Events : Holds(w, e)' = Contains(b, e)
  BY DEF Holds
<1>3. Exclusive'
  <2>1. \A x \in Workers : NoRepeats(worker'[x].batch)
    BY <1>1 DEF CalmInv, Exclusive
  <2>2. ASSUME NEW x \in Workers, NEW y \in Workers, NEW e \in Events,
               Holds(x, e)', Holds(y, e)'
        PROVE  x = y
    <3>1. CASE x # w /\ y # w
      BY <1>1, <2>2, <3>1 DEF CalmInv, Exclusive
    <3>2. CASE x = w /\ y # w
      BY <1>1, <1>2, <2>2, <3>2
    <3>3. CASE x # w /\ y = w
      BY <1>1, <1>2, <2>2, <3>3
    <3> QED BY <3>1, <3>2, <3>3
  <2>3. ASSUME NEW x \in Workers, NEW e \in Events, Holds(x, e)'
        PROVE  pel'[e] > 0 /\ e \notin idle'
    <3>1. CASE x = w
      BY <1>2, <2>3, <3>1
    <3>2. CASE x # w
      BY <1>1, <2>3, <3>2 DEF CalmInv, Exclusive
    <3> QED BY <3>1, <3>2
  <2> QED BY <2>1, <2>2, <2>3 DEF Exclusive
<1>4. ASSUME NEW e \in Events, \A x \in Workers : ~Holds(x, e)
      PROVE  AtRest(e)
  BY <1>4, HeldAlone DEF AtRest
<1>5. ASSUME NEW x \in Workers
      PROVE  FiringInv(x)'
  <2>1. CASE x # w
    <3>1. FiringInv(x)
      BY DEF CalmInv
    <3> QED BY <1>1, <2>1, <3>1 DEF FiringInv, Started, Processing
  <2>2. CASE x = w /\ Processing(w)'
    <3>1. PICK n : n = Current(w)'
      OBVIOUS
    <3>2. worker'[w].pc = "event" /\ b # <<>>
      BY <2>2 DEF Processing, Inv, TypeOK, WorkersTyped
    <3>3. n \in Events /\ n = b[1] /\ 1 \in 1 .. Len(b)
      BY <3>1, <3>2 DEF Current
    <3>4. Contains(b, n)
      BY <3>3 DEF Contains
    <3>5. outcome[n] = None /\ AtRest(n)
      BY <1>4, <3>3, <3>4
    <3>6. instance[n] = None /\ fired[n] = 0
      BY <3>3, <3>5 DEF CalmInv, RestInv
    <3> QED BY <2>2, <3>1, <3>2, <3>6 DEF FiringInv
  <2>3. CASE x = w /\ ~Processing(w)'
    BY <2>3 DEF FiringInv
  <2> QED BY <2>1, <2>2, <2>3
<1>6. ASSUME NEW e \in Events
      PROVE  RestInv(e)'
  <2>1. RestInv(e)
    BY DEF CalmInv
  <2>2. ASSUME AtRest(e)' PROVE AtRest(e)
    <3>1. ASSUME NEW x \in Workers, Processing(x)
          PROVE  Current(x) # e
      <4>1. x # w
        BY <3>1
      <4> QED BY <1>1, <2>2, <3>1, <4>1 DEF AtRest, Processing, Current
    <3> QED BY <3>1 DEF AtRest
  <2> QED BY <2>1, <2>2 DEF RestInv
<1> QED BY <1>3, <1>5, <1>6 DEF CalmInv

(* Nobody holds an idle entry, so a claim takes nothing from anybody.      *)
LEMMA ClaimPendingFires ==
    ASSUME Inv, Inv', CalmInv, NEW w \in Workers, ClaimPending(w)
    PROVE  CalmInv'
<1>1. TypeOK /\ idle \in SUBSET Events /\ StreamInv
  BY DEF Inv, TypeOK, StreamTyped
<1>2. PICK b \in SetToSeqs(idle) : Deliver(w, b, "read")
  BY DEF ClaimPending
<1>3. /\ b \in Seq(Events) /\ NoRepeats(b)
      /\ \A e : Contains(b, e) => e \in idle
  BY <1>1, ClaimedAreIdle, ClaimedOnce
<1>4. /\ OthersStay(w) /\ worker'[w].batch = b
      /\ worker'[w].pc \in {"event", "claim", "read"}
      /\ \A e \in Events : pel'[e] > 0 <=> pel[e] > 0 \/ Contains(b, e)
      /\ idle' = {e \in idle : ~Contains(b, e)}
  BY <1>1, <1>2, <1>3, DeliverDoes
<1>5. /\ UNCHANGED <<backlog, outcome, instance, fired>> /\ ~Processing(w)
  BY <1>2 DEF ClaimPending, Deliver, history, At, Processing
<1>6. \A e \in Events : Contains(b, e) =>
        outcome[e] = None /\ \A x \in Workers : ~Holds(x, e)
  BY <1>1, <1>3 DEF StreamInv, CalmInv, Exclusive
<1>7. NoRepeats(backlog')
  BY <1>5 DEF CalmInv, Exclusive
<1> QED BY <1>3, <1>4, <1>5, <1>6, <1>7, DeliverFires

(* Nobody holds an entry that has not been read.                           *)
LEMMA ReadNewFires ==
    ASSUME Inv, Inv', CalmInv, NEW w \in Workers, ReadNew(w)
    PROVE  CalmInv'
<1>1. TypeOK /\ backlog \in Seq(Events) /\ StreamInv
  BY DEF Inv, TypeOK, StreamTyped
<1>2. PICK b \in Seq(Events) : b = backlog
  BY <1>1
<1>3. Deliver(w, b, "claim") /\ backlog' = <<>> /\ ~Processing(w)
  BY <1>2 DEF ReadNew, At, Processing
<1>4. /\ OthersStay(w) /\ worker'[w].batch = b
      /\ worker'[w].pc \in {"event", "claim", "read"}
      /\ \A e \in Events : pel'[e] > 0 <=> pel[e] > 0 \/ Contains(b, e)
      /\ idle' = {e \in idle : ~Contains(b, e)}
  BY <1>1, <1>3, DeliverDoes
<1>5. UNCHANGED <<outcome, instance, fired>>
  BY <1>3 DEF Deliver, history
<1>6. \A e \in Events : Contains(b, e) =>
        outcome[e] = None /\ \A x \in Workers : ~Holds(x, e)
  BY <1>1, <1>2 DEF StreamInv, CalmInv, Exclusive
<1>7. NoRepeats(b) /\ NoRepeats(backlog')
  BY <1>2, <1>3 DEF CalmInv, Exclusive, NoRepeats
<1> QED BY <1>3, <1>4, <1>5, <1>6, <1>7, DeliverFires

(* What no worker does leaves the workers, the instances and the reports   *)
(* as they are.                                                            *)
LEMMA OutsideFires ==
    ASSUME CalmInv, UNCHANGED <<worker, outcome, instance, fired>>,
           NoRepeats(backlog'),
           \A w \in Workers, e \in Events :
             Holds(w, e) => pel'[e] > 0 /\ e \notin idle'
    PROVE  CalmInv'
<1>1. Exclusive'
  BY DEF CalmInv, Exclusive, Holds
<1>2. \A w \in Workers : FiringInv(w)'
  BY DEF CalmInv, FiringInv, Processing, Started, Current
<1>3. \A e \in Events : RestInv(e)'
  BY DEF CalmInv, RestInv, AtRest, Processing, Current
<1> QED BY <1>1, <1>2, <1>3 DEF CalmInv

(* Initially nothing has been delivered.                                   *)
LEMMA InitCalm == Init => CalmInv
<1> SUFFICES ASSUME Init PROVE CalmInv
  OBVIOUS
<1>1. \A w \in Workers : /\ worker[w].batch = <<>>
                        /\ worker[w].pc = "claim"
  BY DEF Init, Loop
<1>2. /\ \A w \in Workers, e \in Events : ~Holds(w, e)
      /\ \A w \in Workers : ~Processing(w) /\ NoRepeats(worker[w].batch)
      /\ NoRepeats(backlog)
  BY <1>1 DEF Holds, Contains, Processing, NoRepeats, Init
<1>3. \A e \in Events : RestInv(e)
  BY DEF Init, RestInv
<1> QED BY <1>2, <1>3 DEF CalmInv, Exclusive, FiringInv

(* No step but a failure disturbs the invariant.                           *)
LEMMA NextCalm ==
    ASSUME Inv, Inv', CalmInv, faults' = 0, Next
    PROVE  CalmInv'
<1>1. ASSUME NEW e \in Events, Publish(e)
      PROVE  CalmInv'
  <2>1. /\ ~Contains(backlog, e) /\ backlog' = Append(backlog, e)
        /\ UNCHANGED <<pel, idle, worker, outcome, instance, fired>>
    BY <1>1 DEF Publish, Published, history
  <2>2. NoRepeats(backlog')
    BY <2>1, AppendOnce DEF CalmInv, Exclusive, Inv, TypeOK, StreamTyped
  <2>3. \A w \in Workers, f \in Events :
          Holds(w, f) => pel'[f] > 0 /\ f \notin idle'
    BY <2>1 DEF CalmInv, Exclusive
  <2> QED BY <2>1, <2>2, <2>3, OutsideFires
<1>2. ASSUME NEW e \in Events, GrowIdle(e)
      PROVE  CalmInv'
  <2>1. /\ ~Held(e) /\ idle' = idle \cup {e}
        /\ UNCHANGED <<backlog, pel, worker, outcome, instance, fired>>
    BY <1>2, NoFault DEF GrowIdle
  <2>2. \A w \in Workers, f \in Events :
          Holds(w, f) => pel'[f] > 0 /\ f \notin idle'
    BY <2>1 DEF CalmInv, Exclusive, Held, Holds
  <2>3. NoRepeats(backlog')
    BY <2>1 DEF CalmInv, Exclusive
  <2> QED BY <2>1, <2>2, <2>3, OutsideFires
<1>3. ASSUME NEW w \in Workers, WorkerStep(w)
      PROVE  CalmInv'
  <2>1. CASE ClaimPending(w) \/ ReadNew(w)
    BY <2>1, ClaimPendingFires, ReadNewFires
  <2>2. CASE CheckSingleInstance(w) \/ EnsureCompiled(w) \/ CheckExisting(w)
    BY <2>2, ChecksFire
  <2>3. CASE RegisterInstance(w) \/ AssociateImage(w) \/ LaunchDetached(w)
    BY <2>3, StartFires
  <2>4. CASE HandleResult(w) \/ HandleRetry(w) \/ Acknowledge(w)
    BY <2>4, HandleResultFires, HandleRetryFires, AcknowledgeFires
  <2> QED BY <1>3, <2>1, <2>2, <2>3, <2>4 DEF WorkerStep
<1>4. ASSUME NEW w \in Workers, NEW e \in Events, StartingExpires(w, e)
      PROVE  CalmInv'
  <2>1. UNCHANGED <<backlog, pel, idle, worker, outcome, instance, fired>>
    BY <1>4 DEF StartingExpires, stream, history
  <2>2. /\ NoRepeats(backlog')
        /\ \A x \in Workers, f \in Events :
             Holds(x, f) => pel'[f] > 0 /\ f \notin idle'
    BY <2>1 DEF CalmInv, Exclusive
  <2> QED BY <2>1, <2>2, OutsideFires
<1>5. ASSUME NEW w \in Workers, Crash(w)
      PROVE  CalmInv'
  BY <1>5, NoFault DEF Crash
<1> QED BY <1>1, <1>2, <1>3, <1>4, <1>5 DEF Next

(* What has not failed before a step or in it keeps the invariant.         *)
LEMMA NextOneDelivery ==
    Inv /\ Inv' /\ OneDelivery /\ [Next]_vars => OneDelivery'
<1> SUFFICES ASSUME Inv, Inv', OneDelivery, [Next]_vars, faults' = 0
             PROVE  CalmInv'
  BY DEF OneDelivery
<1>1. CASE UNCHANGED vars
  <2>1. UNCHANGED <<backlog, pel, idle, worker, outcome, instance, fired,
                    faults>>
    BY <1>1 DEF vars, stream, history
  <2>2. CalmInv
    BY <2>1 DEF OneDelivery
  <2>3. /\ NoRepeats(backlog')
        /\ \A x \in Workers, f \in Events :
             Holds(x, f) => pel'[f] > 0 /\ f \notin idle'
    BY <2>1, <2>2 DEF CalmInv, Exclusive
  <2> QED BY <2>1, <2>2, <2>3, OutsideFires
<1>2. CASE Next
  <2>1. faults = 0
    <3>1. faults \in Nat
      BY TriggerAssumption DEF Inv, TypeOK, HistoryTyped
    <3>2. UNCHANGED faults \/ faults' = faults + 1
      BY <1>2
         DEF Next, Publish, GrowIdle, WorkerStep, StartingExpires, Crash,
             ClaimPending, ReadNew, Deliver, CheckSingleInstance,
             EnsureCompiled, CheckExisting, RegisterInstance, AssociateImage,
             LaunchDetached, HandleResult, HandleRetry, Acknowledge, Fails,
             history
    <3> QED BY <3>1, <3>2
  <2>2. CalmInv
    BY <2>1 DEF OneDelivery
  <2> QED BY <1>2, <2>2, NextCalm
<1> QED BY <1>1, <1>2

(* Without failures every event is delivered to one worker at a time and   *)
(* finds its instance id free.                                             *)
THEOREM DeliveredToOne == Spec => []OneDelivery
<1>1. Init => OneDelivery
  BY InitCalm DEF OneDelivery
<1> QED BY <1>1, InvHolds, NextOneDelivery, PTL DEF Spec

(* When nothing fails, trigger.fired is emitted exactly once for an event  *)
(* with a trigger, and before the event is acknowledged, whatever the      *)
(* interleaving of claims, reads, retries and acknowledgements.            *)
THEOREM FiresOnce == Spec => []FiredOnce
<1>1. Inv /\ OneDelivery => FiredOnce
  <2> SUFFICES ASSUME Inv, CalmInv, NEW e \in Triggered
               PROVE  fired[e] <= 1 /\ (outcome[e] # None => fired[e] = 1)
    BY DEF OneDelivery, FiredOnce
  <2>1. e \in Events /\ RestInv(e)
    BY TriggerAssumption DEF CalmInv
  <2>2. CASE outcome[e] # None
    BY <2>1, <2>2 DEF RestInv
  <2>3. CASE outcome[e] = None /\ AtRest(e)
    BY <2>1, <2>3 DEF RestInv
  <2>4. CASE outcome[e] = None /\ ~AtRest(e)
    <3>1. PICK w \in Workers : Processing(w) /\ Current(w) = e
      BY <2>4 DEF AtRest
    <3>2. FiringInv(w)
      BY DEF CalmInv
    <3>3. fired[e] = 0 \/ fired[e] = 1
      BY <3>1, <3>2 DEF FiringInv
    <3> QED BY <2>4, <3>3
  <2> QED BY <2>2, <2>3, <2>4
<1> QED BY <1>1, DeliveredToOne, InvHolds, PTL
=============================================================================
