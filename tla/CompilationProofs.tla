------------------------- MODULE CompilationProofs -------------------------
(***************************************************************************)
(* The compilation queue, proved for any versions, definitions, images and *)
(* clients: no version is queued or built twice, and no pending version is *)
(* forgotten, whatever crashes and requests interleave.                    *)
(***************************************************************************)
EXTENDS Compilation, TLAPS

(* The queue holds pending versions only, and none the worker has taken.   *)
QueueIsPending ==
    /\ \A v \in Versions : Queued(v) => v \in pending
    /\ \A v \in Versions : Building(v) => v \in pending

(* What the recovery has read is still pending, and what it has not read   *)
(* is in the queue: this is why it reads the set before the list.          *)
RecoverySees ==
    /\ job.pc \in {"boot.queue", "boot.push"} =>
         /\ job.orphans \subseteq pending
         /\ \A v \in pending : v \in job.orphans \/ Queued(v)
    /\ job.pc = "boot.push" => \A v \in job.orphans : ~Queued(v)

QueueInv == QueueIsPending /\ RecoverySees /\ BuiltOneAtATime /\ PendingIsQueued

Inv == TypeOK /\ QueueInv

(***************************************************************************)
(* Types                                                                   *)
(***************************************************************************)
PCs == BootPCs \cup BuildPCs \cup {"idle", "complete.hdel"}

(* What JobAt builds is a job.                                             *)
LEMMA JobRecords ==
    ASSUME NEW l \in PCs, NEW v \in Versions \cup {None}
    PROVE  JobAt(l, v) \in Jobs /\ JobAt(l, v).pc = l /\ JobAt(l, v).v = v
BY DEF JobAt, Jobs, PCs

(* The records of the initial state have their types.                      *)
LEMMA InitialRecords ==
    /\ NoRow \in Rows /\ NoImage \in ImageRows /\ Booting \in Jobs
    /\ Booting.pc = "boot.pending"
    /\ Idle \in ClientStates /\ Idle.pc = "idle"
    /\ Resting \in Cleaners /\ Resting.pc = "idle"
<1>1. NoRow \in Rows /\ NoImage \in ImageRows
  BY DEF NoRow, NoImage, Rows, ImageRows
<1>2. Booting \in Jobs /\ Booting.pc = "boot.pending"
  BY JobRecords DEF Booting, PCs, BootPCs
<1>3. /\ Idle \in ClientStates /\ Idle.pc = "idle"
      /\ Resting \in Cleaners /\ Resting.pc = "idle"
  BY DEF Idle, Resting, Cleaning, ClientStates, Cleaners
<1> QED BY <1>1, <1>2, <1>3

(* The server starts well typed.                                           *)
LEMMA InitType == Init => TypeOK
<1> SUFFICES ASSUME Init PROVE TypeOK
  OBVIOUS
<1>1. StoresTyped
  BY InitialRecords DEF Init, StoresTyped
<1>2. JobTyped
  BY InitialRecords DEF Init, JobTyped, BuildPCs
<1>3. ClientsTyped
  BY InitialRecords DEF Init, ClientsTyped
<1>4. CleanerTyped
  BY InitialRecords DEF Init, CleanerTyped
<1>5. faulted \in BOOLEAN
  BY DEF Init
<1> QED BY <1>1, <1>2, <1>3, <1>4, <1>5 DEF TypeOK

(* Returning from compile_workflow leaves a well-typed job behind.         *)
LEMMA ReturnType ==
    ASSUME TypeOK, job.pc \in BuildPCs,
           NEW l \in {"fail.read", "complete.srem"}, Return(l)
    PROVE  JobTyped'
<1>1. l \in PCs /\ job.v \in Versions
  BY DEF PCs, BuildPCs, TypeOK, JobTyped
<1>2. job' \in Jobs /\ job'.pc = l /\ job'.v = job.v
  BY <1>1, JobRecords DEF Return
<1> QED BY <1>1, <1>2 DEF JobTyped

(* recover_orphaned keeps the types.                                       *)
LEMMA RecoveryType ==
    ASSUME TypeOK,
           \/ RecoverPending
           \/ RecoverQueue
           \/ RecoverPush
           \/ RecoverDone
    PROVE  TypeOK'
<1>1. CASE RecoverPending
  <2>1. StoresTyped'
    BY <1>1 DEF RecoverPending, TypeOK, StoresTyped, Untouched,
           environment, valkey
  <2>2. JobTyped'
    BY <1>1 DEF RecoverPending, TypeOK, StoresTyped, JobTyped, At, Jobs,
                BootPCs, BuildPCs
  <2> QED BY <1>1, <2>1, <2>2
          DEF RecoverPending, Untouched, TypeOK, ClientsTyped, CleanerTyped
<1>2. CASE RecoverQueue
  <2>1. StoresTyped'
    BY <1>2 DEF RecoverQueue, TypeOK, StoresTyped, Untouched, environment,
           valkey
  <2>2. JobTyped'
    BY <1>2 DEF RecoverQueue, TypeOK, JobTyped, At, Jobs, BootPCs, BuildPCs
  <2> QED BY <1>2, <2>1, <2>2
          DEF RecoverQueue, Untouched, TypeOK, ClientsTyped, CleanerTyped
<1>3. CASE RecoverPush
  <2>1. PICK v \in job.orphans :
              /\ queue' = Append(queue, v)
              /\ job' = [job EXCEPT !.orphans = job.orphans \ {v}]
    BY <1>3 DEF RecoverPush
  <2>2. v \in Versions
    BY DEF TypeOK, JobTyped, Jobs
  <2>3. StoresTyped'
    BY <1>3, <2>1, <2>2 DEF RecoverPush, TypeOK, StoresTyped, Untouched,
           environment
  <2>4. JobTyped'
    BY <1>3, <2>1, <2>2 DEF RecoverPush, TypeOK, JobTyped, At, Jobs,
           BootPCs, BuildPCs
  <2> QED BY <1>3, <2>3, <2>4
          DEF RecoverPush, Untouched, TypeOK, ClientsTyped, CleanerTyped
<1>4. CASE RecoverDone
  <2>1. StoresTyped'
    BY <1>4 DEF RecoverDone, TypeOK, StoresTyped, Untouched, environment,
           valkey
  <2>2. JobTyped'
    BY <1>4 DEF RecoverDone, TypeOK, JobTyped, At, Jobs, BootPCs, BuildPCs,
           Goto
  <2> QED BY <1>4, <2>1, <2>2
          DEF RecoverDone, Untouched, TypeOK, ClientsTyped, CleanerTyped
<1> QED BY <1>1, <1>2, <1>3, <1>4

(* dequeue keeps the types.                                                *)
LEMMA DequeueType ==
    ASSUME TypeOK,
           \/ Dequeue
           \/ ReadPayload
    PROVE  TypeOK'
<1>1. CASE Dequeue
  <2>1. queue \in Seq(Versions) /\ queue /= <<>>
    BY <1>1 DEF Dequeue, TypeOK, StoresTyped
  <2>2. Head(queue) \in Versions /\ Tail(queue) \in Seq(Versions)
    BY <2>1
  <2>3. StoresTyped'
    BY <1>1, <2>2 DEF Dequeue, TypeOK, StoresTyped, Untouched, environment
  <2>4. JobTyped'
    BY <1>1, <2>2 DEF Dequeue, TypeOK, JobTyped, At, Jobs, BootPCs, BuildPCs
  <2> QED BY <1>1, <2>3, <2>4
          DEF Dequeue, Untouched, TypeOK, ClientsTyped, CleanerTyped
<1>2. CASE ReadPayload
  <2>1. StoresTyped'
    BY <1>2 DEF ReadPayload, TypeOK, StoresTyped, Untouched, environment,
           valkey
  <2>2. JobTyped'
    BY <1>2 DEF ReadPayload, TypeOK, JobTyped, At, Jobs, BootPCs, BuildPCs
  <2> QED BY <1>2, <2>1, <2>2
          DEF ReadPayload, Untouched, TypeOK, ClientsTyped, CleanerTyped
<1> QED BY <1>1, <1>2

(* Steps 1 to 7 of compile_workflow keep the types.                        *)
LEMMA CompileType ==
    ASSUME TypeOK,
           \/ FetchDefinition
           \/ CheckRow
           \/ LookupImage
           \/ AdoptImage
           \/ Build
           \/ RecordSuccess
    PROVE  TypeOK'
<1>1. CASE FetchDefinition
  <2>1. StoresTyped'
    BY <1>1 DEF FetchDefinition, TypeOK, StoresTyped, JobTyped, At,
           BuildPCs, Untouched, environment, valkey
  <2>2. JobTyped'
    BY <1>1, ReturnType DEF FetchDefinition, TypeOK, JobTyped, StoresTyped,
           At, Goto, Jobs, BootPCs,
         BuildPCs
  <2> QED BY <1>1, <2>1, <2>2
          DEF FetchDefinition, Untouched, TypeOK, ClientsTyped, CleanerTyped
<1>2. CASE CheckRow
  <2>1. StoresTyped'
    BY <1>2 DEF CheckRow, TypeOK, StoresTyped, JobTyped, At, BuildPCs,
           Untouched, environment, valkey
  <2>2. JobTyped'
    BY <1>2, ReturnType DEF CheckRow, TypeOK, JobTyped, StoresTyped, At,
           Goto, Jobs, BootPCs,
         BuildPCs
  <2> QED BY <1>2, <2>1, <2>2
          DEF CheckRow, Untouched, TypeOK, ClientsTyped, CleanerTyped
<1>3. CASE LookupImage
  <2>1. StoresTyped'
    BY <1>3 DEF LookupImage, TypeOK, StoresTyped, JobTyped, At, BuildPCs,
           Untouched, environment, valkey
  <2>2. JobTyped'
    <3>1. image[job.v].id \in Images \cup {None} /\ job.def \in Definitions
      BY <1>3 DEF LookupImage, At, TypeOK, JobTyped, StoresTyped, BuildPCs,
                  ImageRows
    <3>2. CASE ImageCacheHits
      <4>1. /\ job' = [job EXCEPT !.pc = "adopt", !.image = image[job.v].id]
            /\ image[job.v].id \in Images
        BY <1>3, <3>1, <3>2 DEF LookupImage, ImageCacheHits
      <4> QED BY <1>3, <3>1, <4>1
              DEF LookupImage, At, TypeOK, JobTyped, Jobs, BuildPCs
    <3>3. CASE ~ImageCacheHits
      BY <1>3, <3>1, <3>3
         DEF LookupImage, At, Goto, TypeOK, JobTyped, Jobs, BuildPCs
    <3> QED BY <3>2, <3>3
  <2> QED BY <1>3, <2>1, <2>2
          DEF LookupImage, Untouched, TypeOK, ClientsTyped, CleanerTyped
<1>4. CASE AdoptImage
  <2>1. StoresTyped'
    BY <1>4 DEF AdoptImage, TypeOK, StoresTyped, JobTyped, At, BuildPCs,
           Untouched, environment, valkey, RecordRegisteredImageId, Rows
  <2>2. JobTyped'
    BY <1>4, ReturnType DEF AdoptImage, TypeOK, JobTyped, StoresTyped, At,
           Goto, Jobs, BootPCs,
         BuildPCs
  <2> QED BY <1>4, <2>1, <2>2
          DEF AdoptImage, Untouched, TypeOK, ClientsTyped, CleanerTyped
<1>5. CASE Build
  <2>1. StoresTyped'
    BY <1>5 DEF Build, TypeOK, StoresTyped, JobTyped, At, BuildPCs,
           Untouched, environment, valkey
  <2>2. JobTyped'
    BY <1>5, ReturnType DEF Build, TypeOK, JobTyped, StoresTyped, At, Goto,
           Jobs, BootPCs,
         BuildPCs
  <2> QED BY <1>5, <2>1, <2>2
          DEF Build, Untouched, TypeOK, ClientsTyped, CleanerTyped
<1>6. CASE RecordSuccess
  <2>1. StoresTyped'
    BY <1>6 DEF RecordSuccess, TypeOK, StoresTyped, JobTyped, At, BuildPCs,
           Untouched, environment, valkey, RecordCompilationSuccess, Rows
  <2>2. JobTyped'
    BY <1>6, ReturnType DEF RecordSuccess, TypeOK, JobTyped, StoresTyped,
           At, Goto, Jobs, BootPCs,
         BuildPCs
  <2> QED BY <1>6, <2>1, <2>2
          DEF RecordSuccess, Untouched, TypeOK, ClientsTyped, CleanerTyped
<1> QED BY <1>1, <1>2, <1>3, <1>4, <1>5, <1>6

(* Registration keeps the types.                                           *)
LEMMA RegisterType ==
    ASSUME TypeOK,
           \/ RegisterLookup
           \/ RegisterFile
           \/ RegisterRow
           \/ RecordImage
    PROVE  TypeOK'
<1>1. CASE RegisterLookup
  <2>1. StoresTyped'
    BY <1>1 DEF RegisterLookup, TypeOK, StoresTyped, JobTyped, At,
           BuildPCs, Untouched, environment, valkey
  <2>2. JobTyped'
    BY <1>1, ReturnType DEF RegisterLookup, TypeOK, JobTyped, StoresTyped,
           At, Goto, Jobs, BootPCs,
         BuildPCs
  <2> QED BY <1>1, <2>1, <2>2
          DEF RegisterLookup, Untouched, TypeOK, ClientsTyped, CleanerTyped
<1>2. CASE RegisterFile
  <2>1. StoresTyped'
    BY <1>2 DEF RegisterFile, TypeOK, StoresTyped, JobTyped, At, BuildPCs,
           Untouched, environment, valkey
  <2>2. JobTyped'
    BY <1>2, ReturnType DEF RegisterFile, TypeOK, JobTyped, StoresTyped,
           At, Goto, Jobs, BootPCs,
         BuildPCs
  <2> QED BY <1>2, <2>1, <2>2
          DEF RegisterFile, Untouched, TypeOK, ClientsTyped, CleanerTyped
<1>3. CASE RegisterRow
  <2>1. StoresTyped'
    BY <1>3 DEF RegisterRow, TypeOK, StoresTyped, JobTyped, At, BuildPCs,
           Untouched, environment, valkey, ImageRows
  <2>2. JobTyped'
    BY <1>3, ReturnType DEF RegisterRow, TypeOK, JobTyped, StoresTyped, At,
           Goto, Jobs, BootPCs,
         BuildPCs
  <2> QED BY <1>3, <2>1, <2>2
          DEF RegisterRow, Untouched, TypeOK, ClientsTyped, CleanerTyped
<1>4. CASE RecordImage
  <2>1. StoresTyped'
    BY <1>4 DEF RecordImage, TypeOK, StoresTyped, JobTyped, At, BuildPCs,
           Untouched, environment, valkey, RecordRegisteredImageId, Rows
  <2>2. JobTyped'
    BY <1>4, ReturnType DEF RecordImage, TypeOK, JobTyped, StoresTyped, At,
           Goto, Jobs, BootPCs,
         BuildPCs
  <2> QED BY <1>4, <2>1, <2>2
          DEF RecordImage, Untouched, TypeOK, ClientsTyped, CleanerTyped
<1> QED BY <1>1, <1>2, <1>3, <1>4

(* The end of a job keeps the types.                                       *)
LEMMA FinishType ==
    ASSUME TypeOK,
           \/ FailureRead
           \/ FailureWrite
           \/ CompletePending
           \/ CompleteRequest
    PROVE  TypeOK'
<1>1. CASE FailureRead
  <2>1. StoresTyped'
    BY <1>1 DEF FailureRead, TypeOK, StoresTyped, JobTyped, At, BuildPCs,
           Untouched, environment, valkey
  <2>2. JobTyped'
    BY <1>1, ReturnType DEF FailureRead, TypeOK, JobTyped, StoresTyped, At,
           Goto, Jobs, BootPCs,
         BuildPCs
  <2> QED BY <1>1, <2>1, <2>2
          DEF FailureRead, Untouched, TypeOK, ClientsTyped, CleanerTyped
<1>2. CASE FailureWrite
  <2>1. StoresTyped'
    BY <1>2 DEF FailureWrite, TypeOK, StoresTyped, JobTyped, At, BuildPCs,
           Untouched, environment, valkey, RecordCompilationFailure, Rows
  <2>2. JobTyped'
    BY <1>2, ReturnType DEF FailureWrite, TypeOK, JobTyped, StoresTyped,
           At, Goto, Jobs, BootPCs,
         BuildPCs
  <2> QED BY <1>2, <2>1, <2>2
          DEF FailureWrite, Untouched, TypeOK, ClientsTyped, CleanerTyped
<1>3. CASE CompletePending
  <2>1. StoresTyped'
    BY <1>3 DEF CompletePending, TypeOK, StoresTyped, JobTyped, At,
           BuildPCs, Untouched, environment, valkey
  <2>2. JobTyped'
    BY <1>3, ReturnType DEF CompletePending, TypeOK, JobTyped, StoresTyped,
           At, Goto, Jobs, BootPCs,
         BuildPCs
  <2> QED BY <1>3, <2>1, <2>2
          DEF CompletePending, Untouched, TypeOK, ClientsTyped, CleanerTyped
<1>4. CASE CompleteRequest
  <2>1. StoresTyped'
    BY <1>4, JobRecords DEF CompleteRequest, TypeOK, StoresTyped, JobTyped,
           At, BuildPCs, Untouched, environment, valkey
  <2>2. JobTyped'
    BY <1>4, ReturnType, JobRecords DEF CompleteRequest, TypeOK, JobTyped,
           StoresTyped, At, Goto, Jobs, BootPCs,
         BuildPCs, PCs
  <2> QED BY <1>4, <2>1, <2>2
          DEF CompleteRequest, Untouched, TypeOK, ClientsTyped, CleanerTyped
<1> QED BY <1>1, <1>2, <1>3, <1>4

(* A failed statement keeps the types.                                     *)
LEMMA StepFailsType ==
    ASSUME TypeOK, StepFails
    PROVE  TypeOK'
<1>1. job.pc \in BuildPCs
  BY DEF StepFails, BuildPCs
<1>2. StoresTyped'
  <2>1. disk' = disk \/ disk' = [disk EXCEPT ![job.image] = None]
    BY DEF StepFails
  <2> QED BY <2>1 DEF StepFails, TypeOK, StoresTyped, database, valkey
<1>3. JobTyped'
  <2>1. CASE At("lookup")
    BY <2>1 DEF StepFails, At, Goto, TypeOK, JobTyped, Jobs, BuildPCs
  <2>2. CASE ~At("lookup")
    <3>1. PICK l \in {"fail.read", "complete.srem"} : Return(l)
      BY <2>2 DEF StepFails, AfterError
    <3> QED BY <1>1, <3>1, ReturnType
  <2> QED BY <2>1, <2>2
<1> QED BY <1>2, <1>3 DEF StepFails, TypeOK, ClientsTyped, CleanerTyped

(* Every step of the worker keeps the types.                               *)
LEMMA WorkerType ==
    ASSUME TypeOK, WorkerStep
    PROVE  TypeOK'
BY RecoveryType, DequeueType, CompileType, RegisterType, FinishType
   DEF WorkerStep

(* A request that begins is well typed.                                    *)
LEMMA BeginsType ==
    ASSUME TypeOK, NEW c \in Clients, NEW v \in Versions, NEW command,
           NEW l \in {"run.image", "run.delete", "run.pending", "run.force",
                      "edit.invalidate"},
           Begins(c, command, v, l)
    PROVE  ClientsTyped'
BY DEF Begins, TypeOK, ClientsTyped, ClientStates

(* A request that goes on is well typed and has its version.               *)
LEMMA MovesType ==
    ASSUME TypeOK, NEW c \in Clients, NEW from,
           NEW to \in {"idle", "run.pending", "run.enqueue", "run.forget",
                       "run.force"},
           Moves(c, from, to), from # "idle"
    PROVE  ClientsTyped' /\ client[c].v \in Versions /\ client[c].pc = from
<1>1. client[c].v \in Versions /\ client[c].pc = from
  BY DEF Moves, TypeOK, ClientsTyped
<1>2. CASE to = "idle"
  BY <1>2, InitialRecords DEF Moves, TypeOK, ClientsTyped
<1>3. CASE to # "idle"
  BY <1>1, <1>3 DEF Moves, TypeOK, ClientsTyped, ClientStates
<1> QED BY <1>1, <1>2, <1>3

(* enqueue keeps the types.                                                *)
LEMMA EnqueueType ==
    ASSUME StoresTyped, NEW v \in Versions, NEW force \in BOOLEAN,
           Enqueue(v, force), UNCHANGED <<database, environment>>
    PROVE  StoresTyped'
<1>1. CASE v \in pending
  BY <1>1 DEF StoresTyped, Enqueue, database, environment
<1>2. CASE v \notin pending
  <2>1. queue' \in Seq(Versions)
    <3>1. queue' = Append(queue, v)
      BY <1>2 DEF Enqueue
    <3> QED BY <3>1 DEF StoresTyped
  <2>3. pending' \in SUBSET Versions
    BY <1>2 DEF StoresTyped, Enqueue
  <2>2. requests' \in [Versions -> {None, "plain", "force"}]
    BY <1>2 DEF StoresTyped, Enqueue
  <2> QED BY <2>1, <2>2, <2>3 DEF StoresTyped, database, environment
<1> QED BY <1>1, <1>2

(* invalidate_compilation keeps the types.                                 *)
LEMMA InvalidateType ==
    ASSUME StoresTyped, NEW v \in Versions, Invalidate(v),
           UNCHANGED <<source, environment, valkey>>
    PROVE  StoresTyped'
BY InitialRecords DEF StoresTyped, Invalidate, environment, valkey

(* Every step of a client keeps the types.                                 *)
LEMMA ClientType ==
    ASSUME TypeOK, NEW c \in Clients, ClientStep(c)
    PROVE  TypeOK'
<1>0. SUFFICES StoresTyped' /\ ClientsTyped' /\ UNCHANGED <<job, cleaner, faulted>>
  BY DEF TypeOK, JobTyped, CleanerTyped
<1>1. CASE \E v \in Versions : RunCheck(c, v)
  <2>1. PICK v \in Versions : RunCheck(c, v)
    BY <1>1
  <2>2. ClientsTyped'
    BY <2>1, BeginsType DEF RunCheck
  <2> QED BY <2>1, <2>2 DEF RunCheck, Quiet, TypeOK, StoresTyped, database,
                            environment, valkey
<1>2. CASE \E v \in Versions : UpdateVersion(c, v)
  <2>1. PICK v \in Versions : UpdateVersion(c, v)
    BY <1>2
  <2>2. ClientsTyped'
    BY <2>1, BeginsType DEF UpdateVersion
  <2> QED BY <2>1, <2>2 DEF UpdateVersion, Quiet, TypeOK, StoresTyped,
                            environment, valkey
<1>3. CASE \E v \in Versions : CompilePlain(c, v)
  BY <1>3, EnqueueType DEF CompilePlain, Quiet, TypeOK, ClientsTyped
<1>4. CASE \E v \in Versions : CompileInvalidate(c, v)
  BY <1>4, InvalidateType, BeginsType DEF CompileInvalidate, Quiet, TypeOK
<1>5. CASE RunDeleteFailure(c)
  BY <1>5, InvalidateType, MovesType DEF RunDeleteFailure, Quiet, TypeOK
<1>6. CASE RunPending(c)
  <2>1. ClientsTyped'
    BY <1>6, MovesType DEF RunPending
  <2> QED BY <1>6, <2>1 DEF RunPending, Quiet, TypeOK, StoresTyped, database,
                            environment, valkey
<1>7. CASE RunEnqueue(c)
  BY <1>7, EnqueueType, MovesType DEF RunEnqueue, Quiet, TypeOK
<1>8. CASE RunImage(c)
  <2> DEFINE v == client[c].v
  <2>1. v \in Versions
    BY <1>8 DEF RunImage, TypeOK, ClientsTyped
  <2>2. CASE Fresh(v)
    <3>1. row[v].image \in Images
      BY <2>1, <2>2 DEF Fresh, TypeOK, StoresTyped, Rows
    <3>2. ClientsTyped'
      BY <1>8, <2>1, <2>2, <3>1
         DEF RunImage, TypeOK, ClientsTyped, ClientStates
    <3> QED BY <1>8, <3>2 DEF RunImage, Quiet, TypeOK, StoresTyped, database,
                              environment, valkey
  <2>3. CASE ~Fresh(v)
    <3>1. client' = [client EXCEPT ![c] = Idle]
      BY <1>8, <2>3 DEF RunImage
    <3>2. ClientsTyped'
      BY <3>1, InitialRecords DEF TypeOK, ClientsTyped
    <3> QED BY <1>8, <3>2 DEF RunImage, Quiet, TypeOK, StoresTyped, database,
                              environment, valkey
  <2> QED BY <2>2, <2>3
<1>9. CASE RunStart(c)
  <2>1. ClientsTyped'
    BY <1>9, MovesType DEF RunStart
  <2> QED BY <1>9, <2>1 DEF RunStart, Quiet, TypeOK, StoresTyped, database,
                            environment, valkey
<1>10. CASE RunForget(c)
  BY <1>10, InvalidateType, MovesType DEF RunForget, Quiet, TypeOK
<1>11. CASE RunForce(c)
  BY <1>11, EnqueueType, MovesType DEF RunForce, Quiet, TypeOK
<1>12. CASE EditInvalidate(c)
  BY <1>12, InvalidateType, MovesType DEF EditInvalidate, Quiet, TypeOK
<1> QED BY <1>1, <1>2, <1>3, <1>4, <1>5, <1>6, <1>7, <1>8, <1>9, <1>10,
           <1>11, <1>12 DEF ClientStep

(* Every step of the image cleanup keeps the types.                        *)
LEMMA CleanerType ==
    ASSUME TypeOK, CleanerStep
    PROVE  TypeOK'
<1>0. SUFFICES /\ image' \in [Versions -> ImageRows]
               /\ disk' \in [Images -> Definitions \cup {None}]
               /\ CleanerTyped'
  <2>1. UNCHANGED <<database, valkey, job, client, faulted>>
    BY DEF CleanerStep, ListDirectories, QueryImages, RemoveOrphan,
           SelectStale, DeleteStaleRow, RemoveStaleDirectory, CleanupDone,
           Still
  <2> QED BY <2>1 DEF TypeOK, StoresTyped, JobTyped, ClientsTyped, database,
                      valkey
<1>1. CASE ListDirectories
  BY <1>1 DEF ListDirectories, Cleaning, TypeOK, StoresTyped, CleanerTyped,
              Cleaners, environment
<1>2. CASE QueryImages
  BY <1>2 DEF QueryImages, Cleaning, TypeOK, StoresTyped, CleanerTyped,
              Cleaners, environment
<1>3. CASE RemoveOrphan
  <2>1. PICK i \in cleaner.ids :
              /\ disk' = [disk EXCEPT ![i] = None]
              /\ cleaner' = [cleaner EXCEPT !.ids = cleaner.ids \ {i}]
    BY <1>3 DEF RemoveOrphan
  <2> QED BY <1>3, <2>1 DEF RemoveOrphan, CleanerAt, TypeOK, StoresTyped,
                            CleanerTyped, Cleaners
<1>4. CASE SelectStale
  <2>1. PICK ids \in SUBSET {image[v].id : v \in {w \in Versions : Unused(w)}} :
              cleaner' = Cleaning("stale.delete", ids)
    BY <1>4 DEF SelectStale
  <2>2. ids \in SUBSET Images
    BY DEF Unused, TypeOK, StoresTyped, ImageRows
  <2> QED BY <1>4, <2>1, <2>2 DEF SelectStale, Cleaning, TypeOK, StoresTyped,
                                  CleanerTyped, Cleaners, environment
<1>5. CASE DeleteStaleRow
  <2>1. PICK i \in cleaner.ids :
              /\ image' = [v \in Versions |->
                             IF image[v].id = i THEN NoImage ELSE image[v]]
              /\ cleaner' = [pc |-> "stale.remove",
                             ids |-> cleaner.ids \ {i}, at |-> i]
    BY <1>5 DEF DeleteStaleRow
  <2>2. CleanerTyped'
    BY <2>1 DEF TypeOK, CleanerTyped, Cleaners
  <2> QED BY <1>5, <2>1, <2>2, InitialRecords
          DEF DeleteStaleRow, TypeOK, StoresTyped
<1>6. CASE RemoveStaleDirectory
  BY <1>6 DEF RemoveStaleDirectory, CleanerAt, TypeOK, StoresTyped,
              CleanerTyped, Cleaners
<1>7. CASE CleanupDone
  BY <1>7, InitialRecords DEF CleanupDone, TypeOK, StoresTyped, CleanerTyped,
                              environment
<1> QED BY <1>1, <1>2, <1>3, <1>4, <1>5, <1>6, <1>7 DEF CleanerStep

(* The end of the process and its restart keep the types.                  *)
LEMMA ProcessType ==
    ASSUME TypeOK, Crash \/ Restart
    PROVE  TypeOK'
<1>1. StoresTyped'
  BY DEF Crash, Restart, Untouched, TypeOK, StoresTyped, database,
         environment, valkey
<1>2. CASE Crash
  <2>1. JobTyped'
    BY <1>2, JobRecords DEF Crash, PCs, BootPCs, BuildPCs, JobTyped
  <2>2. ClientsTyped' /\ CleanerTyped'
    BY <1>2, InitialRecords DEF Crash, ClientsTyped, CleanerTyped
  <2> QED BY <1>1, <1>2, <2>1, <2>2 DEF Crash, TypeOK
<1>3. CASE Restart
  <2>1. JobTyped'
    BY <1>3, InitialRecords DEF Restart, BuildPCs, JobTyped
  <2> QED BY <1>1, <1>3, <2>1
          DEF Restart, Untouched, TypeOK, ClientsTyped, CleanerTyped
<1> QED BY <1>2, <1>3

(* Every step keeps the types.                                             *)
LEMMA NextType == TypeOK /\ [Next]_vars => TypeOK'
<1> SUFFICES ASSUME TypeOK, [Next]_vars PROVE TypeOK'
  OBVIOUS
<1>1. CASE Next
  BY <1>1, WorkerType, StepFailsType, ClientType, CleanerType, ProcessType
     DEF Next
<1>2. CASE UNCHANGED vars
  BY <1>2 DEF vars, TypeOK, StoresTyped, JobTyped, ClientsTyped,
              CleanerTyped, database, environment, valkey
<1> QED BY <1>1, <1>2

(* Every reachable state of the compilation is well typed: the worker,     *)
(* the clients and the cleanup never use a version, a definition or an     *)
(* image id they do not hold, whatever fails in between.                   *)
THEOREM TypeCorrect == Spec => []TypeOK
BY InitType, NextType, PTL DEF Spec

(***************************************************************************)
(* The queue                                                               *)
(***************************************************************************)
Distinct == \A i, j \in DOMAIN queue : queue[i] = queue[j] => i = j

(* RPUSH adds one version to the end of the list.                          *)
LEMMA Pushed ==
    ASSUME queue \in Seq(Versions), NEW v \in Versions,
           queue' = Append(queue, v)
    PROVE  /\ \A w \in Versions : Queued(w)' <=> Queued(w) \/ w = v
           /\ Distinct /\ ~Queued(v) => Distinct'
<1>1. /\ DOMAIN queue = 1 .. Len(queue) /\ Len(queue) \in Nat
      /\ DOMAIN queue' = 1 .. Len(queue) + 1
      /\ \A i \in DOMAIN queue : queue'[i] = queue[i]
      /\ queue'[Len(queue) + 1] = v
  OBVIOUS
<1>2. \A w \in Versions : Queued(w)' <=> Queued(w) \/ w = v
  BY <1>1 DEF Queued
<1>3. Distinct /\ ~Queued(v) => Distinct'
  BY <1>1 DEF Distinct, Queued
<1> QED BY <1>2, <1>3

(* BLPOP takes the first version off the list, and with it all of it when  *)
(* the list holds no version twice.                                        *)
LEMMA Popped ==
    ASSUME queue \in Seq(Versions), queue # <<>>, queue' = Tail(queue),
           Distinct, NEW u, u = Head(queue)
    PROVE  /\ u \in Versions /\ Queued(u)
           /\ ~Queued(u)'
           /\ \A w \in Versions : Queued(w) <=> Queued(w)' \/ w = u
           /\ Distinct'
<1>1. /\ DOMAIN queue = 1 .. Len(queue) /\ Len(queue) \in Nat
      /\ Len(queue) > 0 /\ u = queue[1]
      /\ DOMAIN queue' = 1 .. Len(queue) - 1
      /\ \A i \in DOMAIN queue' : queue'[i] = queue[i + 1]
      /\ \A i \in DOMAIN queue : queue[i] \in Versions
  OBVIOUS
<1>2. u \in Versions /\ Queued(u)
  BY <1>1 DEF Queued
<1>3. ~Queued(u)'
  BY <1>1 DEF Queued, Distinct
<1>4. \A w \in Versions : Queued(w) <=> Queued(w)' \/ w = u
  <2>1. ASSUME NEW w \in Versions, Queued(w), w # u
        PROVE  Queued(w)'
    <3>1. PICK i \in DOMAIN queue : queue[i] = w
      BY <2>1 DEF Queued
    <3>2. i - 1 \in DOMAIN queue' /\ queue'[i - 1] = w
      BY <1>1, <2>1, <3>1
    <3> QED BY <3>2 DEF Queued
  <2>2. ASSUME NEW w \in Versions, Queued(w)'
        PROVE  Queued(w)
    <3>1. PICK i \in DOMAIN queue' : queue'[i] = w
      BY <2>2 DEF Queued
    <3>2. i + 1 \in DOMAIN queue /\ queue[i + 1] = w
      BY <1>1, <3>1
    <3> QED BY <3>2 DEF Queued
  <2> QED BY <1>2, <2>1, <2>2
<1>5. Distinct'
  BY <1>1 DEF Distinct
<1> QED BY <1>2, <1>3, <1>4, <1>5

(* Nothing happens to the queue, the set and the worker.                   *)
LEMMA QueueStutters ==
    ASSUME QueueInv, UNCHANGED <<queue, pending, job>>
    PROVE  QueueInv'
BY DEF QueueInv, QueueIsPending, RecoverySees, BuiltOneAtATime,
       PendingIsQueued, Queued, Building

(* The worker stays with the version it builds.                            *)
LEMMA BuildGoesOn ==
    ASSUME QueueInv, UNCHANGED <<queue, pending>>,
           job.pc \in BuildPCs, job'.pc \in BuildPCs, job'.v = job.v
    PROVE  QueueInv'
<1>1. \A v \in Versions : /\ Queued(v)' <=> Queued(v)
                          /\ Building(v)' <=> Building(v)
  BY DEF Queued, Building
<1>2. job'.pc \notin BootPCs /\ job.pc \notin BootPCs
  BY DEF BuildPCs, BootPCs
<1>3. QueueIsPending'
  BY <1>1 DEF QueueInv, QueueIsPending
<1>4. RecoverySees'
  BY <1>2 DEF RecoverySees, BootPCs
<1>5. BuiltOneAtATime'
  BY <1>1 DEF QueueInv, BuiltOneAtATime, Queued
<1>6. PendingIsQueued'
  BY <1>2 DEF QueueInv, PendingIsQueued, Queued, Building
<1> QED BY <1>3, <1>4, <1>5, <1>6 DEF QueueInv

(* enqueue: a pending version is left alone, another one is pushed.        *)
LEMMA EnqueueKeeps ==
    ASSUME StoresTyped, QueueInv, NEW v \in Versions, NEW force,
           Enqueue(v, force), UNCHANGED job
    PROVE  QueueInv'
<1>1. CASE v \in pending
  BY <1>1, QueueStutters DEF Enqueue
<1>2. CASE v \notin pending
  <2>1. queue' = Append(queue, v) /\ pending' = pending \cup {v}
    BY <1>2 DEF Enqueue
  <2>2. pending \in SUBSET Versions /\ queue \in Seq(Versions)
    BY DEF StoresTyped
  <2>3. ~Queued(v) /\ ~Building(v)
    BY <1>2 DEF QueueInv, QueueIsPending
  <2>4. /\ \A w \in Versions : Queued(w)' <=> Queued(w) \/ w = v
        /\ Distinct /\ ~Queued(v) => Distinct'
    BY <2>1, <2>2, Pushed
  <2>5. \A w \in Versions : Building(w)' <=> Building(w)
    BY DEF Building
  <2>6. QueueIsPending'
    BY <2>1, <2>4, <2>5 DEF QueueInv, QueueIsPending
  <2>7. RecoverySees'
    <3>1. CASE job.pc \in {"boot.queue", "boot.push"}
      <4>1. /\ job.orphans \subseteq pending'
            /\ \A w \in pending' : w \in job.orphans \/ Queued(w)'
        BY <2>1, <2>2, <2>4, <3>1 DEF QueueInv, RecoverySees
      <4>2. job.pc = "boot.push" => \A w \in job.orphans : ~Queued(w)'
        BY <1>2, <2>2, <2>4, <3>1 DEF QueueInv, RecoverySees
      <4> QED BY <4>1, <4>2 DEF RecoverySees
    <3>2. CASE job.pc \notin {"boot.queue", "boot.push"}
      BY <3>2 DEF RecoverySees
    <3> QED BY <3>1, <3>2
  <2>8. BuiltOneAtATime'
    BY <2>3, <2>4, <2>5 DEF QueueInv, BuiltOneAtATime, Distinct
  <2>9. PendingIsQueued'
    BY <2>1, <2>2, <2>4, <2>5 DEF QueueInv, PendingIsQueued
  <2> QED BY <2>6, <2>7, <2>8, <2>9 DEF QueueInv
<1> QED BY <1>1, <1>2

(* recover_orphaned: what it pushes is pending and not in the queue,       *)
(* although requests may be enqueued between its reads.                    *)
LEMMA RecoveryKeeps ==
    ASSUME TypeOK, QueueInv,
           \/ RecoverPending
           \/ RecoverQueue
           \/ RecoverPush
           \/ RecoverDone
    PROVE  QueueInv'
<1>0. job \in Jobs /\ pending \in SUBSET Versions /\ queue \in Seq(Versions)
  BY DEF TypeOK, JobTyped, StoresTyped
<1>a. job.pc \in BootPCs /\ \A v \in Versions : ~Building(v)
  BY DEF RecoverPending, RecoverQueue, RecoverPush, RecoverDone, At, BootPCs,
         BuildPCs, Building
<1>1. CASE RecoverPending
  <2>1. /\ UNCHANGED <<queue, pending>>
        /\ job'.pc = "boot.queue" /\ job'.orphans = pending
    BY <1>0, <1>1 DEF RecoverPending, valkey, Jobs
  <2>2. \A v \in Versions : (Queued(v)' <=> Queued(v)) /\ ~Building(v)'
    BY <2>1 DEF Queued, Building, BuildPCs
  <2>3. QueueIsPending' /\ BuiltOneAtATime'
    BY <2>1, <2>2 DEF QueueInv, QueueIsPending, BuiltOneAtATime
  <2>4. RecoverySees' /\ PendingIsQueued'
    BY <2>1 DEF RecoverySees, PendingIsQueued, BootPCs
  <2> QED BY <2>3, <2>4 DEF QueueInv
<1>2. CASE RecoverQueue
  <2>1. /\ UNCHANGED <<queue, pending>>
        /\ job.pc = "boot.queue" /\ job'.pc = "boot.push"
        /\ job'.orphans = {v \in job.orphans : ~Queued(v)}
    BY <1>0, <1>2 DEF RecoverQueue, At, valkey, Jobs, Queued
  <2>2. \A v : (Queued(v)' <=> Queued(v))
    BY <2>1 DEF Queued
  <2>3. \A v \in Versions : ~Building(v)'
    BY <2>1 DEF Building, BuildPCs
  <2>4. QueueIsPending' /\ BuiltOneAtATime'
    BY <2>1, <2>2, <2>3 DEF QueueInv, QueueIsPending, BuiltOneAtATime
  <2>5. RecoverySees'
    BY <2>1, <2>2 DEF QueueInv, RecoverySees
  <2>6. PendingIsQueued'
    BY <2>1 DEF PendingIsQueued, BootPCs
  <2> QED BY <2>4, <2>5, <2>6 DEF QueueInv
<1>3. CASE RecoverPush
  <2>1. PICK v \in job.orphans :
              /\ queue' = Append(queue, v)
              /\ job' = [job EXCEPT !.orphans = job.orphans \ {v}]
    BY <1>3 DEF RecoverPush
  <2>2. /\ UNCHANGED pending
        /\ job.pc = "boot.push" /\ job'.pc = "boot.push"
        /\ job'.orphans = job.orphans \ {v} /\ v \in Versions
    BY <1>0, <1>3, <2>1 DEF RecoverPush, At, Jobs
  <2>3. ~Queued(v) /\ v \in pending
    BY <2>2 DEF QueueInv, RecoverySees
  <2>4. /\ \A w \in Versions : Queued(w)' <=> Queued(w) \/ w = v
        /\ Distinct /\ ~Queued(v) => Distinct'
    BY <1>0, <2>1, <2>2, Pushed
  <2>5. \A w \in Versions : ~Building(w)'
    BY <2>2 DEF Building, BuildPCs
  <2>6. QueueIsPending'
    BY <2>2, <2>3, <2>4, <2>5 DEF QueueInv, QueueIsPending
  <2>7. BuiltOneAtATime'
    BY <2>3, <2>4, <2>5 DEF QueueInv, BuiltOneAtATime, Distinct
  <2>8. RecoverySees'
    BY <1>0, <2>2, <2>4 DEF QueueInv, RecoverySees, Jobs
  <2>9. PendingIsQueued'
    BY <2>2 DEF PendingIsQueued, BootPCs
  <2> QED BY <2>6, <2>7, <2>8, <2>9 DEF QueueInv
<1>4. CASE RecoverDone
  <2>1. /\ UNCHANGED <<queue, pending>>
        /\ job.pc = "boot.push" /\ job.orphans = {} /\ job'.pc = "idle"
    BY <1>0, <1>4 DEF RecoverDone, At, Goto, valkey, Jobs
  <2>2. \A v : Queued(v)' <=> Queued(v)
    BY <2>1 DEF Queued
  <2>3. \A v \in Versions : ~Building(v)'
    BY <2>1 DEF Building, BuildPCs
  <2>4. QueueIsPending' /\ BuiltOneAtATime'
    BY <2>1, <2>2, <2>3 DEF QueueInv, QueueIsPending, BuiltOneAtATime
  <2>5. PendingIsQueued'
    BY <1>0, <2>1, <2>2 DEF QueueInv, RecoverySees, PendingIsQueued
  <2>6. RecoverySees'
    BY <2>1 DEF RecoverySees
  <2> QED BY <2>4, <2>5, <2>6 DEF QueueInv
<1> QED BY <1>1, <1>2, <1>3, <1>4

(* dequeue: the version leaves the queue for the worker's hands.           *)
LEMMA DequeueKeeps ==
    ASSUME TypeOK, QueueInv, Dequeue
    PROVE  QueueInv'
<1>0. job \in Jobs /\ pending \in SUBSET Versions /\ queue \in Seq(Versions)
  BY DEF TypeOK, JobTyped, StoresTyped
<1>1. PICK v : v = Head(queue)
  OBVIOUS
<1>2. /\ job.pc = "idle" /\ job'.pc = "payload" /\ job'.v = v
      /\ UNCHANGED pending /\ queue' = Tail(queue) /\ queue # <<>>
  BY <1>0, <1>1 DEF Dequeue, At, Jobs
<1>3. Distinct
  BY DEF QueueInv, BuiltOneAtATime, Distinct
<1>4. /\ v \in Versions /\ Queued(v) /\ ~Queued(v)' /\ Distinct'
      /\ \A w \in Versions : Queued(w) <=> Queued(w)' \/ w = v
  BY <1>0, <1>1, <1>2, <1>3, Popped
<1>5. \A w \in Versions : (Building(w)' <=> w = v) /\ ~Building(w)
  BY <1>2 DEF Building, BuildPCs
<1>6. QueueIsPending'
  BY <1>2, <1>4, <1>5 DEF QueueInv, QueueIsPending
<1>7. RecoverySees'
  BY <1>2 DEF RecoverySees
<1>8. BuiltOneAtATime'
  BY <1>4, <1>5 DEF BuiltOneAtATime, Distinct
<1>9. PendingIsQueued'
  BY <1>0, <1>2, <1>4, <1>5 DEF QueueInv, PendingIsQueued, BootPCs
<1> QED BY <1>6, <1>7, <1>8, <1>9 DEF QueueInv

(* Every step from HGET to the end of the build stays with its version.    *)
LEMMA BuildKeeps ==
    ASSUME TypeOK, QueueInv,
           \/ ReadPayload \/ FetchDefinition \/ CheckRow \/ LookupImage
           \/ AdoptImage \/ Build \/ RecordSuccess \/ RegisterLookup
           \/ RegisterFile \/ RegisterRow \/ RecordImage \/ FailureRead
           \/ FailureWrite \/ StepFails
    PROVE  QueueInv'
<1>0. job \in Jobs
  BY DEF TypeOK, JobTyped
<1>1. job.pc \in BuildPCs
  BY DEF ReadPayload, FetchDefinition, CheckRow, LookupImage, AdoptImage,
         Build, RecordSuccess, RegisterLookup, RegisterFile, RegisterRow,
         RecordImage, FailureRead, FailureWrite, StepFails, At, BuildPCs
<1>2. UNCHANGED <<queue, pending>>
  BY DEF ReadPayload, FetchDefinition, CheckRow, LookupImage, AdoptImage,
         Build, RecordSuccess, RegisterLookup, RegisterFile, RegisterRow,
         RecordImage, FailureRead, FailureWrite, StepFails, valkey
<1>3. \/ \E l \in BuildPCs : Goto(l) \/ Return(l)
      \/ job' = [job EXCEPT !.pc = "fetch", !.force = requests[job.v] = "force"]
      \/ job' = [job EXCEPT !.pc = "cache", !.def = source[job.v]]
      \/ job' = [job EXCEPT !.pc = "adopt", !.image = image[job.v].id]
      \/ \E i \in Images : job' = [job EXCEPT !.pc = "reg.file", !.image = i]
      \/ job' = [job EXCEPT !.pc = "fail.write", !.def = source[job.v]]
  <2>1. CASE StepFails
    BY <2>1 DEF StepFails, AfterError, BuildPCs
  <2>2. CASE ~StepFails
    BY <2>2 DEF ReadPayload, FetchDefinition, CheckRow, LookupImage,
                AdoptImage, Build, RecordSuccess, RegisterLookup,
                RegisterFile, RegisterRow, RecordImage, FailureRead,
                FailureWrite, BuildPCs
  <2> QED BY <2>1, <2>2
<1>4. job'.pc \in BuildPCs /\ job'.v = job.v
  <2>1. CASE \E l \in BuildPCs : Goto(l) \/ Return(l)
    BY <1>0, <2>1 DEF Goto, Return, JobAt, Jobs
  <2>2. CASE ~\E l \in BuildPCs : Goto(l) \/ Return(l)
    BY <1>0, <1>3, <2>2 DEF Jobs, BuildPCs
  <2> QED BY <2>1, <2>2
<1> QED BY <1>1, <1>2, <1>4, BuildGoesOn

(* complete: the version leaves the set together with the worker's hands.  *)
LEMMA CompleteKeeps ==
    ASSUME TypeOK, QueueInv, CompletePending \/ CompleteRequest
    PROVE  QueueInv'
<1>0. job \in Jobs /\ pending \in SUBSET Versions
  BY DEF TypeOK, JobTyped, StoresTyped
<1>1. CASE CompletePending
  <2>1. /\ job.pc = "complete.srem" /\ job'.pc = "complete.hdel"
        /\ pending' = pending \ {job.v} /\ UNCHANGED queue
        /\ job.v \in Versions
    BY <1>0, <1>1 DEF CompletePending, At, Goto, Jobs, TypeOK, JobTyped,
                      BuildPCs
  <2>2. \A v \in Versions : /\ Queued(v)' <=> Queued(v)
                            /\ ~Building(v)'
                            /\ Building(v) <=> v = job.v
    BY <2>1 DEF Queued, Building, BuildPCs
  <2>3. QueueIsPending'
    BY <2>1, <2>2 DEF QueueInv, QueueIsPending, BuiltOneAtATime
  <2>4. RecoverySees'
    BY <2>1 DEF RecoverySees
  <2>5. BuiltOneAtATime'
    BY <2>1, <2>2 DEF QueueInv, BuiltOneAtATime
  <2>6. PendingIsQueued'
    BY <1>0, <2>1, <2>2 DEF QueueInv, PendingIsQueued, BootPCs
  <2> QED BY <2>3, <2>4, <2>5, <2>6 DEF QueueInv
<1>2. CASE CompleteRequest
  <2>1. /\ job.pc = "complete.hdel" /\ job'.pc = "idle"
        /\ UNCHANGED <<queue, pending>>
    BY <1>2 DEF CompleteRequest, At, JobAt
  <2>2. \A v \in Versions : /\ Queued(v)' <=> Queued(v)
                            /\ ~Building(v)' /\ ~Building(v)
    BY <2>1 DEF Queued, Building, BuildPCs
  <2>3. QueueIsPending' /\ BuiltOneAtATime' /\ RecoverySees'
    BY <2>1, <2>2 DEF QueueInv, QueueIsPending, BuiltOneAtATime, RecoverySees
  <2>4. PendingIsQueued'
    BY <1>0, <2>1, <2>2 DEF QueueInv, PendingIsQueued, BootPCs
  <2> QED BY <2>3, <2>4 DEF QueueInv
<1> QED BY <1>1, <1>2

(* After a crash the list and the set are as they were, and nothing is     *)
(* promised until the recovery is through.                                 *)
LEMMA ProcessKeeps ==
    ASSUME TypeOK, QueueInv, Crash \/ Restart
    PROVE  QueueInv'
<1>1. /\ UNCHANGED <<queue, pending>>
      /\ job'.pc \in {"down", "boot.pending"}
  BY DEF Crash, Restart, valkey, JobAt, Booting
<1>2. \A v \in Versions : (Queued(v)' <=> Queued(v)) /\ ~Building(v)'
  BY <1>1 DEF Queued, Building, BuildPCs
<1>3. QueueIsPending' /\ BuiltOneAtATime'
  BY <1>1, <1>2 DEF QueueInv, QueueIsPending, BuiltOneAtATime
<1>4. RecoverySees' /\ PendingIsQueued'
  BY <1>1 DEF RecoverySees, PendingIsQueued, BootPCs
<1> QED BY <1>3, <1>4 DEF QueueInv

(* Clients touch the queue through enqueue only.                           *)
LEMMA ClientKeeps ==
    ASSUME TypeOK, QueueInv, NEW c \in Clients, ClientStep(c)
    PROVE  QueueInv'
<1>0. StoresTyped /\ \A d \in Clients : client[d].pc # "idle" => client[d].v \in Versions
  BY DEF TypeOK, ClientsTyped
<1>1. CASE \E v \in Versions : CompilePlain(c, v)
  BY <1>0, <1>1, EnqueueKeeps DEF CompilePlain, Quiet
<1>2. CASE RunEnqueue(c)
  BY <1>0, <1>2, EnqueueKeeps DEF RunEnqueue, Moves, Quiet
<1>3. CASE RunForce(c)
  BY <1>0, <1>3, EnqueueKeeps DEF RunForce, Moves, Quiet
<1>4. CASE \/ \E v \in Versions : \/ RunCheck(c, v) \/ UpdateVersion(c, v)
                                  \/ CompileInvalidate(c, v)
           \/ RunDeleteFailure(c) \/ RunPending(c) \/ RunImage(c)
           \/ RunStart(c) \/ RunForget(c) \/ EditInvalidate(c)
  <2>1. UNCHANGED <<queue, pending, job>>
    BY <1>4 DEF RunCheck, UpdateVersion, CompileInvalidate, RunDeleteFailure,
                RunPending, RunImage, RunStart, RunForget, EditInvalidate,
                Quiet, valkey
  <2> QED BY <2>1, QueueStutters
<1> QED BY <1>1, <1>2, <1>3, <1>4 DEF ClientStep

(* Nothing is queued at the start.                                         *)
LEMMA InitKeeps == Init => QueueInv
<1> SUFFICES ASSUME Init PROVE QueueInv
  OBVIOUS
<1>1. queue = <<>> /\ pending = {} /\ job.pc = "boot.pending"
  BY InitialRecords DEF Init
<1>2. \A v \in Versions : ~Queued(v) /\ ~Building(v)
  BY <1>1 DEF Queued, Building, BuildPCs
<1> QED BY <1>1, <1>2 DEF QueueInv, QueueIsPending, RecoverySees,
                          BuiltOneAtATime, PendingIsQueued, BootPCs

(* Every step keeps the queue invariant.                                   *)
LEMMA NextKeeps == TypeOK /\ QueueInv /\ [Next]_vars => QueueInv'
<1> SUFFICES ASSUME TypeOK, QueueInv, [Next]_vars PROVE QueueInv'
  OBVIOUS
<1>1. CASE WorkerStep \/ StepFails
  BY <1>1, RecoveryKeeps, DequeueKeeps, BuildKeeps, CompleteKeeps
     DEF WorkerStep
<1>2. CASE \E c \in Clients : ClientStep(c)
  BY <1>2, ClientKeeps
<1>3. CASE CleanerStep
  BY <1>3, QueueStutters
     DEF CleanerStep, ListDirectories, QueryImages, RemoveOrphan,
         SelectStale, DeleteStaleRow, RemoveStaleDirectory, CleanupDone,
         Still, valkey
<1>4. CASE Crash \/ Restart
  BY <1>4, ProcessKeeps
<1>5. CASE UNCHANGED vars
  BY <1>5, QueueStutters DEF vars, valkey
<1> QED BY <1>1, <1>2, <1>3, <1>4, <1>5 DEF Next

(* The inductive invariant holds.                                          *)
LEMMA InvHolds == Spec => []Inv
BY InitType, NextType, InitKeeps, NextKeeps, PTL DEF Spec, Inv

(* No version is queued twice or queued while it is built, for any number  *)
(* of versions and clients, although recover_orphaned reads the set and    *)
(* the list in two commands and clients enqueue meanwhile.                 *)
THEOREM BuildsAreExclusive == Spec => []BuiltOneAtATime
BY InvHolds, PTL DEF Inv, QueueInv

(* Once the worker has recovered, no version stays in the pending set      *)
(* without being in the queue or in the worker's hands, whatever was lost  *)
(* in a crash: a pending mark cannot block a version forever.              *)
THEOREM NoRequestIsForgotten == Spec => []PendingIsQueued
BY InvHolds, PTL DEF Inv, QueueInv
=============================================================================
