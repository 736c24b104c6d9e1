------------------------- MODULE CompilationWorker -------------------------
(***************************************************************************)
(* The compilation worker: recovery of orphaned requests at its start,     *)
(* then one request after the other through CompilationService.  A step is *)
(* one Valkey command, one SQL statement or one file write, with the local *)
(* code around it.                                                         *)
(***************************************************************************)
EXTENDS CompilationState

At(l) == job.pc = l

Goto(l) == job' = [job EXCEPT !.pc = l]

(* compile_workflow returns: its local variables are gone.                 *)
Return(l) == job' = JobAt(l, job.v)

Untouched == UNCHANGED <<source, client, cleaner, faulted>>

(***************************************************************************)
(* recover_orphaned: SMEMBERS, LRANGE, one RPUSH per orphan                *)
(***************************************************************************)
(* Mutant: nothing is recovered.                                           *)
RecoverNothing ==
    /\ At("boot.pending")
    /\ Goto("boot.queue")
    /\ Untouched /\ UNCHANGED <<row, environment, valkey>>

RecoverPending ==
    /\ At("boot.pending")
    /\ job' = [job EXCEPT !.pc = "boot.queue", !.orphans = pending]
    /\ Untouched /\ UNCHANGED <<row, environment, valkey>>

(* Mutant: what is still in the queue is pushed again.                     *)
RecoverBlindly ==
    /\ At("boot.queue")
    /\ Goto("boot.push")
    /\ Untouched /\ UNCHANGED <<row, environment, valkey>>

RecoverQueue ==
    /\ At("boot.queue")
    /\ job' = [job EXCEPT !.pc = "boot.push",
                          !.orphans = {v \in @ : \A i \in DOMAIN queue :
                                                   queue[i] # v}]
    /\ Untouched /\ UNCHANGED <<row, environment, valkey>>

RecoverPush ==
    /\ At("boot.push")
    /\ \E v \in job.orphans :
         /\ queue' = Append(queue, v)
         /\ job' = [job EXCEPT !.orphans = @ \ {v}]
    /\ Untouched /\ UNCHANGED <<row, environment, pending, requests>>

RecoverDone ==
    /\ At("boot.push") /\ job.orphans = {}
    /\ Goto("idle")
    /\ Untouched /\ UNCHANGED <<row, environment, valkey>>

(***************************************************************************)
(* dequeue: BLPOP, then HGET; a key without a payload reads as a plain     *)
(* request                                                                 *)
(***************************************************************************)
Dequeue ==
    /\ At("idle") /\ queue # <<>>
    /\ queue' = Tail(queue)
    /\ job' = [job EXCEPT !.pc = "payload", !.v = Head(queue)]
    /\ Untouched /\ UNCHANGED <<row, environment, pending, requests>>

ReadPayload ==
    /\ At("payload")
    /\ job' = [job EXCEPT !.pc = "fetch",
                          !.force = requests[job.v] = "force"]
    /\ Untouched /\ UNCHANGED <<row, environment, valkey>>

(***************************************************************************)
(* compile_workflow                                                        *)
(***************************************************************************)

(* Step 1; a graph that does not parse or has no steps fails at once.      *)
FetchDefinition ==
    /\ At("fetch")
    /\ \/ job' = [job EXCEPT !.pc = "cache", !.def = source[job.v]]
       \/ source[job.v] \in Broken /\ Return("fail.read")
    /\ Untouched /\ UNCHANGED <<row, environment, valkey>>

(* Step 5: a fresh image on record ends the job.                           *)
CheckRow ==
    /\ At("cache")
    /\ IF ~job.force /\ Fresh(job.v)
         THEN Return("complete.srem")
         ELSE Goto(IF job.force THEN "build" ELSE "lookup")
    /\ Untouched /\ UNCHANGED <<row, environment, valkey>>

(* Step 5b: image_cache_hits compares the checksum in the metadata.        *)
ImageCacheHits == image[job.v].id # None /\ image[job.v].meta = job.def

LookupImage ==
    /\ At("lookup")
    /\ IF ImageCacheHits
         THEN job' = [job EXCEPT !.pc = "adopt", !.image = image[job.v].id]
         ELSE Goto("build")
    /\ Untouched /\ UNCHANGED <<row, environment, valkey>>

AdoptImage ==
    /\ At("adopt")
    /\ row' = [row EXCEPT
                 ![job.v] = RecordRegisteredImageId(job.image, job.def)]
    /\ Return("complete.srem")
    /\ Untouched /\ UNCHANGED <<environment, valkey>>

(* Step 6.                                                                 *)
Build ==
    /\ At("build")
    /\ IF job.def \in Broken THEN Return("fail.read") ELSE Goto("success")
    /\ Untouched /\ UNCHANGED <<row, environment, valkey>>

(* Step 7.                                                                 *)
RecordSuccess ==
    /\ At("success")
    /\ row' = [row EXCEPT
                 ![job.v] = RecordCompilationSuccess(@, job.def)]
    /\ Goto("reg.lookup")
    /\ Untouched /\ UNCHANGED <<environment, valkey>>

(* Step 8, in the Environment: the image id of that name or a new one, the *)
(* file, the images row.                                                   *)
Referenced ==
    {row[v].image : v \in Versions} \cup {image[v].id : v \in Versions}
      \cup {client[c].image : c \in Clients} \cup cleaner.ids
      \cup {cleaner.at}
      \cup {i \in Images : disk[i] # None}

RegisterLookup ==
    /\ At("reg.lookup")
    /\ \E i \in Images :
         /\ IF image[job.v].id # None THEN i = image[job.v].id
                                      ELSE i \notin Referenced
         /\ job' = [job EXCEPT !.pc = "reg.file", !.image = i]
    /\ Untouched /\ UNCHANGED <<row, environment, valkey>>

RegisterFile ==
    /\ At("reg.file")
    /\ disk' = [disk EXCEPT ![job.image] = job.def]
    /\ Goto("reg.row")
    /\ Untouched /\ UNCHANGED <<row, image, valkey>>

RegisterRow ==
    /\ At("reg.row")
    /\ image' = [image EXCEPT ![job.v] = [id |-> job.image,
                                          meta |-> job.def]]
    /\ Goto("record")
    /\ Untouched /\ UNCHANGED <<row, disk, valkey>>

(* Step 8b.                                                                *)
RecordImage ==
    /\ At("record")
    /\ row' = [row EXCEPT
                 ![job.v] = RecordRegisteredImageId(job.image, job.def)]
    /\ Return("complete.srem")
    /\ Untouched /\ UNCHANGED <<environment, valkey>>

(* A statement or a call to the Environment fails.  Most errors fail the   *)
(* job; a failed image lookup goes on to the build; a failed write of the  *)
(* adopted image or of the failure itself is logged and forgotten.  An     *)
(* image whose row cannot be inserted loses its new directory.             *)
AfterError(l) ==
    IF l \in {"adopt", "fail.read", "fail.write"} THEN "complete.srem"
                                                 ELSE "fail.read"

StepFails ==
    /\ "transient" \in Hazards
    /\ job.pc \in {"fetch", "cache", "lookup", "adopt", "success",
                   "reg.lookup", "reg.file", "reg.row", "record",
                   "fail.read", "fail.write"}
    /\ IF At("lookup") THEN Goto("build") ELSE Return(AfterError(job.pc))
    /\ disk' \in {disk} \cup
                 (IF At("reg.row") /\ image[job.v].id = None
                    THEN {[disk EXCEPT ![job.image] = None]} ELSE {})
    /\ faulted' = TRUE
    /\ UNCHANGED <<database, image, valkey, client, cleaner>>

(***************************************************************************)
(* record_compilation_failure reads the definition again and stamps the    *)
(* row with its checksum                                                   *)
(***************************************************************************)
FailureRead ==
    /\ At("fail.read")
    /\ job' = [job EXCEPT !.pc = "fail.write", !.def = source[job.v]]
    /\ Untouched /\ UNCHANGED <<row, environment, valkey>>

(* Mutant: a failed build is queued again, without end.                    *)
FailureRequeues ==
    /\ At("fail.write")
    /\ row' = [row EXCEPT
                 ![job.v] = RecordCompilationFailure(@, job.def)]
    /\ queue' = Append(queue, job.v)
    /\ job' = JobAt("idle", None)
    /\ Untouched /\ UNCHANGED <<environment, pending, requests>>

FailureWrite ==
    /\ At("fail.write")
    /\ row' = [row EXCEPT
                 ![job.v] = RecordCompilationFailure(@, job.def)]
    /\ Return("complete.srem")
    /\ Untouched /\ UNCHANGED <<environment, valkey>>

(***************************************************************************)
(* complete: SREM, then HDEL                                               *)
(***************************************************************************)
CompletePending ==
    /\ At("complete.srem")
    /\ pending' = pending \ {job.v}
    /\ Goto("complete.hdel")
    /\ Untouched /\ UNCHANGED <<row, environment, queue, requests>>

CompleteRequest ==
    /\ At("complete.hdel")
    /\ requests' = [requests EXCEPT ![job.v] = None]
    /\ job' = JobAt("idle", None)
    /\ Untouched /\ UNCHANGED <<row, environment, queue, pending>>

WorkerStep ==
    \/ RecoverPending \/ RecoverQueue \/ RecoverPush \/ RecoverDone
    \/ Dequeue \/ ReadPayload \/ FetchDefinition \/ CheckRow \/ LookupImage
    \/ AdoptImage \/ Build \/ RecordSuccess \/ RegisterLookup \/ RegisterFile
    \/ RegisterRow \/ RecordImage \/ FailureRead \/ FailureWrite
    \/ CompletePending \/ CompleteRequest

(* The process ends: its tasks are gone, the stores stay.                  *)
Crash ==
    /\ "crash" \in Hazards /\ Up
    /\ job' = JobAt("down", None)
    /\ client' = [c \in Clients |-> Idle]
    /\ cleaner' = Resting
    /\ faulted' = TRUE
    /\ UNCHANGED <<database, environment, valkey>>

Restart ==
    /\ At("down")
    /\ job' = Booting
    /\ Untouched /\ UNCHANGED <<row, environment, valkey>>
=============================================================================
