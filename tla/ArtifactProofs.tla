--------------------------- MODULE ArtifactProofs ---------------------------
(***************************************************************************)
(* While no process crashes and no statement fails, the artifact recorded  *)
(* for a version is the one its checksum names, for any number of          *)
(* versions, images and clients and any interleaving with the cleanup.     *)
(***************************************************************************)
EXTENDS CompilationProofs

(* The job has an image id at hand; it is between the record of the        *)
(* success and the record of the image.                                    *)
ImagePCs == {"adopt", "reg.file", "reg.row", "record"}
RegisterPCs == {"reg.lookup", "reg.file", "reg.row", "record"}

Registering(v) == job.v = v /\ job.pc \in RegisterPCs

(* An image id belongs to one version.                                     *)
Uses(v, i) ==
    \/ row[v].image = i
    \/ image[v].id = i
    \/ job.v = v /\ job.pc \in ImagePCs /\ job.image = i

IdsApart ==
    \A i \in Images : \A u, v \in Versions : Uses(u, i) /\ Uses(v, i) => u = v

(* The directory of an image id is gone or holds the artifact of d.        *)
Contents(i, d) == disk[i] \in {None, d}

(* The checksum of a recorded success is that of its artifact, except      *)
(* while the worker is replacing it.                                       *)
RowInv(v) ==
    ~Registering(v) /\ row[v].status = "success" /\ row[v].image # None
    => Contents(row[v].image, row[v].sum)

(* So is the checksum in the metadata of an image, between the write of    *)
(* the file and the write of the row excepted.                             *)
ImageInv(v) ==
    ~(job.v = v /\ job.pc = "reg.row") /\ image[v].id # None
    => Contents(image[v].id, image[v].meta)

(* What the worker is about to record is what it has found or written.     *)
JobInv ==
    job.pc \in {"adopt", "reg.row", "record"} => Contents(job.image, job.def)

RecordedInv ==
    /\ IdsApart /\ JobInv
    /\ \A v \in Versions : RowInv(v) /\ ImageInv(v)

(* What holds as long as nothing has failed.                               *)
ArtifactsMatch == ~faulted => RecordedInv

(***************************************************************************)
(* Steps that record nothing new                                           *)
(***************************************************************************)

(* Nobody harms the records by removing rows, images or files.             *)
LEMMA RemovalKeeps ==
    ASSUME TypeOK, RecordedInv, UNCHANGED job,
           \A v \in Versions : row'[v] \in {row[v], NoRow},
           \A v \in Versions : image'[v] \in {image[v], NoImage},
           \A i \in Images : disk'[i] \in {disk[i], None}
    PROVE  RecordedInv'
<1>1. /\ NoRow.image = None /\ NoRow.status = "absent" /\ NoImage.id = None
      /\ \A v \in Versions : /\ row[v].image \in Images \cup {None}
                             /\ image[v].id \in Images \cup {None}
      /\ None \notin Images
  BY CompilationAssumption
     DEF NoRow, NoImage, TypeOK, StoresTyped, Rows, ImageRows
<1>2. IdsApart'
  <2>1. \A v \in Versions, i \in Images : Uses(v, i)' => Uses(v, i)
    BY <1>1 DEF Uses
  <2> QED BY <2>1 DEF RecordedInv, IdsApart, Uses
<1>3. JobInv'
  <2>1. CASE job.pc \in {"adopt", "reg.row", "record"}
    <3>1. job.image \in Images /\ Contents(job.image, job.def)
      BY <2>1 DEF TypeOK, JobTyped, RecordedInv, JobInv
    <3> QED BY <3>1 DEF JobInv, Contents
  <2> QED BY <2>1 DEF JobInv
<1>4. ASSUME NEW v \in Versions
      PROVE  RowInv(v)'
  <2>1. CASE row'[v] = row[v]
    BY <1>1, <2>1 DEF RecordedInv, RowInv, Registering, Contents
  <2>2. CASE row'[v] = NoRow
    BY <1>1, <2>2 DEF RowInv
  <2> QED BY <2>1, <2>2
<1>5. ASSUME NEW v \in Versions
      PROVE  ImageInv(v)'
  <2>1. CASE image'[v] = image[v]
    BY <1>1, <2>1 DEF RecordedInv, ImageInv, Contents
  <2>2. CASE image'[v] = NoImage
    BY <1>1, <2>2 DEF ImageInv
  <2> QED BY <2>1, <2>2
<1> QED BY <1>2, <1>3, <1>4, <1>5 DEF RecordedInv

(* A step of the worker that writes nothing and takes up no image id.      *)
LEMMA PlainJobKeeps ==
    ASSUME TypeOK, RecordedInv, UNCHANGED <<row, image, disk>>,
           job.pc \notin RegisterPCs, job'.pc \notin ImagePCs
    PROVE  RecordedInv'
<1>1. IdsApart'
  <2>1. \A v \in Versions, i \in Images : Uses(v, i)' => Uses(v, i)
    BY DEF Uses
  <2> QED BY <2>1 DEF RecordedInv, IdsApart, Uses
<1>2. JobInv'
  BY DEF JobInv, ImagePCs
<1>3. \A v \in Versions : RowInv(v)' /\ ImageInv(v)'
  BY DEF RecordedInv, RowInv, ImageInv, Registering, RegisterPCs, Contents
<1> QED BY <1>1, <1>2, <1>3 DEF RecordedInv

(***************************************************************************)
(* Steps of the worker                                                     *)
(***************************************************************************)

(* Recovery, dequeue, the checks before a build, and what follows it.      *)
LEMMA PlainStepsKeep ==
    ASSUME TypeOK, RecordedInv,
           \/ RecoverPending \/ RecoverQueue \/ RecoverPush \/ RecoverDone
           \/ Dequeue \/ ReadPayload \/ FetchDefinition \/ CheckRow \/ Build
           \/ FailureRead \/ CompletePending \/ CompleteRequest \/ Restart
    PROVE  RecordedInv'
<1>1. UNCHANGED <<row, image, disk>>
  BY DEF RecoverPending, RecoverQueue, RecoverPush, RecoverDone, Dequeue,
         ReadPayload, FetchDefinition, CheckRow, Build, FailureRead,
         CompletePending, CompleteRequest, Restart, environment
<1>2. job.pc \notin RegisterPCs
  BY DEF RecoverPending, RecoverQueue, RecoverPush, RecoverDone, Dequeue,
         ReadPayload, FetchDefinition, CheckRow, Build, FailureRead,
         CompletePending, CompleteRequest, Restart, At, RegisterPCs
<1>3. job'.pc \notin ImagePCs
  <2>0. job \in Jobs
    BY DEF TypeOK, JobTyped
  <2>1. CASE RecoverPending \/ RecoverQueue \/ RecoverPush \/ RecoverDone
    BY <2>0, <2>1 DEF RecoverPending, RecoverQueue, RecoverPush, RecoverDone,
                      At, Goto, Jobs, ImagePCs
  <2>2. CASE Dequeue \/ ReadPayload \/ FailureRead \/ CompletePending
    BY <2>0, <2>2 DEF Dequeue, ReadPayload, FailureRead, CompletePending,
                      Goto, Jobs, ImagePCs
  <2>3. CASE FetchDefinition \/ CheckRow \/ Build
    <3>1. \/ \E l \in {"build", "lookup", "success"} : Goto(l)
          \/ \E l \in {"fail.read", "complete.srem"} : Return(l)
          \/ \E d : job' = [job EXCEPT !.pc = "cache", !.def = d]
      BY <2>3 DEF FetchDefinition, CheckRow, Build
    <3>2. job'.pc \in {"build", "lookup", "success", "fail.read",
                       "complete.srem", "cache"}
      <4>1. CASE \E l \in {"build", "lookup", "success"} : Goto(l)
        BY <2>0, <4>1 DEF Goto, Jobs
      <4>2. CASE \E l \in {"fail.read", "complete.srem"} : Return(l)
        BY <4>2 DEF Return, JobAt
      <4>3. CASE \E d : job' = [job EXCEPT !.pc = "cache", !.def = d]
        BY <2>0, <4>3 DEF Jobs
      <4> QED BY <3>1, <4>1, <4>2, <4>3
    <3> QED BY <3>2 DEF ImagePCs
  <2>4. CASE CompleteRequest \/ Restart
    BY <2>4 DEF CompleteRequest, Restart, Booting, JobAt, ImagePCs
  <2> QED BY <2>1, <2>2, <2>3, <2>4
<1> QED BY <1>1, <1>2, <1>3, PlainJobKeeps

(* The image found in the Environment is that of the version, and its      *)
(* metadata describe it.                                                   *)
LEMMA LookupImageKeeps ==
    ASSUME TypeOK, RecordedInv, LookupImage
    PROVE  RecordedInv'
<1>1. /\ job.pc = "lookup" /\ job \in Jobs /\ job.v \in Versions
      /\ UNCHANGED <<row, image, disk>>
  BY DEF LookupImage, At, environment, TypeOK, JobTyped, BuildPCs
<1>2. CASE ~ImageCacheHits
  <2>1. job'.pc = "build"
    BY <1>1, <1>2 DEF LookupImage, Goto, Jobs
  <2> QED BY <1>1, <2>1, PlainJobKeeps DEF RegisterPCs, ImagePCs
<1>3. CASE ImageCacheHits
  <2>1. /\ job'.pc = "adopt" /\ job'.v = job.v /\ job'.def = job.def
        /\ job'.image = image[job.v].id
        /\ image[job.v].id # None /\ image[job.v].meta = job.def
    BY <1>1, <1>3 DEF LookupImage, ImageCacheHits, Jobs
  <2>2. IdsApart'
    <3>1. \A v \in Versions, i \in Images : Uses(v, i)' => Uses(v, i)
      BY <1>1, <2>1 DEF Uses
    <3> QED BY <3>1 DEF RecordedInv, IdsApart, Uses
  <2>3. JobInv'
    BY <1>1, <2>1 DEF JobInv, RecordedInv, ImageInv, Contents
  <2>4. \A v \in Versions : RowInv(v)' /\ ImageInv(v)'
    BY <1>1, <2>1
       DEF RecordedInv, RowInv, ImageInv, Registering, RegisterPCs, Contents
  <2> QED BY <2>2, <2>3, <2>4 DEF RecordedInv
<1> QED BY <1>2, <1>3

(* The row of the job's version is recorded with the image at hand.        *)
LEMMA RecordKeeps ==
    ASSUME TypeOK, RecordedInv, AdoptImage \/ RecordImage
    PROVE  RecordedInv'
<1>1. /\ job.pc \in {"adopt", "record"} /\ job.v \in Versions
      /\ job.image \in Images /\ UNCHANGED <<image, disk>>
      /\ Contents(job.image, job.def)
  BY DEF AdoptImage, RecordImage, At, environment, TypeOK, JobTyped,
         BuildPCs, RecordedInv, JobInv
<1>2. /\ row' = [row EXCEPT ![job.v] = [status |-> "success",
                                       sum |-> job.def, image |-> job.image]]
      /\ row \in [Versions -> Rows]
  BY DEF AdoptImage, RecordImage, RecordRegisteredImageId, TypeOK, StoresTyped
<1>3. job'.pc = "complete.srem"
  BY DEF AdoptImage, RecordImage, Return, JobAt
<1>4. /\ row'[job.v].image = job.image /\ row'[job.v].sum = job.def
      /\ \A v \in Versions : v # job.v => row'[v] = row[v]
  BY <1>1, <1>2
<1>5. IdsApart'
  <2>1. \A v \in Versions, i \in Images : Uses(v, i)' => Uses(v, i)
    BY <1>1, <1>3, <1>4 DEF Uses, ImagePCs
  <2> QED BY <2>1 DEF RecordedInv, IdsApart, Uses
<1>6. JobInv'
  BY <1>3 DEF JobInv
<1>7. ASSUME NEW v \in Versions
      PROVE  RowInv(v)' /\ ImageInv(v)'
  <2>1. ImageInv(v)'
    BY <1>1 DEF RecordedInv, ImageInv, Contents
  <2>2. RowInv(v)'
    <3>1. CASE v = job.v
      BY <1>1, <1>4, <3>1 DEF RowInv, Contents
    <3>2. CASE v # job.v
      BY <1>1, <1>4, <3>2 DEF RecordedInv, RowInv, Registering, Contents
    <3> QED BY <3>1, <3>2
  <2> QED BY <2>1, <2>2
<1> QED BY <1>5, <1>6, <1>7 DEF RecordedInv

(* A success without its image, and a failure, name no artifact.           *)
LEMMA StatusKeeps ==
    ASSUME TypeOK, RecordedInv, RecordSuccess \/ FailureWrite
    PROVE  RecordedInv'
<1>1. /\ job.pc \in {"success", "fail.write"} /\ job.v \in Versions
      /\ job \in Jobs /\ UNCHANGED <<image, disk>> /\ row \in [Versions -> Rows]
  BY DEF RecordSuccess, FailureWrite, At, environment, TypeOK, JobTyped,
         StoresTyped, BuildPCs
<1>2. /\ \A v \in Versions : row'[v].image = row[v].image
      /\ \A v \in Versions : v # job.v => row'[v] = row[v]
      /\ RecordSuccess => job'.pc = "reg.lookup" /\ job'.v = job.v
      /\ FailureWrite => /\ job'.pc = "complete.srem"
                         /\ row'[job.v].status = "failed"
  <2>1. CASE RecordSuccess
    <3>1. ~FailureWrite
      BY <2>1 DEF RecordSuccess, FailureWrite, At
    <3> QED BY <1>1, <2>1, <3>1
            DEF RecordSuccess, RecordCompilationSuccess, Goto, Jobs, Rows
  <2>2. CASE FailureWrite
    <3>1. ~RecordSuccess
      BY <2>2 DEF RecordSuccess, FailureWrite, At
    <3> QED BY <1>1, <2>2, <3>1
            DEF FailureWrite, RecordCompilationFailure, Return, JobAt, Rows
  <2> QED BY <2>1, <2>2
<1>3. job'.pc \in {"reg.lookup", "complete.srem"}
  BY <1>2
<1>4. IdsApart'
  <2>1. \A v \in Versions, i \in Images : Uses(v, i)' => Uses(v, i)
    BY <1>1, <1>2, <1>3 DEF Uses, ImagePCs
  <2> QED BY <2>1 DEF RecordedInv, IdsApart, Uses
<1>5. JobInv'
  BY <1>3 DEF JobInv
<1>6. ASSUME NEW v \in Versions
      PROVE  RowInv(v)' /\ ImageInv(v)'
  <2>1. ImageInv(v)'
    BY <1>1, <1>3 DEF RecordedInv, ImageInv, Contents
  <2>2. RowInv(v)'
    <3>1. CASE v = job.v
      BY <1>1, <1>2, <3>1 DEF RowInv, Registering, RegisterPCs
    <3>2. CASE v # job.v
      BY <1>1, <1>2, <3>2 DEF RecordedInv, RowInv, Registering, Contents
    <3> QED BY <3>1, <3>2
  <2> QED BY <2>1, <2>2
<1> QED BY <1>4, <1>5, <1>6 DEF RecordedInv

(* The id of a registration is the version's own or nobody's.              *)
LEMMA RegisterLookupKeeps ==
    ASSUME TypeOK, RecordedInv, RegisterLookup
    PROVE  RecordedInv'
<1>1. /\ job.pc = "reg.lookup" /\ job.v \in Versions /\ job \in Jobs
      /\ UNCHANGED <<row, image, disk>>
  BY DEF RegisterLookup, At, environment, TypeOK, JobTyped, BuildPCs
<1>2. PICK n \in Images :
        /\ IF image[job.v].id # None THEN n = image[job.v].id
                                     ELSE n \notin Referenced
        /\ job' = [job EXCEPT !.pc = "reg.file", !.image = n]
  BY DEF RegisterLookup
<1>3. job'.pc = "reg.file" /\ job'.v = job.v /\ job'.image = n
  BY <1>1, <1>2 DEF Jobs
<1>4. IdsApart'
  <2>1. \A v \in Versions, i \in Images :
          Uses(v, i)' => Uses(v, i) \/ (v = job.v /\ i = n)
    BY <1>1, <1>3 DEF Uses
  <2>2. \A v \in Versions : Uses(v, n) => v = job.v
    <3>1. CASE image[job.v].id # None
      <4>1. Uses(job.v, n)
        BY <1>2, <3>1 DEF Uses
      <4> QED BY <1>1, <4>1 DEF RecordedInv, IdsApart
    <3>2. CASE image[job.v].id = None
      <4>1. \A v \in Versions : row[v].image # n /\ image[v].id # n
        BY <1>2, <3>2 DEF Referenced
      <4> QED BY <1>1, <4>1 DEF Uses, ImagePCs
    <3> QED BY <3>1, <3>2
  <2> QED BY <2>1, <2>2 DEF RecordedInv, IdsApart, Uses
<1>5. JobInv'
  BY <1>3 DEF JobInv
<1>6. \A v \in Versions : RowInv(v)' /\ ImageInv(v)'
  BY <1>1, <1>3
     DEF RecordedInv, RowInv, ImageInv, Registering, RegisterPCs, Contents
<1> QED BY <1>4, <1>5, <1>6 DEF RecordedInv

(* The file is written in the directory of the version that is being       *)
(* built, and nobody else's.                                               *)
LEMMA RegisterFileKeeps ==
    ASSUME TypeOK, RecordedInv, RegisterFile
    PROVE  RecordedInv'
<1>1. /\ job.pc = "reg.file" /\ job.v \in Versions /\ job \in Jobs
      /\ job.image \in Images /\ disk \in [Images -> Definitions \cup {None}]
      /\ disk' = [disk EXCEPT ![job.image] = job.def]
      /\ UNCHANGED <<row, image>>
  BY DEF RegisterFile, At, TypeOK, JobTyped, StoresTyped, BuildPCs
<1>2. /\ job'.pc = "reg.row" /\ job'.v = job.v /\ job'.image = job.image
      /\ job'.def = job.def
  BY <1>1 DEF RegisterFile, Goto, Jobs
<1>3. /\ disk'[job.image] = job.def
      /\ \A i \in Images : i # job.image => disk'[i] = disk[i]
  BY <1>1
<1>4. IdsApart'
  <2>1. \A v \in Versions, i \in Images : Uses(v, i)' => Uses(v, i)
    BY <1>1, <1>2 DEF Uses, ImagePCs
  <2> QED BY <2>1 DEF RecordedInv, IdsApart, Uses
<1>5. JobInv'
  BY <1>2, <1>3 DEF JobInv, Contents
<1>6. ASSUME NEW v \in Versions
      PROVE  RowInv(v)' /\ ImageInv(v)'
  <2>1. CASE v = job.v
    BY <1>2, <2>1 DEF RowInv, ImageInv, Registering, RegisterPCs
  <2>2. CASE v # job.v
    <3>1. row[v].image # job.image /\ image[v].id # job.image
      BY <1>1, <2>2 DEF RecordedInv, IdsApart, Uses, ImagePCs
    <3>2. /\ row[v].image \in Images \cup {None}
          /\ image[v].id \in Images \cup {None}
      BY DEF TypeOK, StoresTyped, Rows, ImageRows
    <3>3. RowInv(v) /\ ImageInv(v)
      BY DEF RecordedInv
    <3> QED BY <1>1, <1>2, <1>3, <2>2, <3>1, <3>2, <3>3
            DEF RowInv, ImageInv, Registering, Contents
  <2> QED BY <2>1, <2>2
<1> QED BY <1>4, <1>5, <1>6 DEF RecordedInv

(* The images row describes the file just written.                         *)
LEMMA RegisterRowKeeps ==
    ASSUME TypeOK, RecordedInv, RegisterRow
    PROVE  RecordedInv'
<1>1. /\ job.pc = "reg.row" /\ job.v \in Versions /\ job \in Jobs
      /\ job.image \in Images /\ image \in [Versions -> ImageRows]
      /\ image' = [image EXCEPT ![job.v] = [id |-> job.image,
                                           meta |-> job.def]]
      /\ UNCHANGED <<row, disk>> /\ Contents(job.image, job.def)
  BY DEF RegisterRow, At, TypeOK, JobTyped, StoresTyped, BuildPCs,
         RecordedInv, JobInv
<1>2. /\ job'.pc = "record" /\ job'.v = job.v /\ job'.image = job.image
      /\ job'.def = job.def
  BY <1>1 DEF RegisterRow, Goto, Jobs
<1>3. /\ image'[job.v].id = job.image /\ image'[job.v].meta = job.def
      /\ \A v \in Versions : v # job.v => image'[v] = image[v]
  BY <1>1
<1>4. IdsApart'
  <2>1. \A v \in Versions, i \in Images : Uses(v, i)' => Uses(v, i)
    BY <1>1, <1>2, <1>3 DEF Uses, ImagePCs
  <2> QED BY <2>1 DEF RecordedInv, IdsApart, Uses
<1>5. JobInv'
  BY <1>1, <1>2 DEF JobInv, Contents
<1>6. ASSUME NEW v \in Versions
      PROVE  RowInv(v)' /\ ImageInv(v)'
  <2>1. CASE v = job.v
    BY <1>1, <1>2, <1>3, <2>1
       DEF RowInv, ImageInv, Registering, RegisterPCs, Contents
  <2>2. CASE v # job.v
    BY <1>1, <1>2, <1>3, <2>2
       DEF RecordedInv, RowInv, ImageInv, Registering, Contents
  <2> QED BY <2>1, <2>2
<1> QED BY <1>4, <1>5, <1>6 DEF RecordedInv

(***************************************************************************)
(* Clients, cleanup, and the theorem                                       *)
(***************************************************************************)

(* A client deletes compilation rows, at most.                             *)
LEMMA ClientRemoves ==
    ASSUME TypeOK, RecordedInv, NEW c \in Clients, ClientStep(c)
    PROVE  RecordedInv'
<1>1. UNCHANGED <<job, image, disk>>
  BY DEF ClientStep, RunCheck, UpdateVersion, CompilePlain,
         CompileInvalidate, RunDeleteFailure, RunPending, RunEnqueue,
         RunImage, RunStart, RunForget, RunForce, EditInvalidate, Quiet,
         environment
<1>2. UNCHANGED row \/ \E v : Invalidate(v)
  BY DEF ClientStep, RunCheck, UpdateVersion, CompilePlain,
         CompileInvalidate, RunDeleteFailure, RunPending, RunEnqueue,
         RunImage, RunStart, RunForget, RunForce, EditInvalidate, database
<1>3. \A v \in Versions : row'[v] \in {row[v], NoRow}
  BY <1>2 DEF Invalidate, TypeOK, StoresTyped
<1> QED BY <1>1, <1>3, RemovalKeeps

(* The cleanup deletes image rows and files, at most.                      *)
LEMMA CleanerRemoves ==
    ASSUME TypeOK, RecordedInv, CleanerStep
    PROVE  RecordedInv'
<1>1. UNCHANGED <<job, row>>
  BY DEF CleanerStep, ListDirectories, QueryImages, RemoveOrphan,
         SelectStale, DeleteStaleRow, RemoveStaleDirectory, CleanupDone,
         Still, database
<1>2. \/ UNCHANGED environment
      \/ RemoveOrphan \/ DeleteStaleRow \/ RemoveStaleDirectory
  BY DEF CleanerStep, ListDirectories, QueryImages, SelectStale, CleanupDone
<1>3. \A v \in Versions : image'[v] \in {image[v], NoImage}
  BY <1>2 DEF environment, RemoveOrphan, DeleteStaleRow, RemoveStaleDirectory
<1>4. \A i \in Images : disk'[i] \in {disk[i], None}
  BY <1>2 DEF environment, RemoveOrphan, DeleteStaleRow, RemoveStaleDirectory,
              TypeOK, StoresTyped
<1> QED BY <1>1, <1>3, <1>4, RemovalKeeps

(* A server that starts has recorded nothing.                              *)
LEMMA InitRecorded == Init => RecordedInv
<1> SUFFICES ASSUME Init PROVE RecordedInv
  OBVIOUS
<1>1. /\ \A v \in Versions : row[v] = NoRow /\ image[v] = NoImage
      /\ job.pc = "boot.pending"
  BY DEF Init, Booting, JobAt
<1>2. NoRow.image = None /\ NoRow.status = "absent" /\ NoImage.id = None
  BY DEF NoRow, NoImage
<1>3. IdsApart /\ JobInv
  BY <1>1, <1>2, CompilationAssumption DEF IdsApart, Uses, JobInv, ImagePCs
<1> QED BY <1>1, <1>2, <1>3 DEF RecordedInv, RowInv, ImageInv

(* Every step in which nothing fails keeps the records right.              *)
LEMMA NextRecorded ==
    ASSUME TypeOK, RecordedInv, [Next]_vars, ~faulted'
    PROVE  RecordedInv'
<1>1. CASE WorkerStep
  <2>1. CASE \/ RecoverPending \/ RecoverQueue \/ RecoverPush \/ RecoverDone
             \/ Dequeue \/ ReadPayload \/ FetchDefinition \/ CheckRow
             \/ Build \/ FailureRead \/ CompletePending \/ CompleteRequest
    BY <2>1, PlainStepsKeep
  <2>2. CASE LookupImage \/ AdoptImage \/ RecordImage
    BY <2>2, LookupImageKeeps, RecordKeeps
  <2>3. CASE RecordSuccess \/ FailureWrite
    BY <2>3, StatusKeeps
  <2>4. CASE RegisterLookup \/ RegisterFile \/ RegisterRow
    BY <2>4, RegisterLookupKeeps, RegisterFileKeeps, RegisterRowKeeps
  <2> QED BY <1>1, <2>1, <2>2, <2>3, <2>4 DEF WorkerStep
<1>2. CASE StepFails \/ Crash
  BY <1>2 DEF StepFails, Crash
<1>3. CASE \E c \in Clients : ClientStep(c)
  BY <1>3, ClientRemoves
<1>4. CASE CleanerStep
  BY <1>4, CleanerRemoves
<1>5. CASE Restart
  BY <1>5, PlainStepsKeep
<1>6. CASE UNCHANGED vars
  <2>1. UNCHANGED <<job, row, image, disk>>
    BY <1>6 DEF vars, database, environment
  <2> QED BY <2>1, RemovalKeeps
<1> QED BY <1>1, <1>2, <1>3, <1>4, <1>5, <1>6 DEF Next

(* A fault is remembered.                                                  *)
LEMMA FaultStays ==
    ASSUME [Next]_vars
    PROVE  faulted' = faulted \/ faulted' = TRUE
BY DEF Next, vars, WorkerStep, RecoverPending, RecoverQueue, RecoverPush,
       RecoverDone, Dequeue, ReadPayload, FetchDefinition, CheckRow,
       LookupImage, AdoptImage, Build, RecordSuccess, RegisterLookup,
       RegisterFile, RegisterRow, RecordImage, FailureRead, FailureWrite,
       CompletePending, CompleteRequest, StepFails, Crash, Restart, Untouched,
       ClientStep, RunCheck, UpdateVersion, CompilePlain, CompileInvalidate,
       RunDeleteFailure, RunPending, RunEnqueue, RunImage, RunStart,
       RunForget, RunForce, EditInvalidate, Quiet, CleanerStep,
       ListDirectories, QueryImages, RemoveOrphan, SelectStale,
       DeleteStaleRow, RemoveStaleDirectory, CleanupDone, Still

(* As long as nothing has failed, the artifacts on record are the ones     *)
(* their checksums name, and no two versions share an image id.            *)
THEOREM RecordsMatch == Spec => []ArtifactsMatch
<1>1. Init => ArtifactsMatch
  BY InitRecorded DEF ArtifactsMatch
<1>2. TypeOK /\ ArtifactsMatch /\ [Next]_vars => ArtifactsMatch'
  <2> SUFFICES ASSUME TypeOK, ArtifactsMatch, [Next]_vars, ~faulted'
               PROVE  RecordedInv'
    BY DEF ArtifactsMatch
  <2>1. ~faulted
    <3>1. CASE faulted' = faulted
      BY <3>1
    <3>2. CASE faulted' = TRUE
      BY <3>2
    <3> QED BY <3>1, <3>2, FaultStays
  <2> QED BY <2>1, NextRecorded DEF ArtifactsMatch
<1> QED BY <1>1, <1>2, TypeCorrect, PTL DEF Spec

(* As long as nothing has failed, a version reported ready whose build is  *)
(* over runs the definition stored now, if its artifact is still there.    *)
THEOREM ReadyIsCurrent == Spec => []SettledReadyIsCurrent
<1>1. TypeOK /\ ArtifactsMatch => SettledReadyIsCurrent
  <2> SUFFICES ASSUME TypeOK, RecordedInv, NEW v \in Versions, ~Building(v)
               PROVE  RunsCurrent(v)
    BY DEF ArtifactsMatch, SettledReadyIsCurrent
  <2>1. ~Registering(v) /\ RowInv(v)
    BY DEF Registering, RegisterPCs, Building, BuildPCs, RecordedInv
  <2> QED BY <2>1 DEF RunsCurrent, Fresh, RowInv, Contents
<1> QED BY <1>1, RecordsMatch, TypeCorrect, PTL
=============================================================================
