---------------------------- MODULE Compilation ----------------------------
(***************************************************************************)
(* Compilation of workflow versions: worker, clients and image cleanup     *)
(* over the same tables, queue and files.                                  *)
(***************************************************************************)
EXTENDS CompilationWorker, CompilationClients, ImageCleanup

Next ==
    \/ WorkerStep
    \/ StepFails
    \/ \E c \in Clients : ClientStep(c)
    \/ CleanerStep
    \/ Crash
    \/ Restart

Spec == Init /\ [][Next]_vars

(* The worker's loop goes on, the periodic cleanup comes, a request that   *)
(* has begun goes on, a supervisor restarts the process.  Nobody has to    *)
(* begin a request and no fault has to happen.                             *)
ClientWorks(c) == client[c].pc # "idle" /\ ClientStep(c)

FairSpec ==
    /\ Spec
    /\ WF_vars(WorkerStep) /\ WF_vars(CleanerStep) /\ WF_vars(Restart)
    /\ \A c \in Clients : WF_vars(ClientWorks(c))

(***************************************************************************)
(* Properties                                                              *)
(***************************************************************************)
BootPCs == {"down", "boot.pending", "boot.queue", "boot.push"}

BuildPCs == {"payload", "fetch", "cache", "lookup", "adopt", "build",
             "success", "reg.lookup", "reg.file", "reg.row", "record",
             "fail.read", "fail.write", "complete.srem"}

Rows == [status : {"absent", "success", "failed"},
         sum : Definitions \cup {None}, image : Images \cup {None}]

ImageRows == [id : Images \cup {None}, meta : Definitions \cup {None}]

Jobs == [pc : BootPCs \cup BuildPCs \cup {"idle", "complete.hdel"},
         v : Versions \cup {None}, force : BOOLEAN,
         def : Definitions \cup {None}, image : Images \cup {None},
         orphans : SUBSET Versions]

ClientStates == [pc : {"idle", "run.image", "run.delete", "run.pending",
                       "run.enqueue", "run.start", "run.forget",
                       "run.force", "edit.invalidate"},
                 v : Versions \cup {None}, image : Images \cup {None}]

Cleaners == [pc : {"idle", "orphans.query", "orphans.remove",
                   "stale.delete", "stale.remove"},
             ids : SUBSET Images, at : Images \cup {None}]

StoresTyped ==
    /\ source \in [Versions -> Definitions]
    /\ row \in [Versions -> Rows]
    /\ image \in [Versions -> ImageRows]
    /\ disk \in [Images -> Definitions \cup {None}]
    /\ queue \in Seq(Versions)
    /\ pending \in SUBSET Versions
    /\ requests \in [Versions -> {None, "plain", "force"}]

JobTyped ==
    /\ job \in Jobs
    /\ job.pc \in BuildPCs \cup {"complete.hdel"} => job.v \in Versions
    /\ job.pc \in {"adopt", "reg.file", "reg.row", "record"} =>
         job.image \in Images
    /\ job.pc \in {"cache", "lookup", "adopt", "build", "success",
                    "reg.lookup", "reg.file", "reg.row", "record",
                    "fail.write"} => job.def \in Definitions

ClientsTyped ==
    /\ client \in [Clients -> ClientStates]
    /\ \A c \in Clients :
         /\ client[c].pc # "idle" => client[c].v \in Versions
         /\ client[c].pc = "run.start" => client[c].image \in Images

CleanerTyped ==
    /\ cleaner \in Cleaners
    /\ cleaner.pc = "stale.remove" => cleaner.at \in Images

(* Every variable has the type its comment gives; whoever is about to use  *)
(* a version, a definition or an image id has one.                         *)
TypeOK ==
    StoresTyped /\ JobTyped /\ ClientsTyped /\ CleanerTyped
    /\ faulted \in BOOLEAN

Queued(v) == \E i \in DOMAIN queue : queue[i] = v

(* The worker has taken v from the queue and not yet given it up.          *)
Building(v) == job.v = v /\ job.pc \in BuildPCs

(* A version is in the queue at most once, and not while it is being       *)
(* built, whatever the recovery at the worker's start interleaves with.    *)
BuiltOneAtATime ==
    /\ \A i, j \in DOMAIN queue : queue[i] = queue[j] => i = j
    /\ \A v \in Versions : ~(Queued(v) /\ Building(v))

(* Once the worker has recovered, a pending version is in the queue or in  *)
(* the worker's hands: it cannot block later requests forever.             *)
PendingIsQueued ==
    job.pc \notin BootPCs =>
        \A v \in pending : Queued(v) \/ Building(v)

(* The artifact that an execution of v would start, if it is still there,  *)
(* is built from the definition stored now.                                *)
RunsCurrent(v) ==
    Fresh(v) /\ disk[row[v].image] # None
    => disk[row[v].image] = source[v]

(* As long as nothing has failed, a version reported ready whose build is  *)
(* over runs its current definition, however edits, executions, builds and *)
(* cleanups interleave.                                                    *)
SettledReadyIsCurrent ==
    ~faulted => \A v \in Versions : ~Building(v) => RunsCurrent(v)

(* A pending version does not stay pending.                                *)
RequestSettles ==
    <>[]Up => \A v \in Versions : v \in pending ~> v \notin pending
=============================================================================
