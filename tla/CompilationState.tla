-------------------------- MODULE CompilationState --------------------------
(***************************************************************************)
(* What the compilation of workflow versions works on: definitions and     *)
(* compilation rows in the server's database, the queue in Valkey, image   *)
(* rows and artifact files in the Environment, and the local state of the  *)
(* tasks of the server process.                                            *)
(***************************************************************************)
EXTENDS Integers, Sequences, FiniteSets

CONSTANTS
    Versions,     \* workflow versions (tenant:workflow:version)
    Definitions,  \* execution graphs, identified with their checksums
    Broken,       \* the definitions that do not compile
    Images,       \* image ids (uuids); an id nobody refers to counts as fresh
    Clients,      \* tasks that serve API requests and trigger events
    Commands,     \* what clients may do
    Hazards       \* what may go wrong: "crash", "transient", "cleanup"

None == "none"

ASSUME CompilationAssumption ==
    /\ Broken \subseteq Definitions
    /\ None \notin Definitions \cup Images \cup Versions

VARIABLES
    source,    \* workflow_definitions: the definition stored for a version
    row,       \* workflow_compilations
    image,     \* the Environment's images row named workflow:version
    disk,      \* the artifact file in the directory of an image id
    queue,     \* LIST runtara:compilation:queue
    pending,   \* SET runtara:compilation:pending
    requests,  \* HASH runtara:compilation:requests
    job,       \* the compilation worker
    client,    \* per client: location, version, image id at hand
    cleaner,   \* the image cleanup worker: location, ids at hand
    faulted    \* history: a crash or a transient fault has happened

database == <<source, row>>
environment == <<image, disk>>
valkey == <<queue, pending, requests>>
vars == <<database, environment, valkey, job, client, cleaner, faulted>>

(***************************************************************************)
(* workflow_compilations, one operator per statement.  The status of an    *)
(* absent row is "absent".                                                 *)
(***************************************************************************)
NoRow == [status |-> "absent", sum |-> None, image |-> None]

(* The upsert leaves registered_image_id as it is.                         *)
RecordCompilationSuccess(r, sum) ==
    [r EXCEPT !.status = "success", !.sum = sum]

RecordRegisteredImageId(id, sum) ==
    [status |-> "success", sum |-> sum, image |-> id]

RecordCompilationFailure(r, sum) ==
    [r EXCEPT !.status = "failed", !.sum = sum]

(* Mutant: a row that is not complete yet counts as fresh.                 *)
FreshWithoutImage(v) == row[v].status = "success" /\ row[v].sum = source[v]

(* Mutant: the checksums are not compared.                                 *)
FreshWhateverSource(v) == row[v].status = "success" /\ row[v].image # None

(* get_fresh_registered_image_id finds an image; so does                   *)
(* ensure_compilation_ready, which then reports Ready.                     *)
Fresh(v) ==
    /\ row[v].status = "success"
    /\ row[v].image # None
    /\ row[v].sum = source[v]

(* The failure will recur: it was recorded for the definition still stored *)
Terminal(v) == row[v].status = "failed" /\ row[v].sum = source[v]

StaleFailure(v) == row[v].status = "failed" /\ row[v].sum # source[v]

Invalidate(v) == row' = [row EXCEPT ![v] = NoRow]

(***************************************************************************)
(* The queue.  Enqueue is one Lua script.                                  *)
(***************************************************************************)
Enqueue(v, force) ==
    /\ IF v \in pending
         THEN /\ requests' = IF force THEN [requests EXCEPT ![v] = "force"]
                                      ELSE requests
              /\ UNCHANGED <<queue, pending>>
         ELSE /\ pending' = pending \cup {v}
              /\ requests' = [requests EXCEPT
                                ![v] = IF force THEN "force" ELSE "plain"]
              /\ queue' = Append(queue, v)

(***************************************************************************)
(* Initial state: a server that has just started, nothing compiled.        *)
(***************************************************************************)
Idle == [pc |-> "idle", v |-> None, image |-> None]

NoImage == [id |-> None, meta |-> None]

Cleaning(l, ids) == [pc |-> l, ids |-> ids, at |-> None]

Resting == Cleaning("idle", {})

JobAt(l, v) == [pc |-> l, v |-> v, force |-> FALSE, def |-> None,
                image |-> None, orphans |-> {}]

Booting == JobAt("boot.pending", None)

Init ==
    /\ source \in [Versions -> Definitions]
    /\ row = [v \in Versions |-> NoRow]
    /\ image = [v \in Versions |-> NoImage]
    /\ disk = [i \in Images |-> None]
    /\ queue = <<>> /\ pending = {}
    /\ requests = [v \in Versions |-> None]
    /\ job = Booting
    /\ client = [c \in Clients |-> Idle]
    /\ cleaner = Resting
    /\ faulted = FALSE

Up == job.pc # "down"
=============================================================================
