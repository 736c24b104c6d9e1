------------------------ MODULE CompilationClients -------------------------
(***************************************************************************)
(* Who asks for compilations: executions (execute_detached_inner), edits   *)
(* of a stored graph, compile requests.                                    *)
(***************************************************************************)
EXTENDS CompilationState

Begins(c, command, v, l) ==
    /\ Up /\ command \in Commands
    /\ client[c].pc = "idle"
    /\ client' = [client EXCEPT ![c].pc = l, ![c].v = v]

Moves(c, from, to) ==
    /\ Up /\ client[c].pc = from
    /\ client' = [client EXCEPT ![c] = IF to = "idle" THEN Idle
                                       ELSE [@ EXCEPT !.pc = to]]

Quiet == UNCHANGED <<job, cleaner, faulted>>

(***************************************************************************)
(* An execution: ensure_compiled, then get_registered_image_id, then       *)
(* start_instance                                                          *)
(***************************************************************************)
RunCheck(c, v) ==
    /\ Begins(c, "run", v, IF Fresh(v) THEN "run.image"
                           ELSE IF StaleFailure(v) THEN "run.delete"
                           ELSE "run.pending")
    /\ ~Terminal(v)
    /\ Quiet /\ UNCHANGED <<database, environment, valkey>>

RunDeleteFailure(c) ==
    /\ Moves(c, "run.delete", "run.pending")
    /\ Invalidate(client[c].v)
    /\ Quiet /\ UNCHANGED <<source, environment, valkey>>

RunPending(c) ==
    /\ Moves(c, "run.pending",
             IF client[c].v \in pending THEN "idle" ELSE "run.enqueue")
    /\ Quiet /\ UNCHANGED <<database, environment, valkey>>

RunEnqueue(c) ==
    /\ Moves(c, "run.enqueue", "idle")
    /\ Enqueue(client[c].v, FALSE)
    /\ Quiet /\ UNCHANGED <<database, environment>>

RunImage(c) ==
    /\ Up /\ client[c].pc = "run.image"
    /\ LET v == client[c].v IN
       client' = [client EXCEPT
                    ![c] = IF Fresh(v) THEN [pc |-> "run.start", v |-> v,
                                             image |-> row[v].image]
                                       ELSE Idle]
    /\ Quiet /\ UNCHANGED <<database, environment, valkey>>

(* The Environment finds the images row and the file, or neither starts    *)
(* nor records anything.                                                   *)
Startable(id) == disk[id] # None /\ \E v \in Versions : image[v].id = id

RunStart(c) ==
    /\ Moves(c, "run.start",
             IF Startable(client[c].image) THEN "idle" ELSE "run.forget")
    /\ Quiet /\ UNCHANGED <<database, environment, valkey>>

(* ImageNotFound: forget the row and force a build.                        *)
RunForget(c) ==
    /\ Moves(c, "run.forget", "run.force")
    /\ Invalidate(client[c].v)
    /\ Quiet /\ UNCHANGED <<source, environment, valkey>>

RunForce(c) ==
    /\ Moves(c, "run.force", "idle")
    /\ Enqueue(client[c].v, TRUE)
    /\ Quiet /\ UNCHANGED <<database, environment>>

(***************************************************************************)
(* update_version_graph: UPDATE, then DELETE of the compilation row        *)
(***************************************************************************)
UpdateVersion(c, v) ==
    /\ Begins(c, "edit", v, "edit.invalidate")
    /\ \E d \in Definitions : source' = [source EXCEPT ![v] = d]
    /\ Quiet /\ UNCHANGED <<row, environment, valkey>>

EditInvalidate(c) ==
    /\ Moves(c, "edit.invalidate", "idle")
    /\ Invalidate(client[c].v)
    /\ Quiet /\ UNCHANGED <<source, environment, valkey>>

(***************************************************************************)
(* The compile request: enqueue; with force, DELETE the row first          *)
(***************************************************************************)
CompilePlain(c, v) ==
    /\ Up /\ "compile" \in Commands /\ client[c].pc = "idle"
    /\ Enqueue(v, FALSE)
    /\ Quiet /\ UNCHANGED <<database, environment, client>>

CompileInvalidate(c, v) ==
    /\ Begins(c, "force", v, "run.force")
    /\ Invalidate(v)
    /\ Quiet /\ UNCHANGED <<source, environment, valkey>>

ClientStep(c) ==
    \/ \E v \in Versions :
         \/ RunCheck(c, v) \/ UpdateVersion(c, v)
         \/ CompilePlain(c, v) \/ CompileInvalidate(c, v)
    \/ RunDeleteFailure(c) \/ RunPending(c) \/ RunEnqueue(c) \/ RunImage(c)
    \/ RunStart(c) \/ RunForget(c) \/ RunForce(c) \/ EditInvalidate(c)
=============================================================================
