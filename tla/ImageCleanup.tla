---------------------------- MODULE ImageCleanup ----------------------------
(***************************************************************************)
(* The Environment's image cleanup worker: first the directories without   *)
(* an images row, then the images nobody has used for days.                *)
(***************************************************************************)
EXTENDS CompilationState

CleanerAt(l) == Up /\ cleaner.pc = l

Still == UNCHANGED <<database, valkey, job, client, faulted>>

(* cleanup_orphaned_directories: read_dir, SELECT, remove_dir_all each.    *)
ListDirectories ==
    /\ "cleanup" \in Hazards /\ CleanerAt("idle")
    /\ cleaner' = Cleaning("orphans.query", {i \in Images : disk[i] # None})
    /\ Still /\ UNCHANGED environment

QueryImages ==
    /\ CleanerAt("orphans.query")
    /\ cleaner' = Cleaning("orphans.remove",
                           {i \in cleaner.ids :
                              \A v \in Versions : image[v].id # i})
    /\ Still /\ UNCHANGED environment

RemoveOrphan ==
    /\ CleanerAt("orphans.remove")
    /\ \E i \in cleaner.ids :
         /\ disk' = [disk EXCEPT ![i] = None]
         /\ cleaner' = [cleaner EXCEPT !.ids = @ \ {i}]
    /\ Still /\ UNCHANGED image

(* cleanup_stale_images: an image is stale when neither a registration nor *)
(* an instance has touched it for max_age (three days), which no task of   *)
(* the server spends between two statements.                               *)
Unused(v) ==
    /\ image[v].id # None
    /\ job.v # v
    /\ \A c \in Clients : client[c].v # v

SelectStale ==
    /\ CleanerAt("orphans.remove") /\ cleaner.ids = {}
    /\ \E ids \in SUBSET {image[v].id : v \in {w \in Versions : Unused(w)}} :
         cleaner' = Cleaning("stale.delete", ids)
    /\ Still /\ UNCHANGED environment

DeleteStaleRow ==
    /\ CleanerAt("stale.delete")
    /\ \E i \in cleaner.ids :
         /\ image' = [v \in Versions |->
                        IF image[v].id = i THEN NoImage ELSE image[v]]
         /\ cleaner' = [pc |-> "stale.remove", ids |-> cleaner.ids \ {i},
                        at |-> i]
    /\ Still /\ UNCHANGED disk

RemoveStaleDirectory ==
    /\ CleanerAt("stale.remove")
    /\ disk' = [disk EXCEPT ![cleaner.at] = None]
    /\ cleaner' = [cleaner EXCEPT !.pc = "stale.delete", !.at = None]
    /\ Still /\ UNCHANGED image

CleanupDone ==
    /\ CleanerAt("stale.delete") /\ cleaner.ids = {}
    /\ cleaner' = Resting
    /\ Still /\ UNCHANGED environment

CleanerStep ==
    \/ ListDirectories \/ QueryImages \/ RemoveOrphan \/ SelectStale
    \/ DeleteStaleRow \/ RemoveStaleDirectory \/ CleanupDone
=============================================================================
