---------------------------- MODULE Persistence ----------------------------
(***************************************************************************)
(* One row of Core's "instances" table and the statements that change it.  *)
(* Every operator below is one SQL statement of runtara-core's shared      *)
(* persistence layer: an operator takes the row as the statement finds it  *)
(* and returns the row as the statement leaves it.  The modules of the     *)
(* environment use these operators, one per step, so that the unit of      *)
(* interleaving is a database statement.                                   *)
(*                                                                         *)
(* Columns nothing below tells apart (input, output, error, stderr,        *)
(* exit_code, checkpoint_id, tenant) are left out.  Times are abstracted   *)
(* to the comparisons the code makes: sleep_until against NOW ("later",    *)
(* "due"), started_at against the heartbeat cutoff (startedOld).           *)
(***************************************************************************)
EXTENDS Integers

(* Instance statuses; "absent" stands for "no row".                        *)
Statuses == {"absent", "pending", "running", "suspended",
             "completed", "failed", "cancelled"}

(* The statuses for which complete_instance stamps finished_at, and which  *)
(* every "is it over?" test of the environment looks for.                  *)
SettledStatuses == {"completed", "failed", "cancelled", "suspended"}

(* Values of termination_reason; "none" is SQL NULL.                       *)
Reasons == {"none", "sleeping", "waiting_signal", "shutdown_requested",
            "environment_restart", "crashed", "timeout", "heartbeat_timeout"}

(* sleep_until: NULL, in the future, or due.                               *)
Sleeps == {"none", "later", "due"}

NoMarker == -1

AbsentRow == [status |-> "absent", term |-> "none", sleep |-> "none",
              finished |-> FALSE, startedOld |-> FALSE,
              attempts |-> 0, marker |-> NoMarker]

(* INSERT ... status = 'pending'.  The primary key makes it fail when the  *)
(* row exists: the callers test that.                                      *)
RegisterInstance == [AbsentRow EXCEPT !.status = "pending"]

(* UPDATE status with started_at supplied: the row (re)enters running, so  *)
(* finished_at and termination_reason are cleared.                         *)
UpdateStatusStarted(r, s) ==
    [r EXCEPT !.status = s, !.finished = FALSE, !.term = "none",
              !.startedOld = FALSE]

(* UPDATE status without started_at: nothing else changes.                 *)
UpdateStatus(r, s) == [r EXCEPT !.status = s]

(* complete_instance without a guard.  COALESCE keeps the old reason when  *)
(* the call passes none.                                                   *)
Complete(r, s, why) ==
    [r EXCEPT !.status = s,
              !.term = IF why = "none" THEN @ ELSE why,
              !.finished = @ \/ s \in SettledStatuses]

(* The guard AND status = 'running'; Applies is the call's Ok(true).       *)
Applies(r) == r.status = "running"

(* A slip the checks are tried against: the guard left out.                *)
CompleteUnguarded(r, s, why) == Complete(r, s, why)

CompleteIfRunning(r, s, why) == IF Applies(r) THEN Complete(r, s, why) ELSE r

(* mark_for_recovery: its WHERE clause names the row and nothing else.     *)
MarkForRecovery(r, attempt, mark) ==
    [r EXCEPT !.status = "suspended", !.term = "environment_restart",
              !.sleep = "due", !.attempts = attempt, !.marker = mark]

SetInstanceSleep(r, when) == [r EXCEPT !.sleep = when]

ClearInstanceSleep(r) == [r EXCEPT !.sleep = "none"]

(* The WHERE clause of claim_sleeping_instance, and what the claim does.   *)
CanClaim(r) == r.sleep # "none" /\ r.status = "suspended"

(* A slip: the claim leaves sleep_until as it is.                          *)
ClaimKeepsWake(r) == r

Claim(r) == [r EXCEPT !.sleep = "none"]

(* The WHERE clause of get_sleeping_instances_due.                         *)
DueForWake(r) == r.sleep = "due" /\ r.status = "suspended"
=============================================================================
