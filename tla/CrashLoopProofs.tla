-------------------------- MODULE CrashLoopProofs --------------------------
(***************************************************************************)
(* The bound on automatic restarts, for every RUNTARA_MAX_AUTO_RESTARTS    *)
(* and whatever else goes on in the environment.                           *)
(*                                                                         *)
(* The code remembers recovery_attempts and recovery_marker; the theorem   *)
(* speaks of the restarts since the last checkpoint (streak). LoopInv      *)
(* relates the two: while the marker equals the number of rows in the      *)
(* checkpoints table, the attempts count the streak; while it lags behind, *)
(* the instance has made progress and the streak is new. The orphan scan   *)
(* may use a count that is already out of date, which costs one restart    *)
(* (Slack). A retry attempt is a row without progress: where steps are     *)
(* retried only the lower bound is left, that is, no instance is given up  *)
(* too early, but one may be restarted for ever.                           *)
(***************************************************************************)
EXTENDS CrashLoop, LifecycleProofs

(* The restart a stale count may cost.                                     *)
Slack == IF "elapse" \in Hazards THEN 1 ELSE 0

(* Where no heartbeat period passes, the heartbeat monitor has nothing to  *)
(* do.                                                                     *)
Quiet ==
    /\ ~row.startedOld /\ ~entryOld /\ lastEvent # "old"
    /\ pc["heartbeat"] = "idle"

(* While the process is not up, no scan is under way.                      *)
AtRest == phase # "up" => pc["heartbeat"] = "idle"

(* Every row of the checkpoints table stands for progress.                 *)
RowsAreProgress == "retry" \notin Hazards

(* The inductive invariant: what the counters say about the streak.        *)
LoopInv ==
    /\ streak \in Nat
    /\ row.status = "absent" => row.attempts = 0 /\ row.marker = NoMarker
    /\ row.marker = NoMarker => streak = 0
    /\ row.marker <= ckpts
    /\ RowsAreProgress /\ row.marker # NoMarker /\ row.marker < ckpts =>
         streak <= Slack
    /\ row.marker = ckpts => row.attempts <= streak
    /\ RowsAreProgress /\ row.marker = ckpts =>
         streak <= row.attempts + Slack
    /\ pc["heartbeat"] = "hb.recover" =>
         /\ row.marker <= counted /\ counted <= ckpts
         /\ RowsAreProgress /\ counted < ckpts => streak = 0
    /\ "elapse" \notin Hazards => Quiet
    /\ AtRest

(* q differs from r neither in the recovery counters nor in being absent.  *)
SameCounters(q, r) ==
    /\ q.attempts = r.attempts /\ q.marker = r.marker
    /\ q.status = "absent" => r.status = "absent"

(* A step that neither recovers, nor counts, nor saves a checkpoint.       *)
Calm ==
    /\ SameCounters(row', row)
    /\ ckpts' = ckpts
    /\ pc["heartbeat"]' = "hb.recover" =>
         pc["heartbeat"] = "hb.recover" /\ counted' = counted
    /\ "elapse" \notin Hazards /\ Quiet => Quiet'
    /\ AtRest => AtRest'

(* No statement but mark_for_recovery and the insert touches the recovery  *)
(* counters, and none but the insert leaves "absent".                      *)
LEMMA RowOperatorsAreCalm ==
    ASSUME NEW r \in Rows, NEW s \in Statuses \ {"absent"},
           NEW why \in Reasons, NEW when \in Sleeps, NEW q,
           \/ q = UpdateStatus(r, s)
           \/ q = UpdateStatusStarted(r, s)
           \/ q = Complete(r, s, why)
           \/ q = CompleteIfRunning(r, s, why)
           \/ q = SetInstanceSleep(r, when)
           \/ q = ClearInstanceSleep(r)
           \/ q = Claim(r)
    PROVE  SameCounters(q, r) /\ (q.startedOld => r.startedOld)
BY DEF Rows, SameCounters, UpdateStatus, UpdateStatusStarted, Complete,
       CompleteIfRunning, SetInstanceSleep, ClearInstanceSleep, Claim

(* The actors are distinct from the heartbeat monitor.                     *)
LEMMA NotHeartbeat ==
    /\ \A c \in Clients : c # "heartbeat"
    /\ "waker" # "heartbeat" /\ "drainer" # "heartbeat"
    /\ "heartbeat" \in Actors
BY ConstantsAssumption DEF Actors

(* A management request leaves the counters and the checkpoints alone (the *)
(* insert of start is treated apart).                                      *)
LEMMA ClientIsCalm ==
    ASSUME TypeOK, NEW c \in Clients, ClientStep(c), ~StartInsert(c)
    PROVE  Calm
<1> USE DEF Calm, Quiet, AtRest, SameCounters, TypeOK, db, mail, progress,
           entry, env, runner, Actors, Launchers, At, Idle, Goto
<1>1. CASE StartCheck(c)
  BY <1>1, NotHeartbeat DEF StartCheck
<1>2. CASE StartLaunch(c)
  BY <1>2, NotHeartbeat DEF StartLaunch, LaunchDetached
<1>3. CASE StartLaunchFails(c)
  BY <1>3, NotHeartbeat, RowOperatorsAreCalm
     DEF StartLaunchFails, Statuses, Reasons, Sleeps
<1>4. CASE StartRegister(c)
  BY <1>4, NotHeartbeat DEF StartRegister, RegisterContainer
<1>5. CASE StartRunning(c)
  BY <1>5, NotHeartbeat, RowOperatorsAreCalm
     DEF StartRunning, Statuses, Reasons, Sleeps
<1>6. CASE ResumeCheck(c)
  BY <1>6, NotHeartbeat DEF ResumeCheck
<1>7. CASE ResumeCleanup(c)
  BY <1>7, NotHeartbeat DEF ResumeCleanup, CleanupContainer
<1>8. CASE ResumeRunning(c)
  BY <1>8, NotHeartbeat, RowOperatorsAreCalm
     DEF ResumeRunning, Statuses, Reasons, Sleeps
<1>9. CASE ResumeClear(c)
  BY <1>9, NotHeartbeat, RowOperatorsAreCalm
     DEF ResumeClear, Statuses, Reasons, Sleeps
<1>10. CASE ResumeLaunch(c)
  BY <1>10, NotHeartbeat DEF ResumeLaunch, LaunchDetached
<1>11. CASE ResumeLaunchFails(c)
  BY <1>11, NotHeartbeat DEF ResumeLaunchFails
<1>12. CASE ResumeRegister(c)
  BY <1>12, NotHeartbeat DEF ResumeRegister, RegisterContainer
<1>13. CASE StopCheck(c)
  BY <1>13, NotHeartbeat DEF StopCheck
<1>14. CASE StopKill(c)
  BY <1>14, NotHeartbeat DEF StopKill
<1>15. CASE StopComplete(c)
  BY <1>15, NotHeartbeat, RowOperatorsAreCalm
     DEF StopComplete, Statuses, Reasons, Sleeps
<1>16. CASE StopCleanup(c)
  BY <1>16, NotHeartbeat DEF StopCleanup, CleanupContainer
<1>17. CASE \E s \in LifecycleSignals : SendCheck(c, s)
  BY <1>17, NotHeartbeat DEF SendCheck
<1>18. CASE \E s \in LifecycleSignals : SendInsert(c, s)
  BY <1>18, NotHeartbeat DEF SendInsert
<1>19. CASE CustomInsert(c)
  BY <1>19, NotHeartbeat DEF CustomInsert
<1>20. CASE CustomWakeCheck(c)
  BY <1>20, NotHeartbeat DEF CustomWakeCheck
<1>21. CASE CustomStamp(c)
  BY <1>21, NotHeartbeat, RowOperatorsAreCalm
     DEF CustomStamp, Statuses, Reasons, Sleeps
<1> QED BY <1>1, <1>2, <1>3, <1>4, <1>5, <1>6, <1>7, <1>8, <1>9, <1>10,
     <1>11, <1>12, <1>13, <1>14, <1>15, <1>16, <1>17, <1>18, <1>19, <1>20,
     <1>21
   DEF ClientStep

(* A guest leaves both alone unless it adds a row to the checkpoints.      *)
LEMMA GuestIsCalm ==
    ASSUME TypeOK, NEW r \in Slots, GuestStep(r), ~GuestSave(r),
           ~GuestRetry(r)
    PROVE  Calm
<1> USE DEF Calm, Quiet, AtRest, SameCounters, TypeOK, db, mail, progress,
           entry, env, runner, GuestAt, GuestGoto
<1>1. CASE GuestStart(r)
  BY <1>1, RowOperatorsAreCalm DEF GuestStart, Statuses, Reasons, Sleeps
<1>2. CASE GuestDies(r)
  BY <1>2 DEF GuestDies
<1>3. CASE GuestHeartbeat(r)
  BY <1>3 DEF GuestHeartbeat, InsertEvent
<1>4. CASE GuestPoll(r)
  BY <1>4 DEF GuestPoll
<1>5. CASE GuestReadsSignal(r)
  BY <1>5 DEF GuestReadsSignal
<1>6. CASE GuestBreakpoint(r)
  BY <1>6 DEF GuestBreakpoint
<1>7. CASE GuestAck(r)
  BY <1>7 DEF GuestAck
<1>8. CASE GuestApplyCancel(r)
  BY <1>8, RowOperatorsAreCalm DEF GuestApplyCancel, Statuses, Reasons, Sleeps
<1>9. CASE GuestApplyPause(r)
  BY <1>9, RowOperatorsAreCalm DEF GuestApplyPause, Statuses, Reasons, Sleeps
<1>10. CASE GuestApplyShutdown(r)
  BY <1>10, RowOperatorsAreCalm
     DEF GuestApplyShutdown, Statuses, Reasons, Sleeps
<1>11. CASE GuestShutdownSleep(r)
  BY <1>11, RowOperatorsAreCalm
     DEF GuestShutdownSleep, Statuses, Reasons, Sleeps
<1>12. CASE GuestSuspendedEvent(r)
  BY <1>12, RowOperatorsAreCalm
     DEF GuestSuspendedEvent, Statuses, Reasons, Sleeps, InsertEvent
<1>13. CASE \E s \in {"completed", "failed"} : GuestReports(r, s)
  BY <1>13, RowOperatorsAreCalm
     DEF Statuses, Reasons, Sleeps, GuestReports, InsertEvent
<1>14. CASE GuestSuspends(r)
  BY <1>14 DEF GuestSuspends
<1>15. CASE GuestPark(r)
  BY <1>15, RowOperatorsAreCalm
     DEF GuestPark, Statuses, Reasons, Sleeps, ParkMarker
<1>16. CASE GuestParkSleep(r)
  BY <1>16, RowOperatorsAreCalm DEF GuestParkSleep, Statuses, Reasons, Sleeps
<1>17. CASE GuestExit(r)
  BY <1>17 DEF GuestExit
<1>18. CASE GuestCheckpoint(r) \/ GuestDurableSleep(r)
  BY <1>18 DEF GuestCheckpoint, GuestDurableSleep
<1> QED BY <1>1, <1>2, <1>3, <1>4, <1>5, <1>6, <1>7, <1>8, <1>9, <1>10,
     <1>11, <1>12, <1>13, <1>14, <1>15, <1>16, <1>17, <1>18
   DEF GuestStep, GuestChooses, HostWorks

(* A container monitor leaves both alone.                                  *)
LEMMA MonitorIsCalm ==
    ASSUME TypeOK, NEW r \in Slots, MonitorStep(r)
    PROVE  Calm
<1> USE DEF Calm, Quiet, AtRest, SameCounters, TypeOK, db, mail, progress,
           entry, env, runner, MonAt, MonGoto
<1>1. CASE MonitorExit(r)
  BY <1>1 DEF MonitorExit
<1>2. CASE MonitorCheck(r)
  BY <1>2 DEF MonitorCheck
<1>3. CASE MonitorWrite(r)
  BY <1>3, RowOperatorsAreCalm DEF MonitorWrite, Statuses, Reasons, Sleeps
<1>4. CASE MonitorSleep(r)
  BY <1>4, RowOperatorsAreCalm DEF MonitorSleep, Statuses, Reasons, Sleeps
<1>5. CASE MonitorTimeout(r)
  BY <1>5 DEF MonitorTimeout
<1>6. CASE MonitorExpire(r)
  BY <1>6, RowOperatorsAreCalm DEF MonitorExpire, Statuses, Reasons, Sleeps
<1>7. CASE MonitorCleanup(r)
  BY <1>7 DEF MonitorCleanup, CleanupContainer
<1> QED BY <1>1, <1>2, <1>3, <1>4, <1>5, <1>6, <1>7
   DEF MonitorStep

(* The wake scheduler leaves both alone.                                   *)
LEMMA WakerIsCalm ==
    ASSUME TypeOK, WakerStep
    PROVE  Calm
<1> USE DEF Calm, Quiet, AtRest, SameCounters, TypeOK, db, mail, progress,
           entry, env, runner, Actors, Launchers, At, Idle, Goto
<1>1. CASE WakeScan
  BY <1>1, NotHeartbeat DEF WakeScan
<1>2. CASE WakeClaim
  BY <1>2, NotHeartbeat, RowOperatorsAreCalm
     DEF WakeClaim, Statuses, Reasons, Sleeps
<1>3. CASE WakeLaunch
  BY <1>3, NotHeartbeat DEF WakeLaunch, LaunchDetached
<1>4. CASE WakeLaunchFails
  BY <1>4, NotHeartbeat DEF WakeLaunchFails
<1>5. CASE WakeRestore
  BY <1>5, NotHeartbeat, RowOperatorsAreCalm
     DEF WakeRestore, Statuses, Reasons, Sleeps
<1>6. CASE WakeRegister
  BY <1>6, NotHeartbeat DEF WakeRegister, RegisterContainer
<1> QED BY <1>1, <1>2, <1>3, <1>4, <1>5, <1>6
   DEF WakerStep

(* The heartbeat monitor leaves both alone up to the point where it        *)
(* recovers an orphan.                                                     *)
LEMMA HeartbeatIsCalm ==
    ASSUME TypeOK,
           HeartbeatStep, ~HeartbeatCount, ~HeartbeatRecover
    PROVE  Calm
<1> USE DEF Calm, Quiet, AtRest, SameCounters, TypeOK, db, mail, progress,
           entry, env, runner, Actors, Launchers, At, Idle, Goto
<1>1. CASE HeartbeatScan
  BY <1>1, NotHeartbeat DEF HeartbeatScan, StaleContainer
<1>2. CASE HeartbeatList
  BY <1>2, NotHeartbeat DEF HeartbeatList, RunsSinceBeforeCutoff
<1>3. CASE HeartbeatTracked
  BY <1>3, NotHeartbeat DEF HeartbeatTracked
<1>4. CASE HeartbeatStop
  BY <1>4, NotHeartbeat DEF HeartbeatStop
<1>5. CASE HeartbeatFail
  BY <1>5, NotHeartbeat, RowOperatorsAreCalm
     DEF HeartbeatFail, Statuses, Reasons, Sleeps
<1>6. CASE HeartbeatCleanup
  BY <1>6, NotHeartbeat DEF HeartbeatCleanup, CleanupContainer
<1> QED BY <1>1, <1>2, <1>3, <1>4, <1>5, <1>6
   DEF HeartbeatStep

(* The drain leaves both alone.                                            *)
LEMMA DrainIsCalm ==
    ASSUME TypeOK, DrainStep
    PROVE  Calm
<1> USE DEF Calm, Quiet, AtRest, SameCounters, TypeOK, db, mail, progress,
           entry, env, runner, Actors, Launchers, At, Idle, Goto
<1>1. CASE DrainSet
  BY <1>1, NotHeartbeat DEF DrainSet
<1>2. CASE DrainList
  BY <1>2, NotHeartbeat DEF DrainList
<1>3. CASE DrainSignal
  BY <1>3, NotHeartbeat DEF DrainSignal
<1>4. CASE DrainWait
  BY <1>4, NotHeartbeat DEF DrainWait
<1>5. CASE DrainStop
  BY <1>5, NotHeartbeat DEF DrainStop
<1>6. CASE DrainSuspend
  BY <1>6, NotHeartbeat, RowOperatorsAreCalm
     DEF DrainSuspend, Statuses, Reasons, Sleeps
<1>7. CASE DrainSleep
  BY <1>7, NotHeartbeat, RowOperatorsAreCalm
     DEF DrainSleep, Statuses, Reasons, Sleeps
<1>8. CASE DrainedExit
  BY <1>8, NotHeartbeat DEF DrainedExit, LoseProcess
<1> QED BY <1>1, <1>2, <1>3, <1>4, <1>5, <1>6, <1>7, <1>8
   DEF DrainStep

(* So do a crash, a restart, the cleanup at boot and the passing of time.  *)
LEMMA RestIsCalm ==
    ASSUME TypeOK,
           \/ Crash \/ Restart \/ BootCleanup
           \/ DeadlinePasses \/ HeartbeatElapses
    PROVE  Calm
<1> USE DEF Calm, Quiet, AtRest, SameCounters, TypeOK, db, mail, progress,
           entry, env, runner, Actors, Launchers
<1>1. CASE Crash
  BY <1>1, NotHeartbeat DEF Crash, LoseProcess
<1>2. CASE Restart
  BY <1>2, NotHeartbeat DEF Restart
<1>3. CASE BootCleanup
  BY <1>3, NotHeartbeat DEF BootCleanup, CleanupContainer
<1>4. CASE DeadlinePasses
  BY <1>4, NotHeartbeat, RowOperatorsAreCalm
     DEF DeadlinePasses, Statuses, Reasons, Sleeps
<1>5. CASE HeartbeatElapses
  BY <1>5, NotHeartbeat DEF HeartbeatElapses, Rows
<1> QED BY <1>1, <1>2, <1>3, <1>4, <1>5
   DEF TypeOK

(* A step that leaves both alone keeps the invariant.                      *)
LEMMA CalmKeepsLoopInv ==
    ASSUME TypeOK, LoopInv, Calm, CountRestarts
    PROVE  LoopInv'
<1>1. streak' = streak
  BY DEF CountRestarts, Saved, Restarted, Calm, SameCounters
<1> QED BY <1>1 DEF LoopInv, Calm, SameCounters, TypeOK, Rows, Slack

(* op_register_instance inserts a row without a recovery history.          *)
LEMMA StartKeepsLoopInv ==
    ASSUME TypeOK, LoopInv, NEW c \in Clients, StartInsert(c), CountRestarts
    PROVE  LoopInv'
<1>1. CASE row.status # "absent"
  <2>1. Calm
    BY <1>1, NotHeartbeat
       DEF StartInsert, Calm, Quiet, AtRest, SameCounters, Goto, At, TypeOK,
           mail, progress, entry, env
  <2> QED BY <2>1, CalmKeepsLoopInv
<1>2. CASE row.status = "absent"
  <2>1. row' = RegisterInstance /\ ckpts' = ckpts
    BY <1>2 DEF StartInsert, progress
  <2>2. SameCounters(row', row) /\ ~row'.startedOld
    BY <1>2, <2>1 DEF SameCounters, RegisterInstance, AbsentRow, LoopInv
  <2>3. Calm
    BY <2>1, <2>2, NotHeartbeat
       DEF StartInsert, Calm, Quiet, AtRest, Goto, At, TypeOK, mail, progress,
           entry, env
  <2> QED BY <2>3, CalmKeepsLoopInv
<1> QED BY <1>1, <1>2

(* What one more row in the checkpoints table leaves of the invariant: the *)
(* marker lags behind.                                                     *)
LEMMA AddedRow ==
    ASSUME TypeOK, LoopInv, ckpts' = ckpts + 1,
           UNCHANGED <<row, pc, phase, counted, entryOld, lastEvent>>,
           \/ streak' = 0
           \/ streak' = streak /\ ~RowsAreProgress
    PROVE  LoopInv'
<1>1. row.marker \in Int /\ ckpts \in Int /\ counted \in Int
  BY DEF TypeOK, Rows, NoMarker
<1>2. row.marker <= ckpts' /\ row.marker # ckpts'
  BY <1>1 DEF LoopInv
<1>3. pc["heartbeat"] = "hb.recover"
        => row.marker <= counted /\ counted <= ckpts'
  BY <1>1 DEF LoopInv
<1>4. streak' \in Nat /\ (row.marker = NoMarker => streak' = 0)
  BY DEF LoopInv
<1>5. RowsAreProgress => streak' = 0
  OBVIOUS
<1> QED BY <1>2, <1>3, <1>4, <1>5
        DEF LoopInv, Slack, Quiet, AtRest, RowsAreProgress

(* A new checkpoint begins a new streak.                                   *)
LEMMA SaveKeepsLoopInv ==
    ASSUME TypeOK, LoopInv, NEW r \in Slots, GuestSave(r), CountRestarts
    PROVE  LoopInv'
<1>1. UNCHANGED <<row, pc, phase, counted, entryOld, lastEvent>>
  BY DEF GuestSave, env, entry
<1>2. CASE ckpts' = ckpts
  BY <1>1, <1>2, CalmKeepsLoopInv DEF Calm, SameCounters, Quiet, AtRest
<1>3. CASE ckpts' = ckpts + 1
  <2>1. guest'[r] = "exec" /\ guest[r] = "save"
    BY DEF GuestSave, GuestAt, GuestGoto, TypeOK
  <2>2. streak' = 0
    BY <1>3, <2>1 DEF CountRestarts, Saved, TypeOK
  <2> QED BY <1>1, <1>3, <2>2, AddedRow
<1> QED BY <1>2, <1>3 DEF GuestSave

(* A retry attempt adds a row and leaves the streak as it is.              *)
LEMMA RetryKeepsLoopInv ==
    ASSUME TypeOK, LoopInv, NEW r \in Slots, GuestRetry(r), CountRestarts
    PROVE  LoopInv'
<1>1. ckpts' = ckpts + 1 /\ guest' = guest
      /\ UNCHANGED <<row, pc, phase, counted, entryOld, lastEvent>>
  BY DEF GuestRetry, env, entry, runner
<1>2. streak' = streak
  BY <1>1 DEF CountRestarts, Saved, Restarted
<1>3. ~RowsAreProgress
  BY DEF GuestRetry, RowsAreProgress
<1> QED BY <1>1, <1>2, <1>3, AddedRow

(* The orphan scan counts the checkpoints there are.                       *)
LEMMA CountKeepsLoopInv ==
    ASSUME TypeOK, LoopInv, HeartbeatCount, CountRestarts
    PROVE  LoopInv'
<1>4. phase = "up" /\ phase' = "up"
  BY DEF HeartbeatCount, At
<1>1. row' = row /\ ckpts' = ckpts /\ counted' = ckpts
      /\ entryOld' = entryOld /\ lastEvent' = lastEvent
  BY DEF HeartbeatCount, db, progress, entry
<1>2. streak' = streak
  BY <1>1 DEF CountRestarts, Saved, Restarted
<1>3. "elapse" \in Hazards
  BY DEF LoopInv, Quiet, HeartbeatCount, At
<1> QED BY <1>1, <1>2, <1>3, <1>4 DEF LoopInv, TypeOK, Rows, AtRest, NoMarker

(* recover_or_fail with a count n of the checkpoints that is current, or   *)
(* out of date after a checkpoint that began a new streak.                 *)
LEMMA MarkedRow ==
    ASSUME TypeOK, LoopInv, CountRestarts, NEW n \in 0 .. MaxCheckpoints,
           row.marker <= n, n <= ckpts,
           RowsAreProgress /\ n < ckpts => streak = 0,
           n < ckpts => "elapse" \in Hazards,
           row' = RecoverOrFail(row, n, MaxAutoRestarts, AutoRecover),
           ckpts' = ckpts, pc["heartbeat"]' = "idle",
           "elapse" \notin Hazards => Quiet'
    PROVE  LoopInv'
<1> DEFINE a == NextAttempt(row.attempts, row.marker, n)
<1>1. CASE Recovers(a, MaxAutoRestarts, AutoRecover)
  <2>1. row' = MarkForRecovery(row, a, n)
    BY <1>1 DEF RecoverOrFail
  <2>2. row'.attempts = a /\ row'.marker = n /\ row'.status = "suspended"
    BY <2>1 DEF MarkForRecovery, TypeOK, Rows
  <2>3. a = IF row.marker = NoMarker \/ n > row.marker
            THEN 1 ELSE row.attempts + 1
    BY DEF NextAttempt
  <2>4. <<row'.attempts, row'.marker>> # <<row.attempts, row.marker>>
    BY <2>2, <2>3 DEF TypeOK, Rows, NoMarker
  <2>5. streak' = streak + 1
    BY <2>4 DEF CountRestarts, Saved, Restarted
  <2> HIDE DEF a
  <2> QED BY <2>2, <2>3, <2>5
          DEF LoopInv, TypeOK, Rows, NoMarker, Slack, AtRest
<1>2. CASE ~Recovers(a, MaxAutoRestarts, AutoRecover)
  <2>1. row' = CompleteIfRunning(row, "failed", "environment_restart")
    BY <1>2 DEF RecoverOrFail
  <2>2. SameCounters(row', row)
    BY <2>1, RowOperatorsAreCalm DEF Statuses, Reasons, Sleeps, TypeOK
  <2>3. Calm
    BY <2>2 DEF Calm, AtRest
  <2> QED BY <2>3, CalmKeepsLoopInv
<1> QED BY <1>1, <1>2

(* The recovery of an orphan keeps the invariant.                          *)
LEMMA HeartbeatRecoverKeepsLoopInv ==
    ASSUME TypeOK, LoopInv, HeartbeatRecover, CountRestarts
    PROVE  LoopInv'
<1>1. "elapse" \in Hazards
  BY DEF LoopInv, Quiet, HeartbeatRecover, At
<1>2. row.marker <= counted /\ counted <= ckpts
      /\ (RowsAreProgress /\ counted < ckpts => streak = 0)
  BY DEF LoopInv, HeartbeatRecover, At
<1>3. ckpts' = ckpts /\ pc["heartbeat"]' = "idle"
  BY NotHeartbeat DEF HeartbeatRecover, progress, Goto, TypeOK
<1>4. row' = RecoverOrFail(row, counted, MaxAutoRestarts, AutoRecover)
  BY DEF HeartbeatRecover
<1> QED BY <1>1, <1>2, <1>3, <1>4, MarkedRow DEF TypeOK

(* The recovery at boot keeps the invariant; its count is current.         *)
LEMMA BootRecoverKeepsLoopInv ==
    ASSUME TypeOK, LoopInv, BootRecover, CountRestarts
    PROVE  LoopInv'
<1>1. ckpts' = ckpts /\ pc' = pc /\ entryOld' = entryOld
      /\ lastEvent' = lastEvent /\ pc["heartbeat"] = "idle"
  BY DEF BootRecover, progress, entry, LoopInv, AtRest
<1>2. CASE row.status \in SettledStatuses
  <2>1. row' = row
    BY <1>2 DEF BootRecover
  <2> QED BY <1>1, <2>1, CalmKeepsLoopInv
     DEF Calm, SameCounters, Quiet, AtRest
<1>3. CASE row.status \notin SettledStatuses
  <2>1. row' = RecoverOrFail(row, ckpts, MaxAutoRestarts, AutoRecover)
    BY <1>3 DEF BootRecover
  <2>2. row'.startedOld = row.startedOld
    BY <2>1 DEF RecoverOrFail, MarkForRecovery, CompleteIfRunning, Complete,
                TypeOK, Rows
  <2>3. "elapse" \notin Hazards => Quiet'
    BY <1>1, <2>2 DEF LoopInv, Quiet
  <2>4. ckpts \in 0 .. MaxCheckpoints /\ row.marker <= ckpts /\ ckpts <= ckpts
        /\ ~(ckpts < ckpts)
    BY DEF TypeOK, LoopInv
  <2>5. pc["heartbeat"]' = "idle"
    BY <1>1
  <2> QED BY <1>1, <2>1, <2>3, <2>4, <2>5, MarkedRow
<1> QED BY <1>2, <1>3

(* Every step of the counted specification keeps the invariant.            *)
LEMMA NextKeepsLoopInv == TypeOK /\ LoopInv /\ [LoopNext]_loopVars => LoopInv'
<1> SUFFICES ASSUME TypeOK, LoopInv, [LoopNext]_loopVars PROVE LoopInv'
  OBVIOUS
<1>1. CASE UNCHANGED loopVars
  BY <1>1 DEF loopVars, vars, db, progress, entry, env, LoopInv, Quiet, AtRest
<1>2. CASE LoopNext
  <2>1. CountRestarts
    BY <1>2 DEF LoopNext
  <2>2. ASSUME NEW c \in Clients, ClientStep(c) PROVE LoopInv'
    BY <2>1, <2>2, ClientIsCalm, CalmKeepsLoopInv, StartKeepsLoopInv
  <2>3. ASSUME NEW r \in Slots, GuestStep(r) PROVE LoopInv'
    BY <2>1, <2>3, GuestIsCalm, CalmKeepsLoopInv, SaveKeepsLoopInv,
       RetryKeepsLoopInv
  <2>4. CASE \E r \in Slots : MonitorStep(r)
    BY <2>1, <2>4, MonitorIsCalm, CalmKeepsLoopInv
  <2>5. CASE WakerStep
    BY <2>1, <2>5, WakerIsCalm, CalmKeepsLoopInv
  <2>6. CASE HeartbeatStep
    BY <2>1, <2>6, HeartbeatIsCalm, CalmKeepsLoopInv, CountKeepsLoopInv,
       HeartbeatRecoverKeepsLoopInv
  <2>7. CASE DrainStep
    BY <2>1, <2>7, DrainIsCalm, CalmKeepsLoopInv
  <2>8. CASE Crash \/ Restart \/ BootCleanup \/ DeadlinePasses
             \/ HeartbeatElapses
    BY <2>1, <2>8, RestIsCalm, CalmKeepsLoopInv
  <2>9. CASE BootRecover
    BY <2>1, <2>9, BootRecoverKeepsLoopInv
  <2> QED BY <1>2, <2>2, <2>3, <2>4, <2>5, <2>6, <2>7, <2>8, <2>9
          DEF LoopNext, Next, BootStep
<1> QED BY <1>1, <1>2

(* The history variable only watches: what holds of Lifecycle holds here.  *)
LEMMA LoopTypeCorrect == LoopSpec => []TypeOK
<1>1. LoopInit => TypeOK
  BY InitTypeOK DEF LoopInit
<1>2. TypeOK /\ [LoopNext]_loopVars => TypeOK'
  BY NextKeepsType DEF LoopNext, loopVars
<1> QED BY <1>1, <1>2, PTL DEF LoopSpec

(* The invariant holds throughout.                                         *)
LEMMA LoopInvHolds == LoopSpec => [](TypeOK /\ LoopInv)
<1>1. LoopInit => LoopInv
  BY NotHeartbeat
     DEF LoopInit, Init, LoopInv, AbsentRow, NoMarker, Slack, Quiet, AtRest
<1> QED BY <1>1, LoopTypeCorrect, NextKeepsLoopInv, PTL DEF LoopSpec

(* An instance that saves no checkpoint is restarted automatically at most *)
(* RUNTARA_MAX_AUTO_RESTARTS times in a row (once more if the orphan scan  *)
(* may count stale checkpoints), whatever the clients, the guests, the     *)
(* crashes and the scans do, as long as no step of it is retried:          *)
(* recover_or_fail has no other memory than recovery_attempts and          *)
(* recovery_marker, and retry attempts are rows of the checkpoints table.  *)
THEOREM CrashLoopsEnd ==
    ASSUME RowsAreProgress
    PROVE  LoopSpec => []RestartsBounded
<1>1. TypeOK /\ LoopInv => RestartsBounded
  <2> SUFFICES ASSUME TypeOK, LoopInv PROVE RestartsBounded
    OBVIOUS
  <2>1. streak <= MaxAutoRestarts + Slack
    BY RowsAreProgress, ConstantsAssumption
       DEF TypeOK, Rows, LoopInv, NoMarker, Slack
  <2> QED BY <2>1 DEF RestartsBounded, Slack
<1> QED BY <1>1, LoopInvHolds, PTL

(* The boot recovery gives a running instance up only after its allowance  *)
(* of automatic restarts in a row came to nothing.                         *)
THEOREM NoInstanceGivenUpEarly == LoopSpec => GivenUpAfterCap
<1>1. ASSUME TypeOK, LoopInv, LoopNext, phase = "boot", AutoRecover,
             row.status = "running", row'.status = "failed"
      PROVE  streak >= MaxAutoRestarts
  <2>1. BootRecover
    <3>1. CASE \E c \in Clients : ClientStep(c)
      BY <1>1, <3>1
         DEF ClientStep, StartCheck, StartInsert, StartLaunch,
             StartLaunchFails, StartRegister, StartRunning, ResumeCheck,
             ResumeCleanup, ResumeRunning, ResumeClear, ResumeLaunch,
             ResumeLaunchFails, ResumeRegister, StopCheck, StopKill,
             StopComplete, StopCleanup, SendCheck, SendInsert,
             CustomInsert, CustomWakeCheck, CustomStamp, Idle, At
    <3>2. CASE \E r \in Slots : GuestStep(r)
      BY <1>1, <3>2
         DEF GuestStep, GuestChooses, HostWorks, GuestStart, GuestDies,
             GuestHeartbeat, GuestPoll, GuestReadsSignal,
             GuestBreakpoint, GuestDurableSleep, GuestSave, GuestRetry,
             GuestAck, GuestApplyCancel, GuestApplyPause,
             GuestApplyShutdown, GuestShutdownSleep, GuestSuspendedEvent,
             GuestReports, GuestSuspends, GuestPark, GuestParkSleep,
             GuestExit, GuestCheckpoint, GuestAt
    <3>3. CASE \E r \in Slots : MonitorStep(r)
      BY <1>1, <3>3
         DEF MonitorStep, MonitorExit, MonitorCheck, MonitorWrite,
             MonitorSleep, MonitorTimeout, MonitorExpire, MonitorCleanup,
             MonAt
    <3>4. CASE WakerStep
      BY <1>1, <3>4
         DEF WakerStep, WakeScan, WakeClaim, WakeLaunch, WakeLaunchFails,
             WakeRestore, WakeRegister, Idle, At
    <3>5. CASE HeartbeatStep
      BY <1>1, <3>5
         DEF HeartbeatStep, HeartbeatScan, HeartbeatList,
             HeartbeatTracked, HeartbeatStop, HeartbeatFail,
             HeartbeatCleanup, HeartbeatCount, HeartbeatRecover, Idle, At
    <3>6. CASE DrainStep
      BY <1>1, <3>6
         DEF DrainStep, DrainSet, DrainList, DrainSignal, DrainWait,
             DrainStop, DrainSuspend, DrainSleep, DrainedExit, Idle, At
    <3>7. CASE Crash \/ Restart \/ BootCleanup \/ DeadlinePasses
               \/ HeartbeatElapses
      BY <1>1, <3>7
         DEF Crash, LoseProcess, Restart, BootCleanup, DeadlinePasses,
             HeartbeatElapses, Settled, SetInstanceSleep, db, TypeOK, Rows
    <3> QED BY <1>1, <3>1, <3>2, <3>3, <3>4, <3>5, <3>6, <3>7
            DEF LoopNext, Next, BootStep
  <2> DEFINE a == NextAttempt(row.attempts, row.marker, ckpts)
  <2>2. ~Recovers(a, MaxAutoRestarts, AutoRecover)
    BY <1>1, <2>1
       DEF BootRecover, SettledStatuses, RecoverOrFail, MarkForRecovery,
           TypeOK, Rows
  <2>3. a > MaxAutoRestarts
    BY <1>1, <2>2, ConstantsAssumption
       DEF Recovers, NextAttempt, TypeOK, Rows
  <2>4. a = row.attempts + 1 /\ row.marker = ckpts
    BY <1>1, <2>3, ConstantsAssumption
       DEF NextAttempt, LoopInv, TypeOK, Rows, NoMarker
  <2> HIDE DEF a
  <2> QED BY <1>1, <2>3, <2>4, ConstantsAssumption DEF LoopInv, TypeOK, Rows
<1>2. TypeOK /\ LoopInv /\ [LoopNext]_loopVars =>
        [phase = "boot" /\ AutoRecover
         /\ row.status = "running" /\ row'.status = "failed"
         => streak >= MaxAutoRestarts]_loopVars
  BY <1>1
<1> QED BY <1>2, LoopInvHolds, PTL DEF LoopSpec, GivenUpAfterCap
=============================================================================
