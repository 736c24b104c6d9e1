-------------------------- MODULE LifecycleProofs --------------------------
(***************************************************************************)
(* The type invariant of Lifecycle and the ownership of container registry *)
(* entries, for any number of clients and guest runs, any set of requests  *)
(* and faults and any bounds.                                              *)
(*                                                                         *)
(* Both are proved the same way: a lemma per actor says that each of its   *)
(* steps keeps the invariant, NextKeepsType and NextKeepsOwned put the     *)
(* actors together. RegistryOwned is not inductive: the step that hands an *)
(* entry over to a monitor needs the launcher to hold a handle             *)
(* (HandlesHeld), else the monitor would be spawned for no run.            *)
(***************************************************************************)
EXTENDS Lifecycle, TLAPS

(* The statements of the persistence layer turn rows into rows: COALESCE   *)
(* and the finished_at rule never produce a value outside the columns'     *)
(* types.                                                                  *)
LEMMA RowOperators ==
    ASSUME NEW r \in Rows, NEW s \in Statuses, NEW why \in Reasons,
           NEW when \in Sleeps
    PROVE  /\ UpdateStatus(r, s) \in Rows
           /\ UpdateStatusStarted(r, s) \in Rows
           /\ Complete(r, s, why) \in Rows
           /\ CompleteIfRunning(r, s, why) \in Rows
           /\ SetInstanceSleep(r, when) \in Rows
           /\ ClearInstanceSleep(r) \in Rows
           /\ Claim(r) \in Rows
<1>1. UpdateStatus(r, s) \in Rows
  BY DEF Rows, UpdateStatus
<1>2. UpdateStatusStarted(r, s) \in Rows
  BY DEF Rows, UpdateStatusStarted, Reasons
<1>3. Complete(r, s, why) \in Rows
  <2> DEFINE f == r.finished \/ s \in SettledStatuses
             t == IF why = "none" THEN r.term ELSE why
  <2>1. f \in BOOLEAN /\ t \in Reasons
    BY DEF Rows
  <2>2. Complete(r, s, why)
          = [r EXCEPT !.status = s, !.term = t, !.finished = f]
    BY DEF Complete, Rows
  <2> HIDE DEF f, t
  <2> QED BY <2>1, <2>2 DEF Rows
<1>4. CompleteIfRunning(r, s, why) \in Rows
  BY <1>3 DEF CompleteIfRunning
<1>5. SetInstanceSleep(r, when) \in Rows
  BY DEF Rows, SetInstanceSleep
<1>6. ClearInstanceSleep(r) \in Rows /\ Claim(r) \in Rows
  BY DEF Rows, ClearInstanceSleep, Claim, Sleeps
<1> QED BY <1>1, <1>2, <1>3, <1>4, <1>5, <1>6

(* No row, and the row op_register_instance inserts, are rows.             *)
LEMMA RowConstants == AbsentRow \in Rows /\ RegisterInstance \in Rows
<1>1. AbsentRow \in Rows
  BY ConstantsAssumption
     DEF Rows, AbsentRow, Statuses, Reasons, Sleeps, NoMarker
<1> QED BY <1>1 DEF RegisterInstance, Rows, Statuses

(* recover_or_fail returns a row: the cap in decide is what keeps          *)
(* recovery_attempts within RUNTARA_MAX_AUTO_RESTARTS.                     *)
LEMMA RecoveredRow ==
    ASSUME NEW r \in Rows, NEW n \in 0 .. MaxCheckpoints
    PROVE  RecoverOrFail(r, n, MaxAutoRestarts, AutoRecover) \in Rows
<1> DEFINE a == NextAttempt(r.attempts, r.marker, n)
<1>1. a \in Nat \ {0}
  BY ConstantsAssumption DEF Rows, NextAttempt, NoMarker
<1>2. Recovers(a, MaxAutoRestarts, AutoRecover) => a \in 0 .. MaxAutoRestarts
  BY <1>1, ConstantsAssumption DEF Recovers
<1>3. ASSUME a \in 0 .. MaxAutoRestarts
      PROVE  MarkForRecovery(r, a, n) \in Rows
  BY <1>3 DEF Rows, MarkForRecovery, Statuses, Reasons, Sleeps
<1>4. CompleteIfRunning(r, "failed", "environment_restart") \in Rows
  BY RowOperators DEF Statuses, Reasons, Sleeps
<1> QED BY <1>2, <1>3, <1>4 DEF RecoverOrFail

(* A fresh environment satisfies the type invariant.                       *)
LEMMA InitTypeOK == Init => TypeOK
<1> SUFFICES ASSUME Init PROVE TypeOK
  OBVIOUS
<1>1. row \in Rows
  BY RowConstants DEF Init
<1>2. "idle" \in PCs
  BY DEF PCs, ClientPCs
<1>3. pc \in [Actors -> PCs] /\ handle \in [Launchers -> Slots \cup {0}]
  BY <1>2 DEF Init
<1>4. guest \in [Slots -> GuestPCs] /\ mon \in [Slots -> MonitorPCs]
  BY DEF Init, GuestPCs, MonitorPCs
<1>5. cancelled \in [Slots -> BOOLEAN]
  BY DEF Init
<1>6. ckpts \in 0 .. MaxCheckpoints /\ counted \in 0 .. MaxCheckpoints
  BY ConstantsAssumption DEF Init
<1> QED BY <1>1, <1>3, <1>4, <1>5, <1>6 DEF Init, TypeOK

(* Every step of a management request keeps the types.                     *)
LEMMA ClientKeepsType ==
    ASSUME TypeOK, NEW c \in Clients, ClientStep(c)
    PROVE  TypeOK'
<1> USE DEF TypeOK, db, mail, progress, entry, env, runner,
           Actors, Launchers, PCs, ClientPCs, At, Idle, Goto
<1>1. CASE StartCheck(c)
  BY <1>1 DEF StartCheck
<1>2. CASE StartInsert(c)
  BY <1>2, RowConstants DEF StartInsert
<1>3. CASE StartLaunch(c)
  BY <1>3 DEF StartLaunch, LaunchDetached, GuestGoto, GuestPCs
<1>4. CASE StartLaunchFails(c)
  BY <1>4, RowOperators DEF StartLaunchFails, Statuses, Reasons, Sleeps
<1>5. CASE StartRegister(c)
  BY <1>5 DEF StartRegister, RegisterContainer
<1>6. CASE StartRunning(c)
  BY <1>6, RowOperators
     DEF StartRunning, SpawnMonitor, MonGoto, MonitorPCs, Statuses, Reasons,
         Sleeps
<1>7. CASE ResumeCheck(c)
  BY <1>7 DEF ResumeCheck
<1>8. CASE ResumeCleanup(c)
  BY <1>8 DEF ResumeCleanup, CleanupContainer
<1>9. CASE ResumeRunning(c)
  BY <1>9, RowOperators DEF ResumeRunning, Statuses, Reasons, Sleeps
<1>10. CASE ResumeClear(c)
  BY <1>10, RowOperators DEF ResumeClear, Statuses, Reasons, Sleeps
<1>11. CASE ResumeLaunch(c)
  BY <1>11 DEF ResumeLaunch, LaunchDetached, GuestGoto, GuestPCs
<1>12. CASE ResumeLaunchFails(c)
  BY <1>12 DEF ResumeLaunchFails
<1>13. CASE ResumeRegister(c)
  BY <1>13
     DEF ResumeRegister, SpawnMonitor, MonGoto, MonitorPCs,
         RegisterContainer
<1>14. CASE StopCheck(c)
  BY <1>14 DEF StopCheck
<1>15. CASE StopKill(c)
  BY <1>15 DEF StopKill, RunnerStop
<1>16. CASE StopComplete(c)
  BY <1>16, RowOperators DEF StopComplete, Statuses, Reasons, Sleeps
<1>17. CASE StopCleanup(c)
  BY <1>17 DEF StopCleanup, CleanupContainer
<1>18. CASE \E s \in LifecycleSignals : SendCheck(c, s)
  BY <1>18 DEF SendCheck, SendPC, LifecycleSignals
<1>19. CASE \E s \in LifecycleSignals : SendInsert(c, s)
  BY <1>19 DEF SendInsert, SendPC, LifecycleSignals
<1>20. CASE CustomInsert(c)
  <2>1. custom' \in BOOLEAN
    BY <1>20, Zenon DEF CustomInsert
  <2> QED BY <1>20, <2>1 DEF CustomInsert
<1>21. CASE CustomWakeCheck(c)
  BY <1>21 DEF CustomWakeCheck
<1>22. CASE CustomStamp(c)
  BY <1>22, RowOperators DEF CustomStamp, Statuses, Reasons, Sleeps
<1> QED BY <1>1, <1>2, <1>3, <1>4, <1>5, <1>6, <1>7, <1>8, <1>9, <1>10,
     <1>11, <1>12, <1>13, <1>14, <1>15, <1>16, <1>17, <1>18, <1>19, <1>20,
     <1>21, <1>22
   DEF ClientStep

(* Every step of a guest run and its host calls keeps the types.           *)
LEMMA GuestKeepsType ==
    ASSUME TypeOK, NEW r \in Slots, GuestStep(r)
    PROVE  TypeOK'
<1> USE DEF TypeOK, db, mail, progress, entry, env, runner,
           GuestAt, GuestGoto, GuestPCs
<1>1. CASE GuestStart(r)
  BY <1>1, RowOperators DEF GuestStart, Statuses, Reasons, Sleeps
<1>2. CASE GuestDies(r)
  BY <1>2 DEF GuestDies
<1>3. CASE GuestHeartbeat(r)
  BY <1>3 DEF GuestHeartbeat, InsertEvent
<1>4. CASE GuestCheckpoint(r)
  BY <1>4 DEF GuestCheckpoint
<1>5. CASE GuestPoll(r)
  BY <1>5 DEF GuestPoll, AckPC
<1>6. CASE GuestReadsSignal(r)
  BY <1>6 DEF GuestReadsSignal
<1>7. CASE GuestBreakpoint(r)
  BY <1>7 DEF GuestBreakpoint
<1>8. CASE GuestAck(r)
  BY <1>8 DEF GuestAck, AckNext
<1>9. CASE GuestApplyCancel(r)
  BY <1>9, RowOperators DEF GuestApplyCancel, Statuses, Reasons, Sleeps
<1>10. CASE GuestApplyPause(r)
  BY <1>10, RowOperators DEF GuestApplyPause, Statuses, Reasons, Sleeps
<1>11. CASE GuestApplyShutdown(r)
  BY <1>11, RowOperators DEF GuestApplyShutdown, Statuses, Reasons, Sleeps
<1>12. CASE GuestShutdownSleep(r)
  BY <1>12, RowOperators DEF GuestShutdownSleep, Statuses, Reasons, Sleeps
<1>13. CASE GuestSuspendedEvent(r)
  BY <1>13, RowOperators
     DEF GuestSuspendedEvent, Statuses, Reasons, Sleeps, InsertEvent
<1>14. CASE \E s \in {"completed", "failed"} : GuestReports(r, s)
  BY <1>14, RowOperators
     DEF Statuses, Reasons, Sleeps, GuestReports, InsertEvent
<1>15. CASE GuestSuspends(r)
  BY <1>15 DEF GuestSuspends
<1>16. CASE GuestPark(r)
  BY <1>16, RowOperators DEF GuestPark, Statuses, Reasons, Sleeps, ParkMarker
<1>17. CASE GuestParkSleep(r)
  BY <1>17, RowOperators DEF GuestParkSleep, Statuses, Reasons, Sleeps
<1>18. CASE GuestExit(r)
  BY <1>18 DEF GuestExit
<1>19. CASE GuestDurableSleep(r)
  BY <1>19 DEF GuestDurableSleep
<1>20. CASE GuestSave(r)
  BY <1>20, ConstantsAssumption DEF GuestSave
<1>21. CASE GuestRetry(r)
  BY <1>21, ConstantsAssumption DEF GuestRetry
<1> QED BY <1>1, <1>2, <1>3, <1>4, <1>5, <1>6, <1>7, <1>8, <1>9, <1>10,
     <1>11, <1>12, <1>13, <1>14, <1>15, <1>16, <1>17, <1>18, <1>19, <1>20,
     <1>21
   DEF GuestStep, GuestChooses, HostWorks

(* Every step of spawn_container_monitor keeps the types.                  *)
LEMMA MonitorKeepsType ==
    ASSUME TypeOK, NEW r \in Slots, MonitorStep(r)
    PROVE  TypeOK'
<1> USE DEF TypeOK, db, mail, progress, entry, env, runner,
           MonAt, MonGoto, MonitorPCs
<1>1. CASE MonitorExit(r)
  BY <1>1 DEF MonitorExit
<1>2. CASE MonitorCheck(r)
  BY <1>2 DEF MonitorCheck
<1>3. CASE MonitorWrite(r)
  BY <1>3, RowOperators DEF MonitorWrite, Statuses, Reasons, Sleeps
<1>4. CASE MonitorSleep(r)
  BY <1>4, RowOperators DEF MonitorSleep, Statuses, Reasons, Sleeps
<1>5. CASE MonitorTimeout(r)
  BY <1>5 DEF MonitorTimeout, RunnerStop
<1>6. CASE MonitorExpire(r)
  BY <1>6, RowOperators DEF MonitorExpire, Statuses, Reasons, Sleeps
<1>7. CASE MonitorCleanup(r)
  BY <1>7 DEF MonitorCleanup, CleanupContainer
<1> QED BY <1>1, <1>2, <1>3, <1>4, <1>5, <1>6, <1>7
   DEF MonitorStep

(* Every step of the wake scheduler keeps the types.                       *)
LEMMA WakerKeepsType ==
    ASSUME TypeOK, WakerStep
    PROVE  TypeOK'
<1> USE DEF TypeOK, db, mail, progress, entry, env, runner,
           Actors, Launchers, PCs, ClientPCs, WakerPCs, At, Idle, Goto
<1>1. CASE WakeScan
  BY <1>1 DEF WakeScan
<1>2. CASE WakeClaim
  BY <1>2, RowOperators DEF WakeClaim, Statuses, Reasons, Sleeps
<1>3. CASE WakeLaunch
  BY <1>3 DEF WakeLaunch, LaunchDetached, GuestGoto, GuestPCs
<1>4. CASE WakeLaunchFails
  BY <1>4 DEF WakeLaunchFails
<1>5. CASE WakeRestore
  BY <1>5, RowOperators DEF WakeRestore, Statuses, Reasons, Sleeps
<1>6. CASE WakeRegister
  BY <1>6
     DEF WakeRegister, SpawnMonitor, MonGoto, MonitorPCs, RegisterContainer
<1> QED BY <1>1, <1>2, <1>3, <1>4, <1>5, <1>6
   DEF WakerStep

(* Every step of the heartbeat monitor keeps the types; its recovery goes  *)
(* through recover_or_fail.                                                *)
LEMMA HeartbeatKeepsType ==
    ASSUME TypeOK, HeartbeatStep
    PROVE  TypeOK'
<1> USE DEF TypeOK, db, mail, progress, entry, env, runner,
           Actors, PCs, ClientPCs, HeartbeatPCs, At, Idle, Goto
<1>1. CASE HeartbeatScan
  BY <1>1 DEF HeartbeatScan
<1>2. CASE HeartbeatList
  BY <1>2 DEF HeartbeatList
<1>3. CASE HeartbeatTracked
  <2>1. orphan' \in BOOLEAN
    BY <1>3 DEF HeartbeatTracked
  <2> QED BY <1>3, <2>1 DEF HeartbeatTracked
<1>4. CASE HeartbeatStop
  BY <1>4 DEF HeartbeatStop, RunnerStop
<1>5. CASE HeartbeatFail
  BY <1>5, RowOperators DEF HeartbeatFail, Statuses, Reasons, Sleeps
<1>6. CASE HeartbeatCleanup
  BY <1>6 DEF HeartbeatCleanup, CleanupContainer
<1>7. CASE HeartbeatCount
  BY <1>7 DEF HeartbeatCount
<1>8. CASE HeartbeatRecover
  <2>1. row' \in Rows
    BY <1>8, RecoveredRow DEF HeartbeatRecover
  <2>2. counted' \in 0 .. MaxCheckpoints
    BY <1>8, ConstantsAssumption DEF HeartbeatRecover
  <2> QED BY <1>8, <2>1, <2>2 DEF HeartbeatRecover
<1> QED BY <1>1, <1>2, <1>3, <1>4, <1>5, <1>6, <1>7, <1>8
   DEF HeartbeatStep

(* The loss of the process resets its memory to the initial values.        *)
LEMMA LosingKeepsType ==
    ASSUME TypeOK, LoseProcess
    PROVE  TypeOK'
<1> USE DEF TypeOK, LoseProcess
<1>1. (db = db' /\ paused = paused') /\ row' = row /\ signal' = signal
      /\ custom' = custom /\ ckpts' = ckpts /\ registry' = registry
      /\ entryOld' = entryOld /\ lastEvent' = lastEvent
  BY DEF db, mail, progress, entry
<1>2. "idle" \in PCs
  BY DEF PCs, ClientPCs
<1>3. pc' \in [Actors -> PCs] /\ handle' \in [Launchers -> Slots \cup {0}]
  BY <1>2
<1>4. guest' \in [Slots -> GuestPCs] /\ mon' \in [Slots -> MonitorPCs]
  BY DEF GuestPCs, MonitorPCs
<1>5. cancelled' \in [Slots -> BOOLEAN] /\ counted' \in 0 .. MaxCheckpoints
  BY ConstantsAssumption
<1> QED BY <1>1, <1>3, <1>4, <1>5

(* Every step of the graceful drain keeps the types.                       *)
LEMMA DrainKeepsType ==
    ASSUME TypeOK, DrainStep
    PROVE  TypeOK'
<1> USE DEF TypeOK, db, mail, progress, entry, env, runner,
           Actors, PCs, ClientPCs, DrainerPCs, At, Idle, Goto
<1>1. CASE DrainSet
  BY <1>1 DEF DrainSet
<1>2. CASE DrainList
  BY <1>2 DEF DrainList
<1>3. CASE DrainSignal
  BY <1>3 DEF DrainSignal
<1>4. CASE DrainWait
  BY <1>4 DEF DrainWait
<1>5. CASE DrainStop
  BY <1>5 DEF DrainStop, RunnerStop
<1>6. CASE DrainSuspend
  BY <1>6, RowOperators DEF DrainSuspend, Statuses, Reasons, Sleeps
<1>7. CASE DrainSleep
  BY <1>7, RowOperators DEF DrainSleep, Statuses, Reasons, Sleeps
<1>8. CASE DrainedExit
  BY <1>8, LosingKeepsType DEF DrainedExit
<1> QED BY <1>1, <1>2, <1>3, <1>4, <1>5, <1>6, <1>7, <1>8
   DEF DrainStep

(* Restart, recover_orphaned_containers and its cleanup keep the types.    *)
LEMMA BootKeepsType ==
    ASSUME TypeOK, Crash \/ BootStep
    PROVE  TypeOK'
<1> USE DEF TypeOK, db, mail, progress, entry, env, runner
<1>1. CASE Crash
  BY <1>1, LosingKeepsType DEF Crash
<1>2. CASE Restart
  BY <1>2 DEF Restart
<1>3. CASE BootRecover
  BY <1>3, RecoveredRow DEF BootRecover
<1>4. CASE BootCleanup
  BY <1>4 DEF BootCleanup, CleanupContainer
<1> QED BY <1>1, <1>2, <1>3, <1>4
   DEF BootStep

(* The passing of a deadline or of a heartbeat period keeps the types.     *)
LEMMA TimeKeepsType ==
    ASSUME TypeOK, DeadlinePasses \/ HeartbeatElapses
    PROVE  TypeOK'
<1> USE DEF TypeOK, db, mail, progress, entry, env, runner
<1>1. CASE DeadlinePasses
  BY <1>1, RowOperators DEF DeadlinePasses, Statuses, Reasons, Sleeps
<1>2. CASE HeartbeatElapses
  <2>1. row' \in Rows
    BY <1>2 DEF HeartbeatElapses, Rows
  <2>2. entryOld' \in BOOLEAN /\ lastEvent' \in {"none", "recent", "old"}
    BY <1>2 DEF HeartbeatElapses
  <2> QED BY <1>2, <2>1, <2>2 DEF HeartbeatElapses
<1> QED BY <1>1, <1>2
   DEF TypeOK

(* The type invariant is inductive.                                        *)
LEMMA NextKeepsType == TypeOK /\ [Next]_vars => TypeOK'
<1> SUFFICES ASSUME TypeOK, [Next]_vars PROVE TypeOK'
  OBVIOUS
<1>1. CASE UNCHANGED vars
  BY <1>1 DEF TypeOK, vars, db, mail, progress, entry, env, runner
<1>2. CASE Next
  BY <1>2, ClientKeepsType, GuestKeepsType, MonitorKeepsType, WakerKeepsType,
     HeartbeatKeepsType, DrainKeepsType, BootKeepsType, TimeKeepsType
     DEF Next
<1> QED BY <1>1, <1>2

(* Every reachable state is well typed; in particular no row carries more  *)
(* recovery attempts than RUNTARA_MAX_AUTO_RESTARTS.                       *)
THEOREM TypeCorrect == Spec => []TypeOK
<1> QED BY InitTypeOK, NextKeepsType, PTL DEF Spec

(* The inductive strengthening of RegistryOwned.                           *)
Owned == HandlesHeld /\ RegistryOwned

(* A management request never leaves a registry entry without an owner:    *)
(* start and resume hand theirs over to the monitor they spawn.            *)
LEMMA ClientKeepsOwned ==
    ASSUME TypeOK, Owned, NEW c \in Clients, ClientStep(c)
    PROVE  Owned'
<1> USE DEF Owned, HandlesHeld, RegistryOwned, TypeOK, db, mail, progress,
           entry, env, runner, Actors, Launchers, At, Idle, Goto
<1>1. CASE StartCheck(c)
  BY <1>1 DEF StartCheck
<1>2. CASE StartInsert(c)
  BY <1>2 DEF StartInsert
<1>3. CASE StartLaunch(c)
  BY <1>3 DEF StartLaunch, LaunchDetached
<1>4. CASE StartLaunchFails(c)
  BY <1>4 DEF StartLaunchFails
<1>5. CASE StartRegister(c)
  BY <1>5 DEF StartRegister, RegisterContainer
<1>6. CASE StartRunning(c)
  BY <1>6, ConstantsAssumption DEF StartRunning, SpawnMonitor, MonGoto
<1>7. CASE ResumeCheck(c)
  BY <1>7 DEF ResumeCheck
<1>8. CASE ResumeCleanup(c)
  BY <1>8 DEF ResumeCleanup, CleanupContainer
<1>9. CASE ResumeRunning(c)
  BY <1>9 DEF ResumeRunning
<1>10. CASE ResumeClear(c)
  BY <1>10 DEF ResumeClear
<1>11. CASE ResumeLaunch(c)
  BY <1>11 DEF ResumeLaunch, LaunchDetached
<1>12. CASE ResumeLaunchFails(c)
  BY <1>12 DEF ResumeLaunchFails
<1>13. CASE ResumeRegister(c)
  BY <1>13, ConstantsAssumption
     DEF ResumeRegister, SpawnMonitor, MonGoto, RegisterContainer
<1>14. CASE StopCheck(c)
  BY <1>14 DEF StopCheck
<1>15. CASE StopKill(c)
  BY <1>15 DEF StopKill
<1>16. CASE StopComplete(c)
  BY <1>16 DEF StopComplete
<1>17. CASE StopCleanup(c)
  BY <1>17 DEF StopCleanup, CleanupContainer
<1>18. CASE \E s \in LifecycleSignals : SendCheck(c, s)
  BY <1>18 DEF SendCheck, SendPC, LifecycleSignals
<1>19. CASE \E s \in LifecycleSignals : SendInsert(c, s)
  BY <1>19 DEF SendInsert, SendPC, LifecycleSignals
<1>20. CASE CustomInsert(c)
  BY <1>20 DEF CustomInsert
<1>21. CASE CustomWakeCheck(c)
  BY <1>21 DEF CustomWakeCheck
<1>22. CASE CustomStamp(c)
  BY <1>22 DEF CustomStamp
<1> QED BY <1>1, <1>2, <1>3, <1>4, <1>5, <1>6, <1>7, <1>8, <1>9, <1>10,
     <1>11, <1>12, <1>13, <1>14, <1>15, <1>16, <1>17, <1>18, <1>19, <1>20,
     <1>21, <1>22
   DEF ClientStep

(* A guest run touches neither the registry nor a monitor.                 *)
LEMMA GuestKeepsOwned ==
    ASSUME Owned, NEW r \in Slots, GuestStep(r)
    PROVE  Owned'
<1>1. UNCHANGED <<registry, phase, mon, pc, handle>>
  BY DEF GuestStep, GuestChooses, HostWorks, GuestStart, GuestDies,
         GuestHeartbeat, GuestCheckpoint, GuestDurableSleep, GuestSave,
         GuestRetry, GuestPoll, GuestReadsSignal, GuestBreakpoint,
         GuestAck, GuestApplyCancel, GuestApplyPause,
         GuestApplyShutdown, GuestShutdownSleep, GuestSuspendedEvent,
         GuestReports, GuestSuspends, GuestPark, GuestParkSleep, GuestExit,
         db, entry, env
<1> QED BY <1>1 DEF Owned, HandlesHeld, RegistryOwned

(* A monitor deletes the entry in the step with which it ends.             *)
LEMMA MonitorKeepsOwned ==
    ASSUME TypeOK, Owned, NEW r \in Slots, MonitorStep(r)
    PROVE  Owned'
<1> USE DEF Owned, HandlesHeld, RegistryOwned, TypeOK, db, mail, progress,
           entry, env, runner, MonAt, MonGoto
<1>1. CASE MonitorExit(r)
  BY <1>1 DEF MonitorExit
<1>2. CASE MonitorCheck(r)
  BY <1>2 DEF MonitorCheck
<1>3. CASE MonitorWrite(r)
  BY <1>3 DEF MonitorWrite
<1>4. CASE MonitorSleep(r)
  BY <1>4 DEF MonitorSleep
<1>5. CASE MonitorTimeout(r)
  BY <1>5 DEF MonitorTimeout
<1>6. CASE MonitorExpire(r)
  BY <1>6 DEF MonitorExpire
<1>7. CASE MonitorCleanup(r)
  BY <1>7 DEF MonitorCleanup, CleanupContainer
<1> QED BY <1>1, <1>2, <1>3, <1>4, <1>5, <1>6, <1>7
   DEF MonitorStep

(* The wake scheduler registers its run together with the monitor.         *)
LEMMA WakerKeepsOwned ==
    ASSUME TypeOK, Owned, WakerStep
    PROVE  Owned'
<1> USE DEF Owned, HandlesHeld, RegistryOwned, TypeOK, db, mail, progress,
           entry, env, runner, Actors, Launchers, At, Idle, Goto
<1>1. CASE WakeScan
  BY <1>1 DEF WakeScan
<1>2. CASE WakeClaim
  BY <1>2 DEF WakeClaim
<1>3. CASE WakeLaunch
  BY <1>3 DEF WakeLaunch, LaunchDetached
<1>4. CASE WakeLaunchFails
  BY <1>4 DEF WakeLaunchFails
<1>5. CASE WakeRestore
  BY <1>5 DEF WakeRestore
<1>6. CASE WakeRegister
  BY <1>6, ConstantsAssumption
     DEF WakeRegister, SpawnMonitor, MonGoto, RegisterContainer
<1> QED BY <1>1, <1>2, <1>3, <1>4, <1>5, <1>6
   DEF WakerStep

(* The heartbeat monitor only deletes entries.                             *)
LEMMA HeartbeatKeepsOwned ==
    ASSUME TypeOK, Owned, HeartbeatStep
    PROVE  Owned'
<1> USE DEF Owned, HandlesHeld, RegistryOwned, TypeOK, db, mail, progress,
           entry, env, runner, Actors, Launchers, At, Idle, Goto
<1>1. CASE HeartbeatScan
  BY <1>1 DEF HeartbeatScan
<1>2. CASE HeartbeatList
  BY <1>2 DEF HeartbeatList
<1>3. CASE HeartbeatTracked
  BY <1>3 DEF HeartbeatTracked
<1>4. CASE HeartbeatStop
  BY <1>4 DEF HeartbeatStop
<1>5. CASE HeartbeatFail
  BY <1>5 DEF HeartbeatFail
<1>6. CASE HeartbeatCleanup
  BY <1>6 DEF HeartbeatCleanup, CleanupContainer
<1>7. CASE HeartbeatCount
  BY <1>7 DEF HeartbeatCount
<1>8. CASE HeartbeatRecover
  BY <1>8 DEF HeartbeatRecover
<1> QED BY <1>1, <1>2, <1>3, <1>4, <1>5, <1>6, <1>7, <1>8
   DEF HeartbeatStep

(* The drain neither adds an entry nor ends a monitor; the exit takes the  *)
(* process down.                                                           *)
LEMMA DrainKeepsOwned ==
    ASSUME TypeOK, Owned, DrainStep
    PROVE  Owned'
<1> USE DEF Owned, HandlesHeld, RegistryOwned, TypeOK, db, mail, progress,
           entry, env, runner, Actors, Launchers, At, Idle, Goto
<1>1. CASE DrainSet
  BY <1>1 DEF DrainSet
<1>2. CASE DrainList
  BY <1>2 DEF DrainList
<1>3. CASE DrainSignal
  BY <1>3 DEF DrainSignal
<1>4. CASE DrainWait
  BY <1>4 DEF DrainWait
<1>5. CASE DrainStop
  BY <1>5 DEF DrainStop
<1>6. CASE DrainSuspend
  BY <1>6 DEF DrainSuspend
<1>7. CASE DrainSleep
  BY <1>7 DEF DrainSleep
<1>8. CASE DrainedExit
  BY <1>8 DEF DrainedExit, LoseProcess
<1> QED BY <1>1, <1>2, <1>3, <1>4, <1>5, <1>6, <1>7, <1>8
   DEF DrainStep

(* A restart is up again only when no entry of the old process is left.    *)
LEMMA BootKeepsOwned ==
    ASSUME TypeOK, Owned, Crash \/ BootStep
    PROVE  Owned'
<1> USE DEF Owned, HandlesHeld, RegistryOwned, TypeOK, db, mail, progress,
           entry, env, runner, Actors, Launchers
<1>1. CASE Crash
  BY <1>1 DEF Crash, LoseProcess
<1>2. CASE Restart
  BY <1>2 DEF Restart
<1>3. CASE BootRecover
  BY <1>3 DEF BootRecover
<1>4. CASE BootCleanup
  BY <1>4 DEF BootCleanup, CleanupContainer
<1> QED BY <1>1, <1>2, <1>3, <1>4
   DEF BootStep

(* Ownership, with HandlesHeld and the types, is inductive.                *)
LEMMA NextKeepsOwned == TypeOK /\ Owned /\ [Next]_vars => Owned'
<1> SUFFICES ASSUME TypeOK, Owned, [Next]_vars PROVE Owned'
  OBVIOUS
<1>1. CASE UNCHANGED vars \/ DeadlinePasses \/ HeartbeatElapses
  BY <1>1 DEF Owned, HandlesHeld, RegistryOwned, DeadlinePasses,
              HeartbeatElapses, vars, db, entry, env
<1>2. CASE Next
  BY <1>1, <1>2, ClientKeepsOwned, GuestKeepsOwned, MonitorKeepsOwned,
     WakerKeepsOwned, HeartbeatKeepsOwned, DrainKeepsOwned, BootKeepsOwned
     DEF Next
<1> QED BY <1>1, <1>2

(* While the process is up, every container registry entry has a monitor,  *)
(* or a start request about to spawn one, that will delete it.             *)
THEOREM EntriesAreOwned == Spec => []RegistryOwned
<1>1. Init => Owned
  BY DEF Init, Owned, HandlesHeld, RegistryOwned, Actors
<1>2. Owned => RegistryOwned
  BY DEF Owned
<1> QED BY <1>1, <1>2, TypeCorrect, NextKeepsOwned, PTL DEF Spec
=============================================================================
