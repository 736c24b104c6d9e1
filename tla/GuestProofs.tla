---------------------------- MODULE GuestProofs ----------------------------
(***************************************************************************)
(* At most one guest at a time, and what follows from it: completed is     *)
(* final, a pause holds, nobody is stranded.  For any number of clients    *)
(* and guest runs and any bounds; what is assumed of the requests and the  *)
(* faults is part of each theorem (OneLauncher, OrphansAreZombies, NoStop, *)
(* NoDrain, NoLoss), and is needed: TLC refutes the property when one of   *)
(* them is dropped.                                                        *)
(*                                                                         *)
(* The argument is about the wake time.  A busy run and a wake on its way  *)
(* exclude each other because the row has no wake time while a run is      *)
(* busy, the scan only takes a row that has one, and the claim clears it   *)
(* before the launch.  A drain breaks the first of these (it schedules a   *)
(* wake while the guest still runs) but turns the scan off before it does. *)
(***************************************************************************)
EXTENDS LifecycleProofs

(* The first hypothesis of all theorems: the clients neither resume the    *)
(* instance nor send it custom signals. A resume request launches whatever *)
(* else is going on, and the stamp of a custom signal makes a row due that *)
(* a run may be busy with; with either of them TLC refutes each of the     *)
(* four properties.                                                        *)
OneLauncher ==
    "resume" \notin Commands /\ "custom" \notin Commands

(* A run that may still execute, suspend the row or schedule its wake; one *)
(* that only has an event to report, or its task to take out of the map,   *)
(* is not busy, and may overlap its successor.                             *)
BusyPCs == GuestPCs \ {"unused", "pause.event", "shutdown.event", "exit"}

Busy(r) == guest[r] \in BusyPCs

(* The wake scheduler is on its way to a launch.                           *)
Waking == pc["waker"] \in {"wake.claim", "wake.launch", "wake.restore"}

(* The second one, on what the heartbeat monitor does:                     *)
(* recover_orphaned_instance acts on what its scan was looking for, a row  *)
(* that still says running, no run alive and no wake on its way. The code  *)
(* does not make sure of it: a late monitor may have deleted the entry of  *)
(* a newer run, and the row is not looked at again before it is suspended  *)
(* and made due. Without this hypothesis TLC refutes all four.             *)
OrphansAreZombies == pc["heartbeat"] = "hb.recover" => Zombie /\ ~Waking

(* At most one run is busy: OneGuest made inductive.                       *)
OneBusy == \A q, r \in Slots : Busy(q) /\ Busy(r) => q = r

(* The wake scheduler only goes for an instance no run is busy with.       *)
WakeAlone == Waking => \A r \in Slots : ~Busy(r)

(* Unless the process drains (when the scan is off), a row with a busy run *)
(* has no wake time, nor has one whose wake was claimed: nothing can be    *)
(* found due meanwhile.                                                    *)
NoWakeDue ==
    ~draining => /\ \A r \in Slots : Busy(r) => row.sleep = "none"
                 /\ pc["waker"] = "wake.launch" => row.sleep = "none"

(* The row is still to be inserted, or its first launch still to be made.  *)
Starting == row.status = "absent" \/ \E c \in Clients : pc[c] = "start.launch"

StartPCs == {"idle", "start.insert", "start.launch",
             "send.cancel", "send.pause", "send.unpause"}

(* Until that launch nothing of the instance exists but start requests, of *)
(* which one gets past the insert, and signals.                            *)
Unlaunched ==
    Starting =>
        /\ row.status \in {"absent", "pending"} /\ row.sleep = "none"
        /\ phase \in {"up", "down"} /\ ~registry
        /\ \A r \in Slots : guest[r] = "unused" /\ mon[r] = "none"
        /\ pc["waker"] = "idle" /\ pc["heartbeat"] = "idle"
        /\ pc["drainer"] \in {"idle", "drain.list", "drain.done"}
        /\ \A c \in Clients :
              /\ pc[c] \in StartPCs
              /\ pc[c] = "start.launch" => row.status = "pending"
        /\ \A c, d \in Clients :
              pc[c] = "start.launch" /\ pc[d] = "start.launch" => c = d

(* No client is in a request the hypothesis excludes.                      *)
NoRelaunch ==
    \A c \in Clients :
        pc[c] \notin {"resume.cleanup", "resume.running", "resume.clear",
                      "resume.launch", "resume.register", "custom.wake",
                      "custom.stamp"}

(* A process that is not up does nothing; only a drain sets the flag.      *)
Down ==
    /\ pc["drainer"] # "idle" => draining
    /\ phase # "up" =>
         /\ ~draining
         /\ \A a \in Actors : pc[a] = "idle"
         /\ \A r \in Slots : guest[r] = "unused" /\ mon[r] = "none"

(* The inductive invariant.                                                *)
Alone ==
    /\ OneLauncher /\ NoRelaunch /\ Down
    /\ OneBusy /\ WakeAlone /\ NoWakeDue /\ Unlaunched

(* What each statement does to the columns the argument is about:          *)
(* update_instance_status without started_at, ...                          *)
LEMMA StatusFields ==
    ASSUME NEW r \in Rows, NEW s
    PROVE  /\ UpdateStatus(r, s).status = s
           /\ UpdateStatus(r, s).sleep = r.sleep
           /\ UpdateStatus(r, s).term = r.term
BY DEF Rows, UpdateStatus

(* ... and with it, ...                                                    *)
LEMMA StartedFields ==
    ASSUME NEW r \in Rows, NEW s
    PROVE  /\ UpdateStatusStarted(r, s).status = s
           /\ UpdateStatusStarted(r, s).sleep = r.sleep
           /\ UpdateStatusStarted(r, s).term = "none"
BY DEF Rows, UpdateStatusStarted

(* ... complete_instance, ...                                              *)
LEMMA CompleteFields ==
    ASSUME NEW r \in Rows, NEW s, NEW why
    PROVE  /\ Complete(r, s, why).status = s
           /\ Complete(r, s, why).sleep = r.sleep
           /\ Complete(r, s, why).term = IF why = "none" THEN r.term ELSE why
BY DEF Rows, Complete

(* ... the same guarded by status = 'running', ...                         *)
LEMMA GuardedFields ==
    ASSUME NEW r \in Rows, NEW s, NEW why
    PROVE  /\ CompleteIfRunning(r, s, why).status
                = IF r.status = "running" THEN s ELSE r.status
           /\ CompleteIfRunning(r, s, why).sleep = r.sleep
           /\ CompleteIfRunning(r, s, why).term
                = IF r.status = "running" /\ why # "none" THEN why ELSE r.term
BY CompleteFields DEF CompleteIfRunning, Applies

(* ... set_instance_sleep, ...                                             *)
LEMMA SleepFields ==
    ASSUME NEW r \in Rows, NEW when
    PROVE  /\ SetInstanceSleep(r, when).status = r.status
           /\ SetInstanceSleep(r, when).sleep = when
           /\ SetInstanceSleep(r, when).term = r.term
BY DEF Rows, SetInstanceSleep

(* ... and claim_sleeping_instance.                                        *)
LEMMA ClaimFields ==
    ASSUME NEW r \in Rows
    PROVE  /\ Claim(r).status = r.status
           /\ Claim(r).sleep = "none"
           /\ Claim(r).term = r.term
BY DEF Rows, Claim

(* The row op_register_instance inserts.                                   *)
LEMMA NewRow == /\ RegisterInstance.status = "pending"
                /\ RegisterInstance.sleep = "none"
BY DEF RegisterInstance, AbsentRow

(* recover_or_fail suspends the row, fails it or leaves it alone.          *)
LEMMA RecoveredFields ==
    ASSUME NEW r \in Rows, NEW n
    PROVE  LET s == RecoverOrFail(r, n, MaxAutoRestarts, AutoRecover)
           IN  \/ s.status = "suspended" /\ s.sleep = "due"
               \/ s.status = "failed" /\ s.sleep = r.sleep
               \/ s = r
<1>1. ASSUME NEW a
      PROVE  /\ MarkForRecovery(r, a, n).status = "suspended"
             /\ MarkForRecovery(r, a, n).sleep = "due"
  BY DEF MarkForRecovery, Rows
<1>2. LET f == CompleteIfRunning(r, "failed", "environment_restart")
      IN  \/ f.status = "failed" /\ f.sleep = r.sleep
          \/ f = r
  BY CompleteFields DEF CompleteIfRunning, Applies
<1> QED BY <1>1, <1>2 DEF RecoverOrFail

(* The passing of a heartbeat period only ages the row.                    *)
LEMMA OlderRow ==
    ASSUME TypeOK, HeartbeatElapses
    PROVE  /\ row'.status = row.status /\ row'.sleep = row.sleep
           /\ row'.term = row.term
BY DEF HeartbeatElapses, TypeOK, Rows

(* The last statement of handle_start_instance.                            *)
LEMMA StartedRow ==
    ASSUME TypeOK, NEW c \in Clients, StartRunning(c)
    PROVE  /\ row'.status = "running" /\ row'.sleep = row.sleep
           /\ row'.term = "none"
<1>1. row \in Rows /\ row' = UpdateStatusStarted(row, "running")
  BY DEF StartRunning, TypeOK
<1> QED BY <1>1, StartedFields

(* A start request launches once, before anything else of the instance     *)
(* exists; stop and the signals launch nothing.                            *)
LEMMA ClientKeepsAlone ==
    ASSUME TypeOK, Alone, NEW c \in Clients, ClientStep(c)
    PROVE  Alone'
<1> USE ConstantsAssumption
    DEF TypeOK, Alone, OneLauncher, NoRelaunch, Down, OneBusy,
        WakeAlone, NoWakeDue, Unlaunched, Starting, StartPCs, Busy, Waking,
        db, mail, progress, entry, env, runner, Actors, Launchers, At, Idle,
        Goto, Statuses, Reasons, Sleeps
<1>1. CASE StartCheck(c)
  BY <1>1 DEF StartCheck
<1>2. CASE StartInsert(c)
  BY <1>2, NewRow DEF StartInsert
<1>3. CASE StartLaunch(c)
  BY <1>3 DEF StartLaunch, LaunchDetached, NextSlot, Free, GuestGoto
<1>4. CASE StartLaunchFails(c)
  BY <1>4, CompleteFields DEF StartLaunchFails
<1>5. CASE StartRegister(c)
  BY <1>5 DEF StartRegister, RegisterContainer
<1>6. CASE StartRunning(c)
  <2>1. ~Starting /\ ~Starting'
    BY <1>6, StartedRow DEF StartRunning
  <2> QED BY <1>6, <2>1, StartedRow DEF StartRunning
<1>7. CASE StopCheck(c)
  BY <1>7 DEF StopCheck
<1>8. CASE StopKill(c)
  BY <1>8 DEF StopKill
<1>9. CASE StopComplete(c)
  BY <1>9, CompleteFields DEF StopComplete
<1>10. CASE StopCleanup(c)
  BY <1>10 DEF StopCleanup, CleanupContainer
<1>11. CASE \E s \in LifecycleSignals : SendCheck(c, s)
  BY <1>11 DEF SendCheck, SendPC, LifecycleSignals
<1>12. CASE \E s \in LifecycleSignals : SendInsert(c, s)
  BY <1>12 DEF SendInsert, SendPC, LifecycleSignals
<1>13. CASE \/ ResumeCheck(c) \/ ResumeCleanup(c) \/ ResumeRunning(c)
            \/ ResumeClear(c) \/ ResumeLaunch(c) \/ ResumeLaunchFails(c)
            \/ ResumeRegister(c)
            \/ CustomInsert(c) \/ CustomWakeCheck(c) \/ CustomStamp(c)
  BY <1>13 DEF ResumeCheck, ResumeCleanup, ResumeRunning, ResumeClear,
        ResumeLaunch, ResumeLaunchFails, ResumeRegister, CustomInsert,
        CustomWakeCheck, CustomStamp
<1> QED BY <1>1, <1>2, <1>3, <1>4, <1>5, <1>6, <1>7, <1>8, <1>9, <1>10,
     <1>11, <1>12, <1>13
   DEF ClientStep
(* Only the busy run sets the wake time, and it is not busy afterwards.    *)
LEMMA GuestKeepsAlone ==
    ASSUME TypeOK, Alone, NEW r \in Slots, GuestStep(r)
    PROVE  Alone'
<1> USE ConstantsAssumption
    DEF TypeOK, Alone, OneLauncher, NoRelaunch, Down, OneBusy,
        WakeAlone, NoWakeDue, Unlaunched, Starting, Busy, BusyPCs, Waking,
        db, mail, progress, entry, env, runner, Actors, Launchers,
        GuestAt, GuestGoto, GuestPCs, InsertEvent, Statuses, Reasons, Sleeps
<1>1. CASE GuestStart(r)
  BY <1>1, StatusFields DEF GuestStart
<1>2. CASE GuestDies(r)
  BY <1>2 DEF GuestDies, Interruptible
<1>3. CASE GuestHeartbeat(r) \/ GuestRetry(r) \/ GuestReadsSignal(r)
  BY <1>3 DEF GuestHeartbeat, GuestRetry, GuestReadsSignal
<1>4. CASE GuestCheckpoint(r) \/ GuestDurableSleep(r) \/ GuestSave(r)
  BY <1>4 DEF GuestCheckpoint, GuestDurableSleep, GuestSave
<1>5. CASE GuestPoll(r) \/ GuestBreakpoint(r)
  BY <1>5 DEF GuestPoll, AckPC, GuestBreakpoint
<1>6. CASE GuestAck(r)
  BY <1>6 DEF GuestAck, AckNext
<1>7. CASE GuestApplyCancel(r)
  BY <1>7, CompleteFields DEF GuestApplyCancel
<1>8. CASE GuestApplyPause(r)
  BY <1>8, StatusFields DEF GuestApplyPause
<1>9. CASE GuestApplyShutdown(r)
  BY <1>9, CompleteFields DEF GuestApplyShutdown
<1>10. CASE GuestShutdownSleep(r)
  BY <1>10, SleepFields DEF GuestShutdownSleep
<1>11. CASE GuestSuspendedEvent(r)
  BY <1>11, GuardedFields DEF GuestSuspendedEvent
<1>12. CASE \E s \in {"completed", "failed"} : GuestReports(r, s)
  BY <1>12, GuardedFields DEF GuestReports
<1>13. CASE GuestSuspends(r)
  BY <1>13 DEF GuestSuspends
<1>14. CASE GuestPark(r)
  BY <1>14, GuardedFields DEF GuestPark, ParkMarker, Applies
<1>15. CASE GuestParkSleep(r)
  BY <1>15, SleepFields DEF GuestParkSleep
<1>16. CASE GuestExit(r)
  BY <1>16 DEF GuestExit
<1> QED BY <1>1, <1>2, <1>3, <1>4, <1>5, <1>6, <1>7, <1>8, <1>9, <1>10,
     <1>11, <1>12, <1>13, <1>14, <1>15, <1>16
   DEF GuestStep, GuestChooses, HostWorks

(* A monitor schedules a wake only when the process drains.                *)
LEMMA MonitorKeepsAlone ==
    ASSUME TypeOK, Alone, NEW r \in Slots, MonitorStep(r)
    PROVE  Alone'
<1> USE ConstantsAssumption
    DEF TypeOK, Alone, OneLauncher, NoRelaunch, Down, OneBusy,
        WakeAlone, NoWakeDue, Unlaunched, Starting, Busy, Waking,
        db, mail, progress, entry, env, runner, Actors, Launchers,
        MonAt, MonGoto, Statuses, Reasons, Sleeps
<1>1. CASE MonitorExit(r) \/ MonitorCheck(r) \/ MonitorTimeout(r)
  BY <1>1 DEF MonitorExit, MonitorCheck, MonitorTimeout
<1>2. CASE MonitorWrite(r)
  BY <1>2, GuardedFields DEF MonitorWrite
<1>3. CASE MonitorSleep(r)
  BY <1>3, SleepFields DEF MonitorSleep
<1>4. CASE MonitorExpire(r)
  BY <1>4, GuardedFields DEF MonitorExpire
<1>5. CASE MonitorCleanup(r)
  BY <1>5 DEF MonitorCleanup, CleanupContainer
<1> QED BY <1>1, <1>2, <1>3, <1>4, <1>5
   DEF MonitorStep

(* The scan's row is due, so no run is busy; the claim clears the wake     *)
(* time before the launch makes one busy.                                  *)
LEMMA WakerKeepsAlone ==
    ASSUME TypeOK, Alone, WakerStep
    PROVE  Alone'
<1> USE ConstantsAssumption
    DEF TypeOK, Alone, OneLauncher, NoRelaunch, Down, OneBusy,
        WakeAlone, NoWakeDue, Unlaunched, Starting, Busy, Waking,
        db, mail, progress, entry, env, runner, Actors, Launchers, At, Idle,
        Goto, Statuses, Reasons, Sleeps
<1>1. CASE WakeScan
  BY <1>1 DEF WakeScan, DueForWake
<1>2. CASE WakeClaim
  BY <1>2, ClaimFields DEF WakeClaim, CanClaim
<1>3. CASE WakeLaunch
  BY <1>3 DEF WakeLaunch, LaunchDetached, NextSlot, Free, GuestGoto
<1>4. CASE WakeLaunchFails
  BY <1>4 DEF WakeLaunchFails
<1>5. CASE WakeRestore
  BY <1>5, SleepFields DEF WakeRestore
<1>6. CASE WakeRegister
  BY <1>6 DEF WakeRegister, SpawnMonitor, MonGoto, RegisterContainer
<1> QED BY <1>1, <1>2, <1>3, <1>4, <1>5, <1>6
   DEF WakerStep

(* The drain sets its flag before it schedules a wake.                     *)
LEMMA DrainKeepsAlone ==
    ASSUME TypeOK, Alone, DrainStep
    PROVE  Alone'
<1> USE ConstantsAssumption
    DEF TypeOK, Alone, OneLauncher, NoRelaunch, Down, OneBusy,
        WakeAlone, NoWakeDue, Unlaunched, Starting, Busy, Waking,
        db, mail, progress, entry, env, runner, Actors, Launchers, At, Idle,
        Goto, Statuses, Reasons, Sleeps
<1>1. CASE DrainSet
  BY <1>1 DEF DrainSet
<1>2. CASE DrainList \/ DrainSignal \/ DrainWait \/ DrainStop
  BY <1>2 DEF DrainList, DrainSignal, DrainWait, DrainStop
<1>3. CASE DrainSuspend
  BY <1>3, GuardedFields DEF DrainSuspend
<1>4. CASE DrainSleep
  BY <1>4, SleepFields DEF DrainSleep
<1>5. CASE DrainedExit
  BY <1>5 DEF DrainedExit, LoseProcess, BusyPCs, StartPCs
<1> QED BY <1>1, <1>2, <1>3, <1>4, <1>5
   DEF DrainStep

(* The heartbeat monitor stops and fails what is silent, and schedules a   *)
(* wake only for a zombie.                                                 *)
LEMMA HeartbeatKeepsAlone ==
    ASSUME TypeOK, Alone, OrphansAreZombies, HeartbeatStep
    PROVE  Alone'
<1> USE ConstantsAssumption
    DEF TypeOK, Alone, OneLauncher, NoRelaunch, Down, OneBusy,
        WakeAlone, NoWakeDue, Unlaunched, Starting, Busy, Waking,
        db, mail, progress, entry, env, runner, Actors, Launchers, At, Idle,
        Goto
<1>1. CASE HeartbeatScan \/ HeartbeatList \/ HeartbeatTracked
  BY <1>1 DEF HeartbeatScan, HeartbeatList, HeartbeatTracked, StaleContainer,
       RunsSinceBeforeCutoff
<1>2. CASE HeartbeatStop \/ HeartbeatCount
  BY <1>2 DEF HeartbeatStop, HeartbeatCount
<1>3. CASE HeartbeatFail
  BY <1>3, GuardedFields DEF HeartbeatFail
<1>4. CASE HeartbeatCleanup
  BY <1>4 DEF HeartbeatCleanup, CleanupContainer
<1>5. CASE HeartbeatRecover
  <2>1. ~Waking /\ \A r \in Slots : guest[r] \notin BusyPCs
    BY <1>5 DEF HeartbeatRecover, OrphansAreZombies, Zombie, Live, BusyPCs
  <2>2. ~Starting /\ ~Starting'
    BY <1>5, RecoveredFields DEF HeartbeatRecover
  <2> QED BY <1>5, <2>1, <2>2 DEF HeartbeatRecover
<1> QED BY <1>1, <1>2, <1>3, <1>4, <1>5 DEF HeartbeatStep

(* The recovery at boot schedules a wake when no run exists; the passing   *)
(* of time adds none.                                                      *)
LEMMA BootKeepsAlone ==
    ASSUME TypeOK, Alone, Crash \/ BootStep
           \/ DeadlinePasses \/ HeartbeatElapses
    PROVE  Alone'
<1> USE ConstantsAssumption
    DEF TypeOK, Alone, OneLauncher, NoRelaunch, Down, OneBusy,
        WakeAlone, NoWakeDue, Unlaunched, Starting, Busy, Waking,
        db, mail, progress, entry, env, runner, Actors, Launchers
<1>1. CASE Crash
  BY <1>1 DEF Crash, LoseProcess, BusyPCs, StartPCs
<1>2. CASE Restart
  BY <1>2 DEF Restart
<1>3. CASE BootRecover
  BY <1>3, RecoveredFields DEF BootRecover, BusyPCs
<1>4. CASE BootCleanup
  BY <1>4 DEF BootCleanup, CleanupContainer
<1>5. CASE DeadlinePasses
  BY <1>5, SleepFields DEF DeadlinePasses
<1>6. CASE HeartbeatElapses
  BY <1>6, OlderRow DEF HeartbeatElapses
<1> QED BY <1>1, <1>2, <1>3, <1>4, <1>5, <1>6
   DEF BootStep

(* It holds before the first request.                                      *)
LEMMA InitAlone == OneLauncher /\ Init => Alone
BY ConstantsAssumption
   DEF Alone, OneLauncher, NoRelaunch, Down, OneBusy, WakeAlone,
       NoWakeDue, Unlaunched, Starting, StartPCs, Busy, BusyPCs, Waking, Init,
       AbsentRow, Actors, Launchers

(* Alone is inductive.                                                     *)
LEMMA NextKeepsAlone ==
    TypeOK /\ Alone /\ OrphansAreZombies /\ [Next]_vars => Alone'
<1> SUFFICES ASSUME TypeOK, Alone, OrphansAreZombies, [Next]_vars PROVE Alone'
  OBVIOUS
<1>1. CASE UNCHANGED vars
  BY <1>1
    DEF Alone, OneLauncher, NoRelaunch, Down, OneBusy, WakeAlone,
        NoWakeDue, Unlaunched, Starting, Busy, Waking, vars, db, mail,
        progress, entry, env, runner
<1>2. CASE Next
  BY <1>2, ClientKeepsAlone, GuestKeepsAlone, MonitorKeepsAlone,
     WakerKeepsAlone, HeartbeatKeepsAlone, DrainKeepsAlone, BootKeepsAlone
     DEF Next
<1> QED BY <1>1, <1>2

(* Whatever the clients ask for short of a resume or a custom signal, and  *)
(* whatever fails, crash, drain, time-out and lost launch included, two    *)
(* guests never execute the same instance at the same time: the claim and  *)
(* the order of the statements around it suffice.                          *)
THEOREM GuestsRunAlone ==
    OneLauncher /\ Spec /\ []OrphansAreZombies => []OneGuest
<1>1. Alone => OneGuest
  BY DEF Alone, OneBusy, Busy, BusyPCs, GuestPCs, OneGuest, Executing
<1> QED BY <1>1, InitAlone, TypeCorrect, NextKeepsAlone, PTL DEF Spec

(***************************************************************************)
(* Completed is final                                                      *)
(***************************************************************************)
(* The hypothesis CompletedIsFinal needs besides: handle_stop_instance     *)
(* cancels whatever row it finds once it has seen the registry entry.      *)
NoStop == "stop" \notin Commands

(* A completed row has no busy run and no wake on its way: all that could  *)
(* still write it unguarded.                                               *)
Finished ==
    /\ NoStop
    /\ \A c \in Clients :
          pc[c] \notin {"stop.kill", "stop.complete", "stop.cleanup"}
    /\ row.status = "completed" => ~Waking /\ \A r \in Slots : ~Busy(r)

(* The step CompletedIsFinal allows.                                       *)
StaysFinished ==
    row.status = "completed" /\ ~StartInFlight => row'.status = "completed"

(* No request writes a completed row, except the start request that is     *)
(* still in flight.                                                        *)
LEMMA ClientKeepsFinished ==
    ASSUME TypeOK, Alone, Finished, NEW c \in Clients, ClientStep(c)
    PROVE  Finished' /\ StaysFinished
<1> USE ConstantsAssumption
    DEF TypeOK, Alone, OneLauncher, NoRelaunch, Unlaunched, Starting,
        Finished, NoStop, StaysFinished, StartInFlight, Busy, Waking,
        db, mail, progress, entry, env, runner, Actors, Launchers, At, Idle,
        Goto
<1>1. CASE StartCheck(c) \/ StartRegister(c)
  BY <1>1 DEF StartCheck, StartRegister
<1>2. CASE StartInsert(c)
  BY <1>2, NewRow DEF StartInsert
<1>3. CASE StartLaunch(c)
  BY <1>3 DEF StartLaunch, LaunchDetached
<1>4. CASE StartLaunchFails(c)
  BY <1>4, CompleteFields DEF StartLaunchFails
<1>5. CASE StartRunning(c)
  BY <1>5, StartedRow DEF StartRunning
<1>6. CASE StopCheck(c) \/ StopKill(c) \/ StopComplete(c) \/ StopCleanup(c)
  BY <1>6 DEF StopCheck, StopKill, StopComplete, StopCleanup
<1>7. CASE \E s \in LifecycleSignals : SendCheck(c, s) \/ SendInsert(c, s)
  BY <1>7 DEF SendCheck, SendInsert, SendPC, LifecycleSignals
<1>8. CASE \/ ResumeCheck(c) \/ ResumeCleanup(c) \/ ResumeRunning(c)
           \/ ResumeClear(c) \/ ResumeLaunch(c) \/ ResumeLaunchFails(c)
           \/ ResumeRegister(c)
           \/ CustomInsert(c) \/ CustomWakeCheck(c) \/ CustomStamp(c)
  BY <1>8 DEF ResumeCheck, ResumeCleanup, ResumeRunning, ResumeClear,
        ResumeLaunch, ResumeLaunchFails, ResumeRegister, CustomInsert,
        CustomWakeCheck, CustomStamp
<1> QED BY <1>1, <1>2, <1>3, <1>4, <1>5, <1>6, <1>7, <1>8 DEF ClientStep

(* Only the run that completes the row is busy, and no longer once it has. *)
LEMMA GuestKeepsFinished ==
    ASSUME TypeOK, Alone, Finished, NEW r \in Slots, GuestStep(r)
    PROVE  Finished' /\ StaysFinished
<1> USE DEF TypeOK, Alone, OneBusy, WakeAlone, Finished, NoStop,
        StaysFinished, Busy, BusyPCs, Waking,
        db, mail, progress, entry, env, runner, GuestAt, GuestGoto, GuestPCs
<1>1. CASE GuestStart(r)
  BY <1>1, StatusFields DEF GuestStart
<1>2. CASE GuestDies(r) \/ GuestExit(r) \/ GuestAck(r)
  BY <1>2 DEF GuestDies, Interruptible, GuestExit, GuestAck, AckNext
<1>3. CASE GuestHeartbeat(r) \/ GuestRetry(r) \/ GuestReadsSignal(r)
  BY <1>3 DEF GuestHeartbeat, GuestRetry, GuestReadsSignal
<1>4. CASE GuestCheckpoint(r) \/ GuestDurableSleep(r) \/ GuestSave(r)
  BY <1>4 DEF GuestCheckpoint, GuestDurableSleep, GuestSave
<1>5. CASE GuestPoll(r) \/ GuestBreakpoint(r) \/ GuestSuspends(r)
  BY <1>5 DEF GuestPoll, AckPC, GuestBreakpoint, GuestSuspends
<1>6. CASE GuestApplyCancel(r) \/ GuestApplyShutdown(r)
  BY <1>6, CompleteFields DEF GuestApplyCancel, GuestApplyShutdown
<1>7. CASE GuestApplyPause(r)
  BY <1>7, StatusFields DEF GuestApplyPause
<1>8. CASE GuestShutdownSleep(r) \/ GuestParkSleep(r)
  BY <1>8, SleepFields DEF GuestShutdownSleep, GuestParkSleep
<1>9. CASE GuestSuspendedEvent(r)
  BY <1>9, GuardedFields DEF GuestSuspendedEvent
<1>10. CASE \E s \in {"completed", "failed"} : GuestReports(r, s)
  BY <1>10, GuardedFields DEF GuestReports
<1>11. CASE GuestPark(r)
  BY <1>11, GuardedFields DEF GuestPark, Applies
<1> QED BY <1>1, <1>2, <1>3, <1>4, <1>5, <1>6, <1>7, <1>8, <1>9, <1>10, <1>11
   DEF GuestStep, GuestChooses, HostWorks

(* Monitors, drain and time-outs write through the guard, boot leaves a    *)
(* settled row alone, and the scan wants a suspended one.                  *)
LEMMA OthersKeepFinished ==
    ASSUME TypeOK, Alone, Finished, OrphansAreZombies,
           \/ \E r \in Slots : MonitorStep(r)
           \/ WakerStep \/ HeartbeatStep \/ DrainStep \/ Crash \/ BootStep
           \/ DeadlinePasses \/ HeartbeatElapses \/ UNCHANGED vars
    PROVE  Finished' /\ StaysFinished
<1> USE ConstantsAssumption
    DEF TypeOK, Alone, OneLauncher, WakeAlone, Finished, NoStop,
        StaysFinished, Busy, Waking,
        db, mail, progress, entry, env, runner, Actors, Launchers, At, Idle,
        Goto
<1>1. CASE \E r \in Slots : MonitorStep(r)
  BY <1>1, GuardedFields, SleepFields
     DEF MonitorStep, MonitorExit, MonitorCheck, MonitorWrite, MonitorSleep,
         MonitorTimeout, MonitorExpire, MonitorCleanup
<1>2. CASE WakeScan \/ WakeClaim \/ WakeRestore
  BY <1>2, ClaimFields, SleepFields
     DEF WakeScan, WakeClaim, WakeRestore, DueForWake, CanClaim
<1>3. CASE WakeLaunch \/ WakeLaunchFails \/ WakeRegister
  BY <1>3 DEF WakeLaunch, LaunchDetached, WakeLaunchFails, WakeRegister
<1>4. CASE HeartbeatStep
  <2>1. CASE HeartbeatRecover
    <3>1. /\ ~Waking /\ row.status = "running"
          /\ \A r \in Slots : guest[r] = "unused"
      BY <2>1 DEF HeartbeatRecover, OrphansAreZombies, Zombie, Live
    <3> QED BY <2>1, <3>1, RecoveredFields DEF HeartbeatRecover, BusyPCs
  <2>2. CASE HeartbeatFail
    BY <2>2, GuardedFields DEF HeartbeatFail
  <2> QED BY <1>4, <2>1, <2>2
       DEF HeartbeatStep, HeartbeatScan, HeartbeatList, HeartbeatTracked,
           HeartbeatStop, HeartbeatCleanup, HeartbeatCount
<1>5. CASE DrainSet \/ DrainList \/ DrainSignal \/ DrainWait \/ DrainStop
  BY <1>5 DEF DrainSet, DrainList, DrainSignal, DrainWait, DrainStop
<1>6. CASE DrainSuspend \/ DrainSleep
  BY <1>6, GuardedFields, SleepFields DEF DrainSuspend, DrainSleep
<1>7. CASE DrainedExit \/ Crash
  BY <1>7 DEF DrainedExit, Crash, LoseProcess, BusyPCs
<1>8. CASE Restart \/ BootCleanup \/ UNCHANGED vars
  BY <1>8 DEF Restart, BootCleanup, vars
<1>9. CASE BootRecover
  BY <1>9, RecoveredFields DEF BootRecover, SettledStatuses
<1>10. CASE DeadlinePasses
  BY <1>10, SleepFields DEF DeadlinePasses
<1>11. CASE HeartbeatElapses
  BY <1>11, OlderRow DEF HeartbeatElapses
<1> QED BY <1>1, <1>2, <1>3, <1>4, <1>5, <1>6, <1>7, <1>8, <1>9, <1>10, <1>11
   DEF WakerStep, DrainStep, BootStep

(* Finished is inductive, and every step stays in completed.               *)
LEMMA NextKeepsFinished ==
    TypeOK /\ Alone /\ Finished /\ OrphansAreZombies /\ [Next]_vars
        => Finished' /\ StaysFinished
BY ClientKeepsFinished, GuestKeepsFinished, OthersKeepFinished DEF Next

(* Unless a stop request overwrites it, completed is final: no relaunch,   *)
(* no late monitor, no drain, crash or recovery moves the instance out of  *)
(* it.                                                                     *)
THEOREM CompletedStays ==
    OneLauncher /\ NoStop /\ Spec /\ []OrphansAreZombies => CompletedIsFinal
<1>1. NoStop /\ Init => Finished
  BY DEF Init, Finished, AbsentRow, Actors, Launchers
<1>2. TypeOK /\ Alone /\ Finished /\ OrphansAreZombies /\ [Next]_vars
        => [row.status = "completed" /\ ~StartInFlight
              => row'.status = "completed"]_vars
  BY NextKeepsFinished DEF StaysFinished
<1> QED BY <1>1, <1>2, InitAlone, TypeCorrect, NextKeepsAlone,
     NextKeepsFinished, PTL DEF Spec, CompletedIsFinal

(***************************************************************************)
(* A pause holds                                                           *)
(***************************************************************************)
(* The hypothesis PauseHolds needs besides: the second statement of a      *)
(* forced drain stamps a wake time on a row that a pause has suspended     *)
(* since the first.                                                        *)
NoDrain == "drain" \notin Hazards

(* A paused row has no wake time, and nobody is left who would give it     *)
(* one. (Paused but cancelled or failed is possible; running again is      *)
(* not.)                                                                   *)
Held ==
    /\ NoDrain /\ ~draining /\ pc["drainer"] = "idle"
    /\ paused => /\ row.status \notin {"absent", "pending", "running"}
                 /\ row.sleep = "none"
                 /\ ~Waking /\ \A r \in Slots : ~Busy(r)

(* The step PauseHolds allows.                                             *)
StaysHeld ==
    paused /\ row.status = "suspended" /\ row'.status = "suspended"
    /\ row.sleep = "none" => row'.sleep = "none"

(* Only the start request in flight touches a paused row, and unpauses it. *)
LEMMA ClientKeepsHeld ==
    ASSUME TypeOK, Alone, Held, NEW c \in Clients, ClientStep(c)
    PROVE  Held' /\ StaysHeld
<1> USE ConstantsAssumption
    DEF TypeOK, Alone, OneLauncher, NoRelaunch, Unlaunched, Starting,
        Held, NoDrain, StaysHeld, Busy, Waking,
        db, mail, progress, entry, env, runner, Actors, Launchers, At, Idle,
        Goto
<1>1. CASE StartCheck(c) \/ StartRegister(c)
  BY <1>1 DEF StartCheck, StartRegister
<1>2. CASE StartInsert(c)
  BY <1>2, NewRow DEF StartInsert
<1>3. CASE StartLaunch(c)
  BY <1>3 DEF StartLaunch, LaunchDetached, GuestGoto
<1>4. CASE StartLaunchFails(c) \/ StopComplete(c)
  BY <1>4, CompleteFields DEF StartLaunchFails, StopComplete
<1>5. CASE StartRunning(c)
  BY <1>5, StartedRow DEF StartRunning
<1>6. CASE StopCheck(c) \/ StopKill(c) \/ StopCleanup(c)
  BY <1>6 DEF StopCheck, StopKill, StopCleanup
<1>7. CASE \E s \in LifecycleSignals : SendCheck(c, s) \/ SendInsert(c, s)
  BY <1>7 DEF SendCheck, SendInsert, SendPC, LifecycleSignals
<1>8. CASE \/ ResumeCheck(c) \/ ResumeCleanup(c) \/ ResumeRunning(c)
           \/ ResumeClear(c) \/ ResumeLaunch(c) \/ ResumeLaunchFails(c)
           \/ ResumeRegister(c)
           \/ CustomInsert(c) \/ CustomWakeCheck(c) \/ CustomStamp(c)
  BY <1>8 DEF ResumeCheck, ResumeCleanup, ResumeRunning, ResumeClear,
        ResumeLaunch, ResumeLaunchFails, ResumeRegister, CustomInsert,
        CustomWakeCheck, CustomStamp
<1> QED BY <1>1, <1>2, <1>3, <1>4, <1>5, <1>6, <1>7, <1>8 DEF ClientStep

(* The pausing run was the busy one, so the row had no wake time and       *)
(* nobody is left to set one.                                              *)
LEMMA GuestKeepsHeld ==
    ASSUME TypeOK, Alone, Held, NEW r \in Slots, GuestStep(r)
    PROVE  Held' /\ StaysHeld
<1> USE DEF TypeOK, Alone, OneBusy, WakeAlone, NoWakeDue, Held, NoDrain,
        StaysHeld, Busy, BusyPCs, Waking,
        db, mail, progress, entry, env, runner, GuestAt, GuestGoto, GuestPCs
<1>1. CASE GuestStart(r)
  BY <1>1, StatusFields DEF GuestStart
<1>2. CASE GuestDies(r) \/ GuestExit(r) \/ GuestAck(r)
  BY <1>2 DEF GuestDies, Interruptible, GuestExit, GuestAck, AckNext
<1>3. CASE GuestHeartbeat(r) \/ GuestRetry(r) \/ GuestReadsSignal(r)
  BY <1>3 DEF GuestHeartbeat, GuestRetry, GuestReadsSignal
<1>4. CASE GuestCheckpoint(r) \/ GuestDurableSleep(r) \/ GuestSave(r)
  BY <1>4 DEF GuestCheckpoint, GuestDurableSleep, GuestSave
<1>5. CASE GuestPoll(r) \/ GuestBreakpoint(r) \/ GuestSuspends(r)
  BY <1>5 DEF GuestPoll, AckPC, GuestBreakpoint, GuestSuspends
<1>6. CASE GuestApplyCancel(r) \/ GuestApplyShutdown(r)
  BY <1>6, CompleteFields DEF GuestApplyCancel, GuestApplyShutdown
<1>7. CASE GuestApplyPause(r)
  BY <1>7, StatusFields DEF GuestApplyPause
<1>8. CASE GuestShutdownSleep(r) \/ GuestParkSleep(r)
  BY <1>8, SleepFields DEF GuestShutdownSleep, GuestParkSleep
<1>9. CASE GuestSuspendedEvent(r)
  BY <1>9, GuardedFields DEF GuestSuspendedEvent
<1>10. CASE \E s \in {"completed", "failed"} : GuestReports(r, s)
  BY <1>10, GuardedFields DEF GuestReports
<1>11. CASE GuestPark(r)
  BY <1>11, GuardedFields DEF GuestPark, Applies, ParkMarker
<1> QED BY <1>1, <1>2, <1>3, <1>4, <1>5, <1>6, <1>7, <1>8, <1>9, <1>10, <1>11
   DEF GuestStep, GuestChooses, HostWorks

(* Without a drain no monitor schedules a wake; boot leaves the row alone. *)
LEMMA OthersKeepHeld ==
    ASSUME TypeOK, Alone, Held, OrphansAreZombies,
           \/ \E r \in Slots : MonitorStep(r)
           \/ WakerStep \/ HeartbeatStep \/ DrainStep \/ Crash \/ BootStep
           \/ DeadlinePasses \/ HeartbeatElapses \/ UNCHANGED vars
    PROVE  Held' /\ StaysHeld
<1> USE ConstantsAssumption
    DEF TypeOK, Alone, OneLauncher, WakeAlone, Down, Held, NoDrain,
        StaysHeld, Busy, Waking,
        db, mail, progress, entry, env, runner, Actors, Launchers, At, Idle,
        Goto
<1>1. CASE \E r \in Slots : MonitorStep(r)
  BY <1>1, GuardedFields, SleepFields
     DEF MonitorStep, MonitorExit, MonitorCheck, MonitorWrite, MonitorSleep,
         MonitorTimeout, MonitorExpire, MonitorCleanup
<1>2. CASE WakeScan \/ WakeClaim \/ WakeRestore
  BY <1>2, ClaimFields, SleepFields
     DEF WakeScan, WakeClaim, WakeRestore, DueForWake, CanClaim
<1>3. CASE WakeLaunch \/ WakeLaunchFails \/ WakeRegister
  BY <1>3 DEF WakeLaunch, LaunchDetached, WakeLaunchFails, WakeRegister,
       GuestGoto
<1>4. CASE HeartbeatStep
  <2>1. CASE HeartbeatRecover
    <3>1. /\ ~Waking /\ row.status = "running"
          /\ \A r \in Slots : guest[r] = "unused"
      BY <2>1 DEF HeartbeatRecover, OrphansAreZombies, Zombie, Live
    <3> QED BY <2>1, <3>1, RecoveredFields DEF HeartbeatRecover, BusyPCs
  <2>2. CASE HeartbeatFail
    BY <2>2, GuardedFields DEF HeartbeatFail
  <2> QED BY <1>4, <2>1, <2>2
       DEF HeartbeatStep, HeartbeatScan, HeartbeatList, HeartbeatTracked,
           HeartbeatStop, HeartbeatCleanup, HeartbeatCount
<1>5. CASE DrainStep
  BY <1>5 DEF DrainStep, DrainSet, DrainList, DrainSignal, DrainWait,
       DrainStop, DrainSuspend, DrainSleep, DrainedExit
<1>6. CASE Crash
  BY <1>6 DEF Crash, LoseProcess, BusyPCs
<1>7. CASE Restart \/ BootCleanup \/ UNCHANGED vars
  BY <1>7 DEF Restart, BootCleanup, vars
<1>8. CASE BootRecover
  <2>1. row.status \in Statuses
    BY DEF Rows
  <2> QED BY <1>8, <2>1 DEF BootRecover, SettledStatuses, Statuses
<1>9. CASE DeadlinePasses
  BY <1>9, SleepFields DEF DeadlinePasses
<1>10. CASE HeartbeatElapses
  BY <1>10, OlderRow DEF HeartbeatElapses
<1> QED BY <1>1, <1>2, <1>3, <1>4, <1>5, <1>6, <1>7, <1>8, <1>9, <1>10
   DEF WakerStep, BootStep

(* Held is inductive, and no step schedules a wake for a paused row.       *)
LEMMA NextKeepsHeld ==
    TypeOK /\ Alone /\ Held /\ OrphansAreZombies /\ [Next]_vars
        => Held' /\ StaysHeld
BY ClientKeepsHeld, GuestKeepsHeld, OthersKeepHeld DEF Next

(* Nothing is paused at first.                                             *)
LEMMA InitHeld == NoDrain /\ Init => Held
BY DEF Init, Held, Actors, Launchers

(* Unless the process drains, nobody schedules a wake for an instance its  *)
(* operator paused, over crashes and restarts too.                         *)
THEOREM PauseIsKept ==
    OneLauncher /\ NoDrain /\ Spec /\ []OrphansAreZombies => PauseHolds
<1>1. TypeOK /\ Alone /\ Held /\ OrphansAreZombies /\ [Next]_vars
        => [paused /\ row.status = "suspended" /\ row'.status = "suspended"
            /\ row.sleep = "none" => row'.sleep = "none"]_vars
  BY NextKeepsHeld DEF StaysHeld
<1> QED BY <1>1, InitHeld, InitAlone, TypeCorrect, NextKeepsAlone,
     NextKeepsHeld, PTL DEF Spec, PauseHolds

(***************************************************************************)
(* No instance is stranded                                                 *)
(***************************************************************************)
(* The hypotheses NeverStranded needs besides: no statement of a suspend   *)
(* is cut off from the next by a crash, and a claimed instance that        *)
(* launches loads.                                                         *)
NoLoss == "crash" \notin Hazards /\ "load_error" \notin Hazards

ShutdownPCs == {"shutdown.ack", "shutdown.apply", "shutdown.sleep",
                "shutdown.event"}

(* Without a drain no guest is told to shut down.                          *)
NoShutdown ==
    /\ phase = "up" /\ signal # "shutdown"
    /\ \A r \in Slots : guest[r] \notin ShutdownPCs

(* A run that has paused the row and not yet sent its suspended event      *)
(* finds either the paused row or one the start request has meanwhile set  *)
(* to running, with the reason cleared: its event never re-suspends a row  *)
(* that carries the reason of an earlier sleep.                            *)
PauseEnds ==
    (\E r \in Slots : guest[r] = "pause.event") =>
        /\ row.sleep = "none"
        /\ row.status = "running" => row.term = "none"
        /\ ~Waking /\ \A r \in Slots : ~Busy(r)

(* The row NeverStranded is about, without a wake time.                    *)
Overdue ==
    /\ row.status = "suspended" /\ ~paused /\ row.sleep = "none"
    /\ row.term \in {"sleeping", "shutdown_requested", "environment_restart"}

(* Whoever took the wake time away, or has yet to set it, is at work.      *)
WillRunOrPark ==
    \/ \E r \in Slots : guest[r] \in {"spawned", "park.sleep"}
    \/ pc["waker"] \in {"wake.launch", "wake.restore"}

(* The inductive strengthening of NeverStranded.                           *)
Promised ==
    /\ NoLoss /\ NoShutdown /\ PauseEnds
    /\ Overdue => WillRunOrPark

(* The start request in flight sets the row to running and clears the      *)
(* reason; the others leave wake time and reason alone.                    *)
LEMMA ClientKeepsPromised ==
    ASSUME TypeOK, Alone, Held, Promised, NEW c \in Clients, ClientStep(c)
    PROVE  Promised'
<1> USE ConstantsAssumption
    DEF TypeOK, Alone, OneLauncher, NoRelaunch, Unlaunched, Starting,
        Held, NoDrain, Promised, NoLoss, NoShutdown,
        ShutdownPCs, PauseEnds, Overdue, WillRunOrPark, Busy, Waking,
        db, mail, progress, entry, env, runner, Actors, Launchers, At, Idle,
        Goto
<1>1. CASE StartCheck(c) \/ StartRegister(c)
  BY <1>1 DEF StartCheck, StartRegister
<1>2. CASE StartInsert(c)
  BY <1>2, NewRow DEF StartInsert
<1>3. CASE StartLaunch(c)
  BY <1>3 DEF StartLaunch, LaunchDetached, GuestGoto
<1>4. CASE StartLaunchFails(c) \/ StopComplete(c)
  BY <1>4, CompleteFields DEF StartLaunchFails, StopComplete
<1>5. CASE StartRunning(c)
  BY <1>5, StartedRow DEF StartRunning
<1>6. CASE StopCheck(c) \/ StopKill(c) \/ StopCleanup(c)
  BY <1>6 DEF StopCheck, StopKill, StopCleanup
<1>7. CASE \E s \in LifecycleSignals : SendCheck(c, s) \/ SendInsert(c, s)
  BY <1>7 DEF SendCheck, SendInsert, SendPC, LifecycleSignals
<1>8. CASE \/ ResumeCheck(c) \/ ResumeCleanup(c) \/ ResumeRunning(c)
           \/ ResumeClear(c) \/ ResumeLaunch(c) \/ ResumeLaunchFails(c)
           \/ ResumeRegister(c)
           \/ CustomInsert(c) \/ CustomWakeCheck(c) \/ CustomStamp(c)
  BY <1>8 DEF ResumeCheck, ResumeCleanup, ResumeRunning, ResumeClear,
        ResumeLaunch, ResumeLaunchFails, ResumeRegister, CustomInsert,
        CustomWakeCheck, CustomStamp
<1> QED BY <1>1, <1>2, <1>3, <1>4, <1>5, <1>6, <1>7, <1>8 DEF ClientStep

(* A park that suspends the row goes on to set the wake time; a launched   *)
(* run sets the row to running.                                            *)
LEMMA GuestKeepsPromised ==
    ASSUME TypeOK, Alone, Held, Promised, NEW r \in Slots, GuestStep(r)
    PROVE  Promised'
<1> USE DEF TypeOK, Alone, OneBusy, WakeAlone, NoWakeDue, Held, NoDrain,
        Promised, NoLoss, NoShutdown, ShutdownPCs, PauseEnds, Overdue,
        WillRunOrPark, Busy, BusyPCs, Waking,
        db, mail, progress, entry, env, runner, GuestAt, GuestGoto, GuestPCs
<1>1. CASE GuestStart(r)
  BY <1>1, StatusFields DEF GuestStart
<1>2. CASE GuestDies(r) \/ GuestExit(r) \/ GuestAck(r)
  BY <1>2 DEF GuestDies, Interruptible, GuestExit, GuestAck, AckNext
<1>3. CASE GuestHeartbeat(r) \/ GuestRetry(r) \/ GuestReadsSignal(r)
  BY <1>3 DEF GuestHeartbeat, GuestRetry, GuestReadsSignal
<1>4. CASE GuestCheckpoint(r) \/ GuestDurableSleep(r) \/ GuestSave(r)
  BY <1>4 DEF GuestCheckpoint, GuestDurableSleep, GuestSave
<1>5. CASE GuestPoll(r) \/ GuestBreakpoint(r) \/ GuestSuspends(r)
  BY <1>5 DEF GuestPoll, AckPC, GuestBreakpoint, GuestSuspends
<1>6. CASE GuestApplyCancel(r) \/ GuestApplyShutdown(r)
  BY <1>6, CompleteFields DEF GuestApplyCancel, GuestApplyShutdown
<1>7. CASE GuestApplyPause(r)
  BY <1>7, StatusFields DEF GuestApplyPause
<1>8. CASE GuestShutdownSleep(r) \/ GuestParkSleep(r)
  BY <1>8, SleepFields DEF GuestShutdownSleep, GuestParkSleep
<1>9. CASE GuestSuspendedEvent(r)
  BY <1>9, GuardedFields DEF GuestSuspendedEvent
<1>10. CASE \E s \in {"completed", "failed"} : GuestReports(r, s)
  BY <1>10, GuardedFields DEF GuestReports
<1>11. CASE GuestPark(r)
  BY <1>11, GuardedFields DEF GuestPark, Applies, ParkMarker
<1> QED BY <1>1, <1>2, <1>3, <1>4, <1>5, <1>6, <1>7, <1>8, <1>9, <1>10, <1>11
   DEF GuestStep, GuestChooses, HostWorks

(* The claim leads to the launch, or to the restore of the wake time.      *)
LEMMA OthersKeepPromised ==
    ASSUME TypeOK, Alone, Held, Promised, OrphansAreZombies,
           \/ \E r \in Slots : MonitorStep(r)
           \/ WakerStep \/ HeartbeatStep \/ DrainStep \/ Crash \/ BootStep
           \/ DeadlinePasses \/ HeartbeatElapses \/ UNCHANGED vars
    PROVE  Promised'
<1> USE ConstantsAssumption
    DEF TypeOK, Alone, OneLauncher, WakeAlone, Down, Held, NoDrain,
        Promised, NoLoss, NoShutdown, ShutdownPCs, PauseEnds, Overdue,
        WillRunOrPark, Busy, Waking,
        db, mail, progress, entry, env, runner, Actors, Launchers, At, Idle,
        Goto
<1>1. CASE \E r \in Slots : MonitorStep(r)
  BY <1>1, GuardedFields, SleepFields
     DEF MonitorStep, MonitorExit, MonitorCheck, MonitorWrite, MonitorSleep,
         MonitorTimeout, MonitorExpire, MonitorCleanup
<1>2. CASE WakeScan \/ WakeClaim \/ WakeRestore
  BY <1>2, ClaimFields, SleepFields
     DEF WakeScan, WakeClaim, WakeRestore, DueForWake, CanClaim
<1>3. CASE WakeLaunch \/ WakeLaunchFails \/ WakeRegister
  BY <1>3 DEF WakeLaunch, LaunchDetached, WakeLaunchFails, WakeRegister,
       GuestGoto
<1>4. CASE HeartbeatStep
  <2>1. CASE HeartbeatRecover
    <3>1. /\ ~Waking /\ row.status = "running"
          /\ \A r \in Slots : guest[r] = "unused"
      BY <2>1 DEF HeartbeatRecover, OrphansAreZombies, Zombie, Live
    <3> QED BY <2>1, <3>1, RecoveredFields DEF HeartbeatRecover, BusyPCs
  <2>2. CASE HeartbeatFail
    BY <2>2, GuardedFields DEF HeartbeatFail
  <2> QED BY <1>4, <2>1, <2>2
       DEF HeartbeatStep, HeartbeatScan, HeartbeatList, HeartbeatTracked,
           HeartbeatStop, HeartbeatCleanup, HeartbeatCount
<1>5. CASE DrainStep
  BY <1>5 DEF DrainStep, DrainSet, DrainList, DrainSignal, DrainWait,
       DrainStop, DrainSuspend, DrainSleep, DrainedExit
<1>6. CASE Crash
  BY <1>6 DEF Crash, LoseProcess, BusyPCs
<1>7. CASE Restart \/ BootCleanup \/ UNCHANGED vars
  BY <1>7 DEF Restart, BootCleanup, vars
<1>8. CASE BootRecover
  BY <1>8, RecoveredFields DEF BootRecover, SettledStatuses
<1>9. CASE DeadlinePasses
  BY <1>9, SleepFields DEF DeadlinePasses
<1>10. CASE HeartbeatElapses
  BY <1>10, OlderRow DEF HeartbeatElapses
<1> QED BY <1>1, <1>2, <1>3, <1>4, <1>5, <1>6, <1>7, <1>8, <1>9, <1>10
   DEF WakerStep, BootStep

(* Promised is inductive.                                                  *)
LEMMA NextKeepsPromised ==
    TypeOK /\ Alone /\ Held /\ Promised /\ OrphansAreZombies /\ [Next]_vars
        => Promised'
BY ClientKeepsPromised, GuestKeepsPromised, OthersKeepPromised DEF Next

(* As long as the process stays up and launched components load, an        *)
(* instance that went to sleep always has a wake time or someone about to  *)
(* run it, whatever launches fail, guests trap, runs time out and clients  *)
(* stop, cancel or pause.                                                  *)
THEOREM NobodyIsStranded ==
    OneLauncher /\ NoDrain /\ NoLoss /\ Spec /\ []OrphansAreZombies
        => []NeverStranded
<1>1. NoLoss /\ Init => Promised
  BY DEF Init, Promised, NoShutdown, ShutdownPCs, PauseEnds, Overdue, AbsentRow
<1>2. Promised => NeverStranded
  BY DEF Promised, Overdue, WillRunOrPark, NeverStranded, InCharge, Live
<1> QED BY <1>1, <1>2, InitHeld, InitAlone, TypeCorrect, NextKeepsAlone,
     NextKeepsHeld, NextKeepsPromised, PTL DEF Spec
=============================================================================
