-------------------------- MODULE AppListServerProofs --------------------------
(***************************************************************************)
(* Safety of the server's composition, for any locations, any sessions and *)
(* watchers, with or without icon loading, and any number of disturbances. *)
(***************************************************************************)
EXTENDS AppListServer, TLAPS

(* Until the list is populated the server observes it, and the scan that     *)
(* will populate it is at work or due, whatever stops and restarts it.       *)
PopulationToCome == ~FirstScanComplete => iObserver /\ WorkToCome

(* A client waits on a changed list only until the scan that found the       *)
(* change, which the server observes, tells of it.                           *)
StaleWillBeTold ==
    stale # {} => \/ iObserver /\ "EAppListHasChanged" \in iFlags /\ WorkToCome
                  \/ "Flag" \in missed

(* A change that the scan at work may miss, and one that no scan at work     *)
(* can find, is notified or about to be.                                     *)
ChangesImpend ==
    /\ "during" \in unseen => AnyNotificationImpending \/ Overlooked
    /\ scan = "Icons" /\ unseen # {} => AnyNotificationImpending \/ Overlooked
    /\ scan = "None" /\ unseen # {} =>
           AnyNotificationImpending \/ RestartDue \/ Overlooked

ServerInv ==
    /\ TypeOK
    /\ PopulationToCome
    /\ BlockedForAReason
    /\ WaitersAreServed
    /\ StaleWillBeTold
    /\ ChangesImpend

(* The steps of the server, its clients and the phone, one by one.           *)
LEMMA StepCases ==
    ASSUME [Next]_vars
    PROVE  \/ NotifierRunL \/ StopTimer \/ CallBack
           \/ ScanFinds \/ PurgeLeaves \/ ScanEnds \/ ScanGivesUp \/ IconsLoaded
           \/ UninstallRunL \/ UninstallRunLError
           \/ \E b \in {"None", "Running", "Aborted"} : BackupEvent(b)
           \/ \E b \in BOOLEAN : SetUninstalling(b)
           \/ \E s \in Sessions :
                 \/ Asks(s) \/ Disconnect(s) \/ ForceRegistration(s)
                 \/ Prepare(s) \/ Abort(s) \/ CommitFails(s)
           \/ \E s \in Sessions, force \in BOOLEAN : Commit(s, force)
           \/ \E l \in Locs : FsChange(l)
           \/ UNCHANGED vars
<1> USE DEF Quiet
<1>1. CASE Quiet(ServerStep)
  BY <1>1 DEF ServerStep
<1>2. CASE Quiet(SetUninstalling(FALSE))
  BY <1>2
<1>3. CASE Quiet(BackupEnds)
  BY <1>3 DEF BackupEnds
<1>4. CASE \E s \in Sessions : Quiet(BatchEnds(s))
  BY <1>4 DEF BatchEnds
<1>5. CASE \E s \in Watchers : Quiet(Asks(s))
  BY <1>5, ServerAssumption
<1>6. CASE Disturbs
  BY <1>6 DEF Disturbs
<1>7. CASE UNCHANGED vars
  BY <1>7
<1> QED
  BY <1>1, <1>2, <1>3, <1>4, <1>5, <1>6, <1>7 DEF Next

(* What a client asks for changes nothing but what its session keeps, and    *)
(* makes nobody wait for a scan.                                             *)
LEMMA AsksLeave ==
    ASSUME NEW s \in Sessions, Asks(s)
    PROVE  /\ UNCHANGED <<monitorVars, listVars, swisVars>>
           /\ UNCHANGED <<backup, iNonNativeApplicationsUpdateAppsLock>>
           /\ iNotifyOnScanCompleteMsg' \subseteq iNotifyOnScanCompleteMsg
BY DEF Asks, SetNotify, ReadList, CancelNotify, RegisterListPopulationCompleteObserver,
       CancelListPopulationCompleteObserver, clientVars, messageVars, NotifyClients

(* The server as constructed satisfies the invariant, however the list is    *)
(* restored or its first scan is started.                                    *)
LEMMA InitServerInv == Init => ServerInv
<1> SUFFICES ASSUME Init PROVE ServerInv
  OBVIOUS
<1>1. Monitor!TypeOK
  <2>1. notifier \in [Locs -> Monitor!NotifierState] /\ owed \in [Locs -> BOOLEAN]
    BY DEF Init, Monitor!NotifierState
  <2>2. iFsHasChanged \in BOOLEAN /\ iIsBlocked \in BOOLEAN /\ timerOn \in BOOLEAN
    BY Zenon DEF Init
  <2> QED
    BY <2>1, <2>2 DEF Monitor!TypeOK, Monitor!LongestDelay
<1>2. ListTypeOK
  BY DEF Init, ListTypeOK
<1>3. SessionTypeOK /\ disturbances \in 0 .. MaxDisturbances
  BY ServerAssumption DEF Init, SessionTypeOK
<1>4. PopulationToCome /\ BlockedForAReason /\ WaitersAreServed /\ StaleWillBeTold
  BY DEF Init, PopulationToCome, BlockedForAReason, WaitersAreServed, StaleWillBeTold,
         FirstScanComplete, WorkToCome, ScanMissing
<1>5. ChangesImpend
  BY DEF Init, ChangesImpend, Overlooked
<1> QED
  BY <1>1, <1>2, <1>3, <1>4, <1>5 DEF ServerInv, TypeOK

(* Every disturbance is counted, and none is made beyond the bound.          *)
LEMMA NextBound ==
    disturbances \in 0 .. MaxDisturbances /\ [Next]_vars
        => disturbances' \in 0 .. MaxDisturbances
<1>1. ASSUME [Next]_vars
      PROVE  \/ disturbances' = disturbances
             \/ disturbances < MaxDisturbances /\ disturbances' = disturbances + 1
  BY <1>1, Zenon DEF Next, Quiet, vars
<1> QED
  BY <1>1, ServerAssumption

(* The monitor's variables keep their types.                                 *)
LEMMA NextMonitorType ==
    Monitor!TypeOK /\ [Next]_vars => Monitor!TypeOK'
<1> SUFFICES ASSUME Monitor!TypeOK, [Next]_vars PROVE Monitor!TypeOK'
  OBVIOUS
<1> USE DEF Monitor!TypeOK, Monitor!NotifierState, Monitor!LongestDelay, monitorVars,
            listVars, swisVars, clientVars, messageVars
<1>1. CASE NotifierRunL
  BY <1>1 DEF NotifierRunL, Monitor!NotifierRunL, Monitor!StartTimerIfOff
<1>2. CASE StopTimer
  BY <1>2 DEF StopTimer, Monitor!StopTimer
<1>3. CASE CallBack
  BY <1>3 DEF CallBack, Monitor!CallBack, Monitor!DoStart
<1>4. CASE ScanFinds \/ PurgeLeaves
  BY <1>4 DEF ScanFinds, PurgeLeaves, ListChanges
<1>5. CASE ScanEnds
  BY <1>5 DEF ScanEnds, AfterScan, ScanComplete, InitialListPopulationComplete,
              Monitor!SetBlocked,
              Monitor!StartTimerIfOff
<1>20. CASE ScanGivesUp
  BY <1>20 DEF ScanGivesUp, AfterScan, ScanComplete, InitialListPopulationComplete,
               Monitor!SetBlocked,
              Monitor!StartTimerIfOff
<1>6. CASE IconsLoaded
  BY <1>6 DEF IconsLoaded, ScanComplete, InitialListPopulationComplete,
              Monitor!SetBlocked, Monitor!StartTimerIfOff
<1>7. CASE UninstallRunL
  BY <1>7 DEF UninstallRunL, HandleStartUninstallEvent, HandleEndUninstallEvent,
              Monitor!SetBlocked, Monitor!StartTimerIfOff
<1>8. CASE UninstallRunLError
  BY <1>8 DEF UninstallRunLError
<1>9. ASSUME NEW b \in {"None", "Running", "Aborted"}, BackupEvent(b)
      PROVE  Monitor!TypeOK'
  BY <1>9 DEF BackupEvent, Monitor!SetBlocked, Monitor!StartTimerIfOff
<1>10. ASSUME NEW s \in Sessions, Disconnect(s) PROVE Monitor!TypeOK'
  BY <1>10 DEF Disconnect, ScanLost
<1>11. ASSUME NEW s \in Sessions, ForceRegistration(s) PROVE Monitor!TypeOK'
  BY <1>11 DEF ForceRegistration
<1>12. ASSUME NEW s \in Sessions, Prepare(s) PROVE Monitor!TypeOK'
  BY <1>12 DEF Prepare, ScanLost, BatchToEnd
<1>13. ASSUME NEW s \in Sessions, NEW force \in BOOLEAN, Commit(s, force)
       PROVE  Monitor!TypeOK'
  BY <1>13 DEF Commit, Monitor!FsChange
<1>14. ASSUME NEW s \in Sessions, Abort(s) PROVE Monitor!TypeOK'
  BY <1>14 DEF Abort
<1>15. ASSUME NEW s \in Sessions, CommitFails(s) PROVE Monitor!TypeOK'
  BY <1>15 DEF CommitFails, Monitor!FsChange
<1>16. ASSUME NEW l \in Locs, FsChange(l) PROVE Monitor!TypeOK'
  BY <1>16 DEF FsChange, Monitor!FsChange
<1>17. ASSUME NEW b \in BOOLEAN, SetUninstalling(b) PROVE Monitor!TypeOK'
  BY <1>17 DEF SetUninstalling
<1>18. ASSUME NEW s \in Sessions, Asks(s) PROVE Monitor!TypeOK'
  BY <1>18, AsksLeave
<1>19. CASE UNCHANGED vars
  BY <1>19 DEF vars
<1> HIDE DEF Monitor!TypeOK
<1> QED
  BY StepCases, <1>1, <1>2, <1>3, <1>4, <1>5, <1>6, <1>7, <1>8, <1>9, <1>10, <1>11,
     <1>12, <1>13, <1>14, <1>15, <1>16, <1>17, <1>18, <1>19,
     <1>20

(* The list's, the uninstall monitor's and the backup's variables keep       *)
(* their types.                                                              *)
LEMMA NextListType ==
    ListTypeOK /\ [Next]_vars => ListTypeOK'
<1> SUFFICES ASSUME ListTypeOK, [Next]_vars PROVE ListTypeOK'
  OBVIOUS
<1> USE DEF ListTypeOK, monitorVars, listVars, swisVars, clientVars, messageVars
<1>1. CASE NotifierRunL
  BY <1>1 DEF NotifierRunL
<1>2. CASE StopTimer
  BY <1>2 DEF StopTimer
<1>3. CASE CallBack
  BY <1>3 DEF CallBack, UpdateApps, StartScan, ScanLost
<1>4. CASE ScanFinds \/ PurgeLeaves
  BY <1>4 DEF ScanFinds, PurgeLeaves, ListChanges
<1>5. CASE ScanEnds
  BY <1>5 DEF ScanEnds, AfterScan, ScanComplete
<1>20. CASE ScanGivesUp
  BY <1>20 DEF ScanGivesUp, AfterScan, ScanComplete
<1>6. CASE IconsLoaded
  BY <1>6 DEF IconsLoaded, ScanComplete
<1>7. CASE UninstallRunL
  BY <1>7 DEF UninstallRunL, HandleStartUninstallEvent, HandleEndUninstallEvent,
              StopScan, StartScan, ScanLost
<1>8. CASE UninstallRunLError
  BY <1>8 DEF UninstallRunLError
<1>9. ASSUME NEW b \in {"None", "Running", "Aborted"}, BackupEvent(b) PROVE ListTypeOK'
  BY <1>9 DEF BackupEvent
<1>10. ASSUME NEW s \in Sessions, Disconnect(s) PROVE ListTypeOK'
  BY <1>10 DEF Disconnect, ScanLost
<1>11. ASSUME NEW s \in Sessions, ForceRegistration(s) PROVE ListTypeOK'
  BY <1>11 DEF ForceRegistration, UpdateApps, StartScan, ScanLost, Change
<1>12. ASSUME NEW s \in Sessions, Prepare(s) PROVE ListTypeOK'
  BY <1>12 DEF Prepare, ScanLost, BatchToEnd, StopScan
<1>13. ASSUME NEW s \in Sessions, NEW force \in BOOLEAN, Commit(s, force)
       PROVE  ListTypeOK'
  BY <1>13 DEF Commit, UpdateApps, StartScan, ScanLost, Change
<1>14. ASSUME NEW s \in Sessions, Abort(s) PROVE ListTypeOK'
  BY <1>14 DEF Abort, ResumeScan, UpdateApps, StartScan, ScanLost
<1>15. ASSUME NEW s \in Sessions, CommitFails(s) PROVE ListTypeOK'
  BY <1>15 DEF CommitFails, ResumeScan, UpdateApps, StartScan, ScanLost
<1>16. ASSUME NEW l \in Locs, FsChange(l) PROVE ListTypeOK'
  BY <1>16 DEF FsChange, Change
<1>17. ASSUME NEW b \in BOOLEAN, SetUninstalling(b) PROVE ListTypeOK'
  BY <1>17 DEF SetUninstalling
<1>18. ASSUME NEW s \in Sessions, Asks(s) PROVE ListTypeOK'
  BY <1>18, AsksLeave
<1>19. CASE UNCHANGED vars
  BY <1>19 DEF vars
<1> HIDE DEF ListTypeOK
<1> QED
  BY StepCases, <1>1, <1>2, <1>3, <1>4, <1>5, <1>6, <1>7, <1>8, <1>9, <1>10, <1>11,
     <1>12, <1>13, <1>14, <1>15, <1>16, <1>17, <1>18, <1>19,
     <1>20

(* The messages belong to sessions, and only a session that has one pending  *)
(* waits.                                                                    *)
LEMMA NextSessionType ==
    SessionTypeOK /\ [Next]_vars => SessionTypeOK'
<1> SUFFICES ASSUME SessionTypeOK, [Next]_vars PROVE SessionTypeOK'
  OBVIOUS
<1> USE DEF SessionTypeOK, monitorVars, listVars, swisVars, clientVars, messageVars
<1>1. CASE NotifierRunL
  BY <1>1 DEF NotifierRunL
<1>2. CASE StopTimer
  BY <1>2 DEF StopTimer
<1>3. CASE CallBack
  BY <1>3 DEF CallBack
<1>4. CASE ScanFinds \/ PurgeLeaves
  BY <1>4 DEF ScanFinds, PurgeLeaves, ListChanges
<1>5. CASE ScanEnds
  BY <1>5 DEF ScanEnds, AfterScan, ScanComplete, InitialListPopulationComplete,
              NotifyClients
<1>20. CASE ScanGivesUp
  BY <1>20 DEF ScanGivesUp, AfterScan, ScanComplete, InitialListPopulationComplete,
               NotifyClients
<1>6. CASE IconsLoaded
  BY <1>6 DEF IconsLoaded, ScanComplete, InitialListPopulationComplete, NotifyClients
<1>7. CASE UninstallRunL
  BY <1>7 DEF UninstallRunL
<1>8. CASE UninstallRunLError
  BY <1>8 DEF UninstallRunLError
<1>9. ASSUME NEW b \in {"None", "Running", "Aborted"}, BackupEvent(b)
      PROVE  SessionTypeOK'
  BY <1>9 DEF BackupEvent
<1>10. ASSUME NEW s \in Sessions, Disconnect(s) PROVE SessionTypeOK'
  BY <1>10 DEF Disconnect, ScanLost, NotifyClients
<1>11. ASSUME NEW s \in Sessions, ForceRegistration(s) PROVE SessionTypeOK'
  BY <1>11 DEF ForceRegistration
<1>12. ASSUME NEW s \in Sessions, Prepare(s) PROVE SessionTypeOK'
  BY <1>12 DEF Prepare, ScanLost, BatchToEnd
<1>13. ASSUME NEW s \in Sessions, NEW force \in BOOLEAN, Commit(s, force)
       PROVE  SessionTypeOK'
  BY <1>13 DEF Commit
<1>14. ASSUME NEW s \in Sessions, Abort(s) PROVE SessionTypeOK'
  BY <1>14 DEF Abort
<1>15. ASSUME NEW s \in Sessions, CommitFails(s) PROVE SessionTypeOK'
  BY <1>15 DEF CommitFails, Monitor!FsChange, Free
<1>16. ASSUME NEW l \in Locs, FsChange(l) PROVE SessionTypeOK'
  BY <1>16 DEF FsChange
<1>17. ASSUME NEW b \in BOOLEAN, SetUninstalling(b) PROVE SessionTypeOK'
  BY <1>17 DEF SetUninstalling
<1>18. ASSUME NEW s \in Sessions, Asks(s) PROVE SessionTypeOK'
  <2>1. ASSUME NEW now \in BOOLEAN, SetNotify(s, now) PROVE SessionTypeOK'
    BY <2>1 DEF SetNotify
  <2>2. CASE ReadList(s)
    BY <2>2 DEF ReadList
  <2>3. CASE CancelNotify(s)
    BY <2>3 DEF CancelNotify, NotifyClients
  <2>4. CASE RegisterListPopulationCompleteObserver(s)
    BY <2>4 DEF RegisterListPopulationCompleteObserver
  <2>5. CASE CancelListPopulationCompleteObserver(s)
    BY <2>5 DEF CancelListPopulationCompleteObserver
  <2> QED
    BY <1>18, <2>1, <2>2, <2>3, <2>4, <2>5 DEF Asks
<1>19. CASE UNCHANGED vars
  BY <1>19 DEF vars
<1> HIDE DEF SessionTypeOK
<1> QED
  BY StepCases, <1>1, <1>2, <1>3, <1>4, <1>5, <1>6, <1>7, <1>8, <1>9, <1>10, <1>11,
     <1>12, <1>13, <1>14, <1>15, <1>16, <1>17, <1>18, <1>19,
     <1>20

(* A scan that is stopped before the list is populated will be started       *)
(* again, and whoever starts it keeps the observer.                          *)
LEMMA NextPopulation ==
    TypeOK /\ PopulationToCome /\ [Next]_vars => PopulationToCome'
<1> SUFFICES ASSUME TypeOK, PopulationToCome, [Next]_vars PROVE PopulationToCome'
  OBVIOUS
<1> USE DEF TypeOK, ListTypeOK, SessionTypeOK, PopulationToCome, WorkToCome,
            ScanMissing, RestartDue, BatchToEnd, Free,
            UninstallKnown, FirstScanComplete, monitorVars, listVars, swisVars,
            clientVars, messageVars
<1>1. CASE NotifierRunL
  BY <1>1 DEF NotifierRunL
<1>2. CASE StopTimer
  BY <1>2 DEF StopTimer
<1>3. CASE CallBack
  BY <1>3 DEF CallBack, UpdateApps, StartScan, ScanLost
<1>4. CASE ScanFinds \/ PurgeLeaves
  BY <1>4 DEF ScanFinds, PurgeLeaves, ListChanges
<1>5. CASE ScanEnds
  BY <1>5 DEF ScanEnds, AfterScan, ScanComplete
<1>20. CASE ScanGivesUp
  BY <1>20 DEF ScanGivesUp, AfterScan, ScanComplete
<1>6. CASE IconsLoaded
  BY <1>6 DEF IconsLoaded, ScanComplete
<1>7. CASE UninstallRunL
  BY <1>7 DEF UninstallRunL, HandleStartUninstallEvent, HandleEndUninstallEvent,
              StopScan, StartScan, ScanLost
<1>8. CASE UninstallRunLError
  BY <1>8 DEF UninstallRunLError
<1>9. ASSUME NEW b \in {"None", "Running", "Aborted"}, BackupEvent(b)
      PROVE  PopulationToCome'
  BY <1>9 DEF BackupEvent
<1>10. ASSUME NEW s \in Sessions, Disconnect(s) PROVE PopulationToCome'
  BY <1>10 DEF Disconnect, ScanLost
<1>11. ASSUME NEW s \in Sessions, ForceRegistration(s) PROVE PopulationToCome'
  BY <1>11 DEF ForceRegistration, UpdateApps, StartScan, ScanLost
<1>12. ASSUME NEW s \in Sessions, Prepare(s) PROVE PopulationToCome'
  BY <1>12 DEF Prepare, ScanLost, BatchToEnd, StopScan
<1>13. ASSUME NEW s \in Sessions, NEW force \in BOOLEAN, Commit(s, force)
       PROVE  PopulationToCome'
  BY <1>13 DEF Commit, UpdateApps, StartScan, ScanLost
<1>14. ASSUME NEW s \in Sessions, Abort(s) PROVE PopulationToCome'
  BY <1>14 DEF Abort, ResumeScan, UpdateApps, StartScan, ScanLost
<1>15. ASSUME NEW s \in Sessions, CommitFails(s) PROVE PopulationToCome'
  BY <1>15 DEF CommitFails, ResumeScan, UpdateApps, StartScan, ScanLost
<1>16. ASSUME NEW l \in Locs, FsChange(l) PROVE PopulationToCome'
  BY <1>16 DEF FsChange
<1>17. ASSUME NEW b \in BOOLEAN, SetUninstalling(b) PROVE PopulationToCome'
  BY <1>17 DEF SetUninstalling
<1>18. ASSUME NEW s \in Sessions, Asks(s) PROVE PopulationToCome'
  BY <1>18, AsksLeave
<1>19. CASE UNCHANGED vars
  BY <1>19 DEF vars
<1> HIDE DEF PopulationToCome
<1> QED
  BY StepCases, <1>1, <1>2, <1>3, <1>4, <1>5, <1>6, <1>7, <1>8, <1>9, <1>10, <1>11,
     <1>12, <1>13, <1>14, <1>15, <1>16, <1>17, <1>18, <1>19,
     <1>20

(* Whoever blocks the monitor unblocks it; unblocking at the end of the      *)
(* first scan is safe because the server observes it.                        *)
LEMMA NextBlocked ==
    TypeOK /\ PopulationToCome /\ BlockedForAReason /\ [Next]_vars => BlockedForAReason'
<1> SUFFICES ASSUME TypeOK, PopulationToCome, BlockedForAReason, [Next]_vars
             PROVE  BlockedForAReason'
  OBVIOUS
<1> USE DEF TypeOK, ListTypeOK, SessionTypeOK, PopulationToCome, BlockedForAReason,
            UninstallKnown, FirstScanComplete, monitorVars, listVars, swisVars,
            clientVars, messageVars
<1>1. CASE NotifierRunL
  BY <1>1 DEF NotifierRunL, Monitor!NotifierRunL
<1>2. CASE StopTimer
  BY <1>2 DEF StopTimer, Monitor!StopTimer
<1>3. CASE CallBack
  BY <1>3 DEF CallBack, Monitor!CallBack, Monitor!DoStart, UpdateApps
<1>4. CASE ScanFinds \/ PurgeLeaves
  BY <1>4 DEF ScanFinds, PurgeLeaves, ListChanges
<1>5. CASE ScanEnds
  BY <1>5 DEF ScanEnds, AfterScan, ScanComplete, InitialListPopulationComplete,
              Monitor!SetBlocked
<1>20. CASE ScanGivesUp
  BY <1>20 DEF ScanGivesUp, AfterScan, ScanComplete, InitialListPopulationComplete,
               Monitor!SetBlocked
<1>6. CASE IconsLoaded
  BY <1>6 DEF IconsLoaded, ScanComplete, InitialListPopulationComplete,
              Monitor!SetBlocked
<1>7. CASE UninstallRunL
  BY <1>7 DEF UninstallRunL, HandleEndUninstallEvent, Monitor!SetBlocked
<1>8. CASE UninstallRunLError
  BY <1>8 DEF UninstallRunLError
<1>9. ASSUME NEW b \in {"None", "Running", "Aborted"}, BackupEvent(b)
      PROVE  BlockedForAReason'
  BY <1>9 DEF BackupEvent, Monitor!SetBlocked
<1>10. ASSUME NEW s \in Sessions, Disconnect(s) PROVE BlockedForAReason'
  BY <1>10 DEF Disconnect, ScanLost
<1>11. ASSUME NEW s \in Sessions, ForceRegistration(s) PROVE BlockedForAReason'
  BY <1>11 DEF ForceRegistration, UpdateApps
<1>12. ASSUME NEW s \in Sessions, Prepare(s) PROVE BlockedForAReason'
  BY <1>12 DEF Prepare, ScanLost, BatchToEnd, StopScan
<1>13. ASSUME NEW s \in Sessions, NEW force \in BOOLEAN, Commit(s, force)
       PROVE  BlockedForAReason'
  BY <1>13 DEF Commit, UpdateApps, Monitor!FsChange
<1>14. ASSUME NEW s \in Sessions, Abort(s) PROVE BlockedForAReason'
  BY <1>14 DEF Abort, ResumeScan, UpdateApps
<1>15. ASSUME NEW s \in Sessions, CommitFails(s) PROVE BlockedForAReason'
  BY <1>15 DEF CommitFails, ResumeScan, UpdateApps, StartScan, ScanLost,
               Monitor!FsChange
<1>16. ASSUME NEW l \in Locs, FsChange(l) PROVE BlockedForAReason'
  BY <1>16 DEF FsChange, Monitor!FsChange
<1>17. ASSUME NEW b \in BOOLEAN, SetUninstalling(b) PROVE BlockedForAReason'
  BY <1>17 DEF SetUninstalling
<1>18. ASSUME NEW s \in Sessions, Asks(s) PROVE BlockedForAReason'
  BY <1>18, AsksLeave
<1>19. CASE UNCHANGED vars
  BY <1>19 DEF vars
<1> HIDE DEF BlockedForAReason
<1> QED
  BY StepCases, <1>1, <1>2, <1>3, <1>4, <1>5, <1>6, <1>7, <1>8, <1>9, <1>10, <1>11,
     <1>12, <1>13, <1>14, <1>15, <1>16, <1>17, <1>18, <1>19,
     <1>20

(* A message is taken only when a scan that the server observes starts, is   *)
(* at work or is due; the end of a scan answers all.                         *)
LEMMA NextWaiters ==
    TypeOK /\ PopulationToCome /\ WaitersAreServed /\ [Next]_vars => WaitersAreServed'
<1> SUFFICES ASSUME TypeOK, PopulationToCome, WaitersAreServed, [Next]_vars
             PROVE  WaitersAreServed'
  OBVIOUS
<1> USE DEF TypeOK, ListTypeOK, SessionTypeOK, PopulationToCome, WaitersAreServed,
            WorkToCome, ScanMissing, RestartDue, BatchToEnd, Free, UninstallKnown,
            FirstScanComplete, monitorVars,
            listVars, swisVars, clientVars, messageVars
<1>1. CASE NotifierRunL
  BY <1>1 DEF NotifierRunL
<1>2. CASE StopTimer
  BY <1>2 DEF StopTimer
<1>3. CASE CallBack
  BY <1>3 DEF CallBack, UpdateApps, StartScan, ScanLost
<1>4. CASE ScanFinds \/ PurgeLeaves
  BY <1>4 DEF ScanFinds, PurgeLeaves, ListChanges
<1>5. CASE ScanEnds
  BY <1>5 DEF ScanEnds, AfterScan, ScanComplete, InitialListPopulationComplete
<1>20. CASE ScanGivesUp
  <2>1. CASE "ENotifyUpdateOnFirstScanComplete" \in iFlags
    BY <1>20, <2>1 DEF ScanGivesUp
  <2>2. CASE "ENotifyUpdateOnFirstScanComplete" \notin iFlags
    <3>1. PICK changed \in SUBSET {"EAppListHasChanged"} :
             AfterScan(iFlags \cup changed, missed \cup {"Changes"})
      BY <1>20, <2>2 DEF ScanGivesUp
    <3>2. CASE iLoadMbmIconsOnDemand
      BY <3>1, <3>2 DEF AfterScan, ScanComplete, InitialListPopulationComplete
    <3>3. CASE ~iLoadMbmIconsOnDemand
      BY <3>1, <3>3, <1>20 DEF AfterScan, ScanGivesUp
    <3> QED
      BY <3>2, <3>3
  <2> QED
    BY <2>1, <2>2
<1>6. CASE IconsLoaded
  BY <1>6 DEF IconsLoaded, ScanComplete, InitialListPopulationComplete
<1>7. CASE UninstallRunL
  BY <1>7 DEF UninstallRunL, HandleStartUninstallEvent, HandleEndUninstallEvent,
              StopScan, StartScan, ScanLost
<1>8. CASE UninstallRunLError
  BY <1>8 DEF UninstallRunLError
<1>9. ASSUME NEW b \in {"None", "Running", "Aborted"}, BackupEvent(b)
      PROVE  WaitersAreServed'
  BY <1>9 DEF BackupEvent
<1>10. ASSUME NEW s \in Sessions, Disconnect(s) PROVE WaitersAreServed'
  BY <1>10 DEF Disconnect, ScanLost
<1>11. ASSUME NEW s \in Sessions, ForceRegistration(s) PROVE WaitersAreServed'
  BY <1>11 DEF ForceRegistration, UpdateApps, StartScan, ScanLost
<1>12. ASSUME NEW s \in Sessions, Prepare(s) PROVE WaitersAreServed'
  BY <1>12 DEF Prepare, ScanLost, BatchToEnd, StopScan
<1>13. ASSUME NEW s \in Sessions, NEW force \in BOOLEAN, Commit(s, force)
       PROVE  WaitersAreServed'
  BY <1>13 DEF Commit, UpdateApps, StartScan, ScanLost
<1>14. ASSUME NEW s \in Sessions, Abort(s) PROVE WaitersAreServed'
  BY <1>14 DEF Abort, ResumeScan, UpdateApps, StartScan, ScanLost
<1>15. ASSUME NEW s \in Sessions, CommitFails(s) PROVE WaitersAreServed'
  BY <1>15 DEF CommitFails, ResumeScan, UpdateApps, StartScan, ScanLost
<1>16. ASSUME NEW l \in Locs, FsChange(l) PROVE WaitersAreServed'
  BY <1>16 DEF FsChange
<1>17. ASSUME NEW b \in BOOLEAN, SetUninstalling(b) PROVE WaitersAreServed'
  BY <1>17 DEF SetUninstalling
<1>18. ASSUME NEW s \in Sessions, Asks(s) PROVE WaitersAreServed'
  <2>1. ASSUME NEW now \in BOOLEAN, SetNotify(s, now) PROVE WaitersAreServed'
    BY <2>1 DEF SetNotify
  <2>2. CASE ReadList(s)
    BY <2>2 DEF ReadList
  <2>3. CASE CancelNotify(s)
    BY <2>3 DEF CancelNotify
  <2>4. CASE RegisterListPopulationCompleteObserver(s)
    BY <2>4 DEF RegisterListPopulationCompleteObserver
  <2>5. CASE CancelListPopulationCompleteObserver(s)
    BY <2>5 DEF CancelListPopulationCompleteObserver
  <2> QED
    BY <1>18, <2>1, <2>2, <2>3, <2>4, <2>5 DEF Asks
<1>19. CASE UNCHANGED vars
  BY <1>19 DEF vars
<1> HIDE DEF WaitersAreServed
<1> QED
  BY StepCases, <1>1, <1>2, <1>3, <1>4, <1>5, <1>6, <1>7, <1>8, <1>9, <1>10, <1>11,
     <1>12, <1>13, <1>14, <1>15, <1>16, <1>17, <1>18, <1>19,
     <1>20

(* A scan that finds a change flags it, and when it ends the flag makes it   *)
(* complete every message that waits for changes.                            *)
LEMMA NextStale ==
    TypeOK /\ StaleWillBeTold /\ [Next]_vars => StaleWillBeTold'
<1> SUFFICES ASSUME TypeOK, StaleWillBeTold, [Next]_vars PROVE StaleWillBeTold'
  OBVIOUS
<1> USE DEF TypeOK, ListTypeOK, SessionTypeOK, StaleWillBeTold, WorkToCome,
            ScanMissing, RestartDue, BatchToEnd, Free,
            UninstallKnown, monitorVars, listVars, swisVars, clientVars, messageVars
<1>1. CASE NotifierRunL
  BY <1>1 DEF NotifierRunL
<1>2. CASE StopTimer
  BY <1>2 DEF StopTimer
<1>3. CASE CallBack
  BY <1>3 DEF CallBack, UpdateApps, StartScan, ScanLost
<1>4. CASE ScanFinds \/ PurgeLeaves
  BY <1>4 DEF ScanFinds, PurgeLeaves, ListChanges
<1>5. CASE ScanEnds
  BY <1>5 DEF ScanEnds, AfterScan, ScanComplete, TellsOfChange, NotifyClients
<1>20. CASE ScanGivesUp
  BY <1>20 DEF ScanGivesUp, AfterScan, ScanComplete, TellsOfChange, NotifyClients
<1>6. CASE IconsLoaded
  BY <1>6 DEF IconsLoaded, ScanComplete, TellsOfChange, NotifyClients
<1>7. CASE UninstallRunL
  BY <1>7 DEF UninstallRunL, HandleStartUninstallEvent, HandleEndUninstallEvent,
              StopScan, StartScan, ScanLost
<1>8. CASE UninstallRunLError
  BY <1>8 DEF UninstallRunLError
<1>9. ASSUME NEW b \in {"None", "Running", "Aborted"}, BackupEvent(b)
      PROVE  StaleWillBeTold'
  BY <1>9 DEF BackupEvent
<1>10. ASSUME NEW s \in Sessions, Disconnect(s) PROVE StaleWillBeTold'
  BY <1>10 DEF Disconnect, ScanLost, NotifyClients
<1>11. ASSUME NEW s \in Sessions, ForceRegistration(s) PROVE StaleWillBeTold'
  BY <1>11 DEF ForceRegistration, UpdateApps, StartScan, ScanLost
<1>12. ASSUME NEW s \in Sessions, Prepare(s) PROVE StaleWillBeTold'
  BY <1>12 DEF Prepare, ScanLost, BatchToEnd, StopScan
<1>13. ASSUME NEW s \in Sessions, NEW force \in BOOLEAN, Commit(s, force)
       PROVE  StaleWillBeTold'
  BY <1>13 DEF Commit, UpdateApps, StartScan, ScanLost
<1>14. ASSUME NEW s \in Sessions, Abort(s) PROVE StaleWillBeTold'
  BY <1>14 DEF Abort, ResumeScan, UpdateApps, StartScan, ScanLost
<1>15. ASSUME NEW s \in Sessions, CommitFails(s) PROVE StaleWillBeTold'
  BY <1>15 DEF CommitFails, ResumeScan, UpdateApps, StartScan, ScanLost
<1>16. ASSUME NEW l \in Locs, FsChange(l) PROVE StaleWillBeTold'
  BY <1>16 DEF FsChange
<1>17. ASSUME NEW b \in BOOLEAN, SetUninstalling(b) PROVE StaleWillBeTold'
  BY <1>17 DEF SetUninstalling
<1>18. ASSUME NEW s \in Sessions, Asks(s) PROVE StaleWillBeTold'
  <2>1. ASSUME NEW now \in BOOLEAN, SetNotify(s, now) PROVE StaleWillBeTold'
    BY <2>1 DEF SetNotify
  <2>2. CASE ReadList(s)
    BY <2>2 DEF ReadList
  <2>3. CASE CancelNotify(s)
    BY <2>3 DEF CancelNotify, NotifyClients
  <2>4. CASE RegisterListPopulationCompleteObserver(s)
    BY <2>4 DEF RegisterListPopulationCompleteObserver
  <2>5. CASE CancelListPopulationCompleteObserver(s)
    BY <2>5 DEF CancelListPopulationCompleteObserver
  <2> QED
    BY <1>18, <2>1, <2>2, <2>3, <2>4, <2>5 DEF Asks
<1>19. CASE UNCHANGED vars
  BY <1>19 DEF vars
<1> HIDE DEF StaleWillBeTold
<1> QED
  BY StepCases, <1>1, <1>2, <1>3, <1>4, <1>5, <1>6, <1>7, <1>8, <1>9, <1>10, <1>11,
     <1>12, <1>13, <1>14, <1>15, <1>16, <1>17, <1>18, <1>19,
     <1>20

(* A change is notified by a notifier that stays disarmed until the tick     *)
(* that starts a scan, with all of it ahead of it.                           *)
LEMMA NextImpend ==
    TypeOK /\ ChangesImpend /\ [Next]_vars => ChangesImpend'
<1> SUFFICES ASSUME TypeOK, ChangesImpend, [Next]_vars PROVE ChangesImpend'
  OBVIOUS
<1> USE DEF TypeOK, ListTypeOK, SessionTypeOK, ChangesImpend, Overlooked, RestartDue,
            BatchToEnd, Free,
            UninstallKnown, AnyNotificationImpending, monitorVars, listVars, swisVars,
            clientVars, messageVars
<1>1. CASE NotifierRunL
  BY <1>1 DEF NotifierRunL, Monitor!NotifierRunL
<1>2. CASE StopTimer
  BY <1>2 DEF StopTimer, Monitor!StopTimer
<1>3. CASE CallBack
  BY <1>3 DEF CallBack, UpdateApps, StartScan, ScanLost
<1>4. CASE ScanFinds \/ PurgeLeaves
  BY <1>4 DEF ScanFinds, PurgeLeaves, ListChanges
<1>5. CASE ScanEnds
  BY <1>5 DEF ScanEnds, AfterScan, ScanComplete, InitialListPopulationComplete,
              Monitor!SetBlocked
<1>20. CASE ScanGivesUp
  BY <1>20 DEF ScanGivesUp, AfterScan, ScanComplete, InitialListPopulationComplete,
               Monitor!SetBlocked
<1>6. CASE IconsLoaded
  BY <1>6 DEF IconsLoaded, ScanComplete, InitialListPopulationComplete,
              Monitor!SetBlocked
<1>7. CASE UninstallRunL
  BY <1>7 DEF UninstallRunL, HandleStartUninstallEvent, HandleEndUninstallEvent,
              StopScan, StartScan, ScanLost, Monitor!SetBlocked
<1>8. CASE UninstallRunLError
  BY <1>8 DEF UninstallRunLError
<1>9. ASSUME NEW b \in {"None", "Running", "Aborted"}, BackupEvent(b)
      PROVE  ChangesImpend'
  BY <1>9 DEF BackupEvent, Monitor!SetBlocked
<1>10. ASSUME NEW s \in Sessions, Disconnect(s) PROVE ChangesImpend'
  BY <1>10 DEF Disconnect, ScanLost
<1>11. ASSUME NEW s \in Sessions, ForceRegistration(s) PROVE ChangesImpend'
  BY <1>11 DEF ForceRegistration, UpdateApps, StartScan, ScanLost
<1>12. ASSUME NEW s \in Sessions, Prepare(s) PROVE ChangesImpend'
  BY <1>12 DEF Prepare, ScanLost, BatchToEnd, StopScan
<1>13. ASSUME NEW s \in Sessions, NEW force \in BOOLEAN, Commit(s, force)
       PROVE  ChangesImpend'
  BY <1>13 DEF Commit, UpdateApps, StartScan, ScanLost
<1>14. ASSUME NEW s \in Sessions, Abort(s) PROVE ChangesImpend'
  BY <1>14 DEF Abort, ResumeScan, UpdateApps, StartScan, ScanLost
<1>15. ASSUME NEW s \in Sessions, CommitFails(s) PROVE ChangesImpend'
  BY <1>15 DEF CommitFails, ResumeScan, UpdateApps, StartScan, ScanLost,
               Monitor!FsChange
<1>16. ASSUME NEW l \in Locs, FsChange(l) PROVE ChangesImpend'
  BY <1>16 DEF FsChange, Monitor!FsChange, Monitor!TypeOK
<1>17. ASSUME NEW b \in BOOLEAN, SetUninstalling(b) PROVE ChangesImpend'
  BY <1>17 DEF SetUninstalling
<1>18. ASSUME NEW s \in Sessions, Asks(s) PROVE ChangesImpend'
  BY <1>18, AsksLeave
<1>19. CASE UNCHANGED vars
  BY <1>19 DEF vars
<1> HIDE DEF ChangesImpend
<1> QED
  BY StepCases, <1>1, <1>2, <1>3, <1>4, <1>5, <1>6, <1>7, <1>8, <1>9, <1>10, <1>11,
     <1>12, <1>13, <1>14, <1>15, <1>16, <1>17, <1>18, <1>19,
     <1>20

(* Every step of the composition preserves the invariant.                    *)
LEMMA NextServerInv == ServerInv /\ [Next]_vars => ServerInv'
BY NextBound, NextMonitorType, NextListType, NextSessionType, NextPopulation, NextBlocked,
   NextWaiters, NextStale, NextImpend DEF ServerInv, TypeOK

(* The inductive invariant holds in every reachable state of the server.     *)
THEOREM Invariance == Spec => []ServerInv
BY InitServerInv, NextServerInv, PTL DEF Spec

(* The server's variables keep their types.                                  *)
THEOREM TypeCorrect == Spec => []TypeOK
BY Invariance, PTL DEF ServerInv

(* Every client that waits for a scan or for the population of the list has  *)
(* a scan to come that answers it.                                           *)
THEOREM WaitersServed == Spec => []WaitersAreServed
BY Invariance, PTL DEF ServerInv

(* The monitor is never left blocked without a reason.                       *)
THEOREM BlockedWithReason == Spec => []BlockedForAReason
BY Invariance, PTL DEF ServerInv

(* A client told at once that nothing is impending reads a current list, but *)
(* for what a scan stopped, not started or in error has yet to find.         *)
THEOREM AtOnceCurrent == Spec => []AtOnceMeansCurrent
<1>1. ServerInv => AtOnceMeansCurrent
  BY DEF ServerInv, TypeOK, ListTypeOK, ChangesImpend, AtOnceMeansCurrent,
         NoScanImpendingOrInProgress
<1> QED
  BY <1>1, Invariance, PTL

(* No client waits on a list that has changed since it was read without a   *)
(* scan to come that tells it, unless a purge left that change unflagged.    *)
THEOREM ChangesNotified == Spec => []NotifiedOfChanges
<1>1. ServerInv => NotifiedOfChanges
  BY DEF ServerInv, StaleWillBeTold, NotifiedOfChanges
<1> QED
  BY <1>1, Invariance, PTL

(* The monitor is constructed as FsMonitor has it.                           *)
LEMMA InitMonitor == Init => Monitor!Init
BY DEF Init, Monitor!Init

(* Each step of the server is one of the monitor's own or leaves it alone.   *)
LEMMA StepMonitor == [Next]_vars => [Monitor!Next]_Monitor!fsVars
<1> SUFFICES ASSUME [Next]_vars PROVE Monitor!Next \/ UNCHANGED Monitor!fsVars
  OBVIOUS
<1> DEFINE Goal == Monitor!Next \/ UNCHANGED Monitor!fsVars
<1> USE DEF Monitor!Next, Monitor!fsVars, monitorVars
<1>1. CASE NotifierRunL
  BY <1>1 DEF NotifierRunL
<1>2. CASE StopTimer
  BY <1>2 DEF StopTimer
<1>3. CASE CallBack
  BY <1>3 DEF CallBack
<1>4. CASE ScanFinds \/ PurgeLeaves
  BY <1>4 DEF ScanFinds, PurgeLeaves, ListChanges
<1>5. CASE ScanEnds
  BY <1>5 DEF ScanEnds, AfterScan, ScanComplete, InitialListPopulationComplete
<1>20. CASE ScanGivesUp
  BY <1>20 DEF ScanGivesUp, AfterScan, ScanComplete, InitialListPopulationComplete
<1>6. CASE IconsLoaded
  BY <1>6 DEF IconsLoaded, ScanComplete, InitialListPopulationComplete
<1>7. CASE UninstallRunL
  BY <1>7 DEF UninstallRunL, HandleStartUninstallEvent, HandleEndUninstallEvent
<1>8. CASE UninstallRunLError
  BY <1>8 DEF UninstallRunLError
<1>9. ASSUME NEW b \in {"None", "Running", "Aborted"}, BackupEvent(b) PROVE Goal
  BY <1>9 DEF BackupEvent
<1>10. ASSUME NEW s \in Sessions, Disconnect(s) PROVE Goal
  BY <1>10 DEF Disconnect, ScanLost
<1>11. ASSUME NEW s \in Sessions, ForceRegistration(s) PROVE Goal
  BY <1>11 DEF ForceRegistration
<1>12. ASSUME NEW s \in Sessions, Prepare(s) PROVE Goal
  BY <1>12 DEF Prepare, ScanLost, BatchToEnd
<1>13. ASSUME NEW s \in Sessions, NEW force \in BOOLEAN, Commit(s, force) PROVE Goal
  BY <1>13 DEF Commit
<1>14. ASSUME NEW s \in Sessions, Abort(s) PROVE Goal
  BY <1>14 DEF Abort
<1>15. ASSUME NEW s \in Sessions, CommitFails(s) PROVE Goal
  BY <1>15 DEF CommitFails
<1>16. ASSUME NEW l \in Locs, FsChange(l) PROVE Goal
  BY <1>16 DEF FsChange
<1>17. ASSUME NEW b \in BOOLEAN, SetUninstalling(b) PROVE Goal
  BY <1>17 DEF SetUninstalling
<1>18. ASSUME NEW s \in Sessions, Asks(s) PROVE Goal
  BY <1>18, AsksLeave
<1>19. CASE UNCHANGED vars
  BY <1>19 DEF vars
<1> QED
  BY StepCases, <1>1, <1>2, <1>3, <1>4, <1>5, <1>6, <1>7, <1>8, <1>9, <1>10, <1>11,
     <1>12, <1>13, <1>14, <1>15, <1>16, <1>17, <1>18, <1>19,
     <1>20

(* The server drives the monitor as FsMonitor says an owner does, so what    *)
(* FsMonitorProofs proves of the monitor holds in the server.                *)
THEOREM DrivesMonitor == Spec => Monitor!Spec
BY InitMonitor, StepMonitor, PTL DEF Spec, Monitor!Spec

MonitorProofs == INSTANCE FsMonitorProofs
                 WITH Pause <- 0, Period <- 0, Flaky <- {}, left <- 0, since <- 0

(* In the server too, no change in a monitored location is lost.             *)
THEOREM NoChangeIsLostInServer == Spec => []Monitor!NoLostChange
<1>1. Monitor!Init <=> MonitorProofs!Init
  BY DEF Monitor!Init, MonitorProofs!Init
<1>2. [Monitor!Next]_Monitor!fsVars <=> [MonitorProofs!Next]_MonitorProofs!fsVars
  BY Zenon DEF Monitor!Next, Monitor!fsVars, Monitor!FsChange, Monitor!RequestFails,
               Monitor!NotifierRunL, Monitor!NotifierRunLError, Monitor!SetBlocked,
               Monitor!Restart, Monitor!CallBack, Monitor!StopTimer, Monitor!Elapse,
               Monitor!StartTimerIfOff, Monitor!DoStart, Monitor!TickRuns,
               MonitorProofs!Next, MonitorProofs!fsVars, MonitorProofs!FsChange,
               MonitorProofs!RequestFails, MonitorProofs!NotifierRunL,
               MonitorProofs!NotifierRunLError, MonitorProofs!SetBlocked,
               MonitorProofs!Restart, MonitorProofs!CallBack, MonitorProofs!StopTimer,
               MonitorProofs!Elapse, MonitorProofs!StartTimerIfOff,
               MonitorProofs!DoStart, MonitorProofs!TickRuns
<1>3. Monitor!NoLostChange <=> MonitorProofs!NoLostChange
  BY DEF Monitor!NoLostChange, MonitorProofs!NoLostChange
<1>4. Monitor!Spec => MonitorProofs!Spec
  BY <1>1, <1>2, PTL DEF Monitor!Spec, MonitorProofs!Spec
<1>5. MonitorProofs!LocsAssumption /\ MonitorProofs!DelayAssumption
  BY DEF MonitorProofs!LocsAssumption, MonitorProofs!DelayAssumption
<1>6. MonitorProofs!Spec => []MonitorProofs!NoLostChange
  BY <1>5, MonitorProofs!NoChangeIsLost
<1> QED
  BY <1>3, <1>4, <1>6, DrivesMonitor, PTL

================================================================================
