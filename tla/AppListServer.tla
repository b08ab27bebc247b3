----------------------------- MODULE AppListServer -----------------------------
(***************************************************************************)
(* CApaAppListServer (apserv/APSSERV.CPP) as the composition of its parts: *)
(* the file-system monitor (module FsMonitor, without its delays), the     *)
(* scans of the application list, the uninstall monitor, the backup        *)
(* observer and the sessions (apserv/APSSES.CPP) with the messages they    *)
(* keep pending.  What the list holds is left to module AppList: here a    *)
(* scan finds, or has yet to find, what changed on the phone.              *)
(***************************************************************************)
EXTENDS Naturals

CONSTANTS
    Locs,                   \* locations the file-system monitor watches
    Sessions,               \* the clients' sessions, one single-threaded client each
    Watchers,               \* the sessions of those that ask to be told of events
    iLoadMbmIconsOnDemand,  \* KApaLoadMbmIconsOnDemand: no icon loading after a scan
    MaxDisturbances         \* bound on the moves of others that keep the server busy

ASSUME ServerAssumption ==
    /\ Watchers \subseteq Sessions
    /\ iLoadMbmIconsOnDemand \in BOOLEAN
    /\ MaxDisturbances \in Nat

VARIABLES
    \* iAppFsMonitor, see FsMonitor
    notifier, iFsHasChanged, iIsBlocked, timerOn, owed,
    \* iAppList
    scan,               \* "None", "Scanning" (iAppIdler active) or "Icons" (being loaded after it)
    iObserver,          \* the server observes the list
    iFlags,
    iNNAInstallation,
    unseen,             \* what differs between phone and list: changes "before" or "during" the scan
    \* iAppUnInstallMonitor and the installer's property
    uninstalling,       \* UnInstallInProgress() of the property's present value
    subscription,       \* "Active", "Completed" (RunL still to run) or "Dead"
    iWaitingForStartUninstall,
    \* the backup server
    backup,             \* "None", "Running" or "Aborted"
    \* the sessions of which each holds; one of which none does may be closed as well
    iNotifyMessage,             \* SetNotify's message is pending
    iNotifyOnScanCompleteMsg,   \* ForceRegistration's is, or the manager's, of a commit that waits
    iCompletionOfListPopulationObserverMsg,
    iNonNativeApplicationsUpdateAppsLock,   \* its batch of updates is open
    reading,            \* the client waits for SetNotify's message and has yet to read the list
    stale,              \* history: the client waits, and an observed scan has changed the list it read
    missed,             \* history: work on the list that was lost and is not made good yet
    disturbances        \* history: counted for the bound

monitorVars == <<notifier, iFsHasChanged, iIsBlocked, timerOn, owed>>
listVars == <<scan, iObserver, iFlags, iNNAInstallation, unseen, missed>>
swisVars == <<uninstalling, subscription, iWaitingForStartUninstall>>
clientVars == <<iNonNativeApplicationsUpdateAppsLock, reading, stale>>
messageVars == <<iNotifyMessage, iNotifyOnScanCompleteMsg, iCompletionOfListPopulationObserverMsg>>
vars == <<monitorVars, listVars, swisVars, backup, clientVars, messageVars, disturbances>>

Monitor == INSTANCE FsMonitor WITH Pause <- 0, Period <- 0, Flaky <- {}, left <- 0, since <- 0

(* The variables' types; ahead of them those of the scan and its callers,    *)
(* and of the clients.                                                       *)
ListTypeOK ==
    /\ scan \in {"None", "Scanning", "Icons"}
    /\ iObserver \in BOOLEAN /\ iNNAInstallation \in BOOLEAN
    /\ missed \subseteq {"Scan", "Changes", "Flag"}
    /\ iFlags \subseteq {"EFirstScanComplete", "EAppListHasChanged", "ENotifyUpdateOnFirstScanComplete"}
    /\ unseen \subseteq {"before", "during"}
    /\ uninstalling \in BOOLEAN /\ iWaitingForStartUninstall \in BOOLEAN
    /\ subscription \in {"Active", "Completed", "Dead"}
    /\ backup \in {"None", "Running", "Aborted"}

SessionTypeOK ==
    /\ iNotifyMessage \subseteq Sessions
    /\ iNotifyOnScanCompleteMsg \subseteq Sessions
    /\ iCompletionOfListPopulationObserverMsg \subseteq Sessions
    /\ iNonNativeApplicationsUpdateAppsLock \subseteq Sessions
    /\ reading \subseteq iNotifyMessage
    /\ stale \subseteq iNotifyMessage \ reading

TypeOK ==
    /\ Monitor!TypeOK /\ ListTypeOK /\ SessionTypeOK
    /\ disturbances \in 0 .. MaxDisturbances

----------------------------------------------------------------------------
(* The list, as the server sees it.                                          *)

FirstScanComplete == "EFirstScanComplete" \in iFlags

(* A change now: the scan at work may have passed its place already.         *)
Change == IF scan = "Scanning" THEN "during" ELSE "before"

(* What may be lost: a "Scan" that should be at work, or whose end should be *)
(* told; "Changes" that a scan given up did not find; the "Flag" of a change *)
(* that a scan did make.                                                     *)
ScanLost == missed' = missed \cup {"Scan"}
ScanMissing == "Scan" \in missed
Overlooked == missed \cap {"Scan", "Changes"} # {}

(* StartIdleUpdateL(), with something new to find or not: icon loading is    *)
(* stopped, and all is ahead of the scan.  Or it leaves and nothing starts,  *)
(* when it may have stopped what was at work before.                         *)
StartScan(new) ==
    \/ /\ scan' = "Scanning" /\ missed' = missed \cap {"Flag"}
       /\ unseen' = IF new \/ unseen # {} THEN {"before"} ELSE {}
    \/ /\ scan' \in {scan, "None"} /\ ScanLost
       /\ unseen' = IF new THEN unseen \cup {Change} ELSE unseen

(* Mutant: the server is not the observer of the scan.                       *)
UpdateAppsUnobserved(new) == StartScan(new) /\ UNCHANGED <<iObserver, iFlags, iNNAInstallation>>

(* UpdateApps: the server observes even if the scan does not start.          *)
UpdateApps(new) ==
    /\ StartScan(new)
    /\ iObserver' = TRUE
    /\ UNCHANGED <<iFlags, iNNAInstallation>>

StopScan(aNNAInstall) ==
    /\ scan' = IF scan = "Scanning" THEN "None" ELSE scan
    /\ iNNAInstallation' = (iNNAInstallation \/ aNNAInstall)
    /\ UNCHANGED <<iObserver, iFlags, unseen>>

InitialListPopulationComplete ==
    /\ Monitor!SetBlocked(FALSE)
    /\ iCompletionOfListPopulationObserverMsg' = {}

(* NotifyObserver calls NotifyUpdate, which completes iNotifyMessage too, or *)
(* NotifyScanComplete, which does not.  Mutant: a change is taken for the    *)
(* mere end of a scan.                                                       *)
TellsOnlyOfFirst(fl) == "ENotifyUpdateOnFirstScanComplete" \in fl
TellsOfChange(fl) == fl \cap {"EAppListHasChanged", "ENotifyUpdateOnFirstScanComplete"} # {}

(* Mutant: a message is completed but not let go.                            *)
NotifyClientsTwice(told) ==
    iNotifyMessage' = iNotifyMessage /\ reading' = reading /\ stale' = stale \cup told

(* The SetNotify messages of the sessions in told are completed.             *)
NotifyClients(told) ==
    /\ iNotifyMessage' = iNotifyMessage \ told
    /\ reading' = reading \ told
    /\ stale' = stale \ told

(* InitiateStoringOfAppList: the scan and its icons are done.                *)
ScanComplete(fl, lost) ==
    /\ scan' = "None"
    /\ IF iObserver /\ ~FirstScanComplete THEN InitialListPopulationComplete
       ELSE UNCHANGED <<monitorVars, iCompletionOfListPopulationObserverMsg>>
    /\ NotifyClients(IF iObserver /\ TellsOfChange(fl) THEN Sessions ELSE {})
    /\ missed' = IF iObserver /\ TellsOfChange(fl) THEN lost \ {"Flag"} ELSE lost
    /\ iNotifyOnScanCompleteMsg' = IF iObserver THEN {} ELSE iNotifyOnScanCompleteMsg
    /\ iObserver' = FALSE
    /\ iFlags' = {"EFirstScanComplete"}
    /\ iNNAInstallation' = FALSE

----------------------------------------------------------------------------
(* The server's handlers.                                                    *)

(* A notifier's RunL, and a tick with nothing to report.                     *)
NotifierRunL ==
    /\ \E l \in Locs : Monitor!NotifierRunL(l)
    /\ UNCHANGED <<listVars, swisVars, backup, clientVars, messageVars>>

StopTimer ==
    /\ Monitor!StopTimer
    /\ UNCHANGED <<listVars, swisVars, backup, clientVars, messageVars>>

(* A tick that calls AppFsNotifyCallBack.                                    *)
CallBack ==
    /\ Monitor!CallBack
    /\ UpdateApps(FALSE)
    /\ UNCHANGED <<swisVars, backup, clientVars, messageVars>>

(* The list changes: it now has some of what differs.                        *)
ListChanges ==
    /\ scan = "Scanning"
    /\ \E found \in SUBSET unseen \ {{}} : unseen' = unseen \ found
    /\ stale' = IF iObserver THEN iNotifyMessage \ reading ELSE stale
    /\ UNCHANGED <<monitorVars, scan, iObserver, iNNAInstallation, swisVars, backup,
                   iNonNativeApplicationsUpdateAppsLock, reading, messageVars>>

(* The scan meets what has changed; what changed since it started it may     *)
(* meet or not.                                                              *)
ScanFinds ==
    /\ ListChanges
    /\ iFlags' = iFlags \cup {"EAppListHasChanged"}
    /\ UNCHANGED missed

(* PurgeL leaves having deleted something, before the change is flagged.     *)
PurgeLeaves ==
    /\ ListChanges
    /\ missed' = missed \cup {"Flag"}
    /\ UNCHANGED iFlags

(* The scan is over: its icons are to be loaded, or cannot be, and then      *)
(* nobody is told that it is.                                                *)
AfterScan(fl, lost) ==
    IF iLoadMbmIconsOnDemand THEN ScanComplete(fl, lost)
    ELSE /\ \/ scan' = "Icons" /\ missed' = lost
            \/ scan' = "None" /\ missed' = lost \cup {"Scan"}
         /\ iFlags' = fl
         /\ UNCHANGED <<monitorVars, iObserver, iNNAInstallation, messageVars, reading, stale>>

(* The last IdleUpdateCallbackL of a scan, which has found what was there    *)
(* for it to find, unless it had given up.                                   *)
ScanEnds ==
    /\ scan = "Scanning"
    /\ "before" \in unseen => "Changes" \in missed
    /\ AfterScan(iFlags, missed)
    /\ UNCHANGED <<unseen, swisVars, backup, iNonNativeApplicationsUpdateAppsLock>>

(* IdleUpdateL meets an error: the scan is over, what it has not reached     *)
(* perhaps marked as not present.  While RestoreL's flag is set it leaves    *)
(* instead, and the scan goes on from there.                                 *)
ScanGivesUp ==
    /\ scan = "Scanning"
    /\ unseen' \in {unseen, unseen \cup {"before"}}
    /\ LET lost == missed \cup {"Changes"} IN
       IF "ENotifyUpdateOnFirstScanComplete" \in iFlags
       THEN /\ missed' = lost
            /\ UNCHANGED <<monitorVars, scan, iObserver, iFlags, iNNAInstallation, messageVars,
                           reading, stale>>
       ELSE \E changed \in SUBSET {"EAppListHasChanged"} : AfterScan(iFlags \cup changed, lost)
    /\ UNCHANGED <<swisVars, backup, iNonNativeApplicationsUpdateAppsLock>>

IconsLoaded ==
    /\ scan = "Icons"
    /\ ScanComplete(iFlags, missed)
    /\ UNCHANGED <<unseen, swisVars, backup, iNonNativeApplicationsUpdateAppsLock>>

(* HandleStartUninstallEvent.                                                *)
HandleStartUninstallEvent == Monitor!SetBlocked(TRUE) /\ StopScan(FALSE) /\ UNCHANGED missed

(* Mutant: HandleEndUninstallEventL that does not unblock.                   *)
HandleEndUninstallEventBlocked ==
    /\ StartScan(FALSE)
    /\ UNCHANGED <<monitorVars, iObserver, iFlags, iNNAInstallation>>

(* HandleEndUninstallEventL: RestartScanL sets no observer.                  *)
HandleEndUninstallEvent ==
    /\ Monitor!SetBlocked(FALSE)
    /\ StartScan(FALSE)
    /\ UNCHANGED <<iObserver, iFlags, iNNAInstallation>>

(* CApaAppUnInstallMonitor::RunL subscribes again, then reads the property.  *)
UninstallRunL ==
    /\ subscription = "Completed"
    /\ subscription' = "Active"
    /\ IF uninstalling = iWaitingForStartUninstall
       THEN /\ iWaitingForStartUninstall' = ~iWaitingForStartUninstall
            /\ IF uninstalling THEN HandleStartUninstallEvent ELSE HandleEndUninstallEvent
       ELSE UNCHANGED <<iWaitingForStartUninstall, monitorVars, listVars>>
    /\ UNCHANGED <<uninstalling, backup, clientVars, messageVars>>

(* RunL with an error, or the property cannot be read: no new subscription.  *)
UninstallRunLError ==
    /\ subscription = "Completed"
    /\ subscription' = "Dead"
    /\ UNCHANGED <<uninstalling, iWaitingForStartUninstall, monitorVars, listVars, backup, clientVars,
                   messageVars>>

(* HandleBackupOperationEventL.  EAbort does nothing.                        *)
BackupEvent(b) ==
    /\ backup' = b
    /\ CASE b = "Running" -> backup # "Running" /\ Monitor!SetBlocked(TRUE)
         [] b = "None"    -> backup = "Running" /\ Monitor!SetBlocked(FALSE)
         [] b = "Aborted" -> backup = "Running" /\ UNCHANGED monitorVars
    /\ UNCHANGED <<listVars, swisVars, clientVars, messageVars>>

----------------------------------------------------------------------------
(* The sessions.  A client that waits for a scan to complete does nothing    *)
(* else: those requests are synchronous.                                     *)

Free(s) == s \notin iNotifyOnScanCompleteMsg
BatchToEnd == \E s \in iNonNativeApplicationsUpdateAppsLock : Free(s)

(* The client closes its session or dies.  An open batch is destroyed with   *)
(* the session's manager; the scan it stopped is not resumed.                *)
Disconnect(s) ==
    /\ NotifyClients({s})
    /\ iNotifyOnScanCompleteMsg' = iNotifyOnScanCompleteMsg \ {s}
    /\ iCompletionOfListPopulationObserverMsg' = iCompletionOfListPopulationObserverMsg \ {s}
    /\ iNonNativeApplicationsUpdateAppsLock' = iNonNativeApplicationsUpdateAppsLock \ {s}
    /\ IF s \in iNonNativeApplicationsUpdateAppsLock /\ iNNAInstallation THEN ScanLost
       ELSE UNCHANGED missed
    /\ UNCHANGED <<monitorVars, scan, iObserver, iFlags, iNNAInstallation, unseen, swisVars,
                   backup>>

(* AnyNotificationImpending looks at the notifiers only.  Mutant: at the     *)
(* changes that have been handed to the monitor only.                        *)
AnyNotificationImpendingFlag == iFsHasChanged
AnyNotificationImpending == \E l \in Locs : notifier[l] # "Armed"

(* SetNotify answers at once, when asked to, if this holds.                  *)
NoScanImpendingOrInProgress == ~AnyNotificationImpending /\ scan # "Scanning"

(* CApaAppListNotifier: when its request is complete it asks again, then has *)
(* its observer read the list.                                               *)
SetNotify(s, completeImmediately) ==
    /\ Free(s)
    /\ s \notin iNotifyMessage
    /\ ~(completeImmediately /\ NoScanImpendingOrInProgress)
    /\ iNotifyMessage' = iNotifyMessage \cup {s}
    /\ reading' = reading \cup {s}
    /\ UNCHANGED <<monitorVars, listVars, swisVars, backup, iNotifyOnScanCompleteMsg, stale,
                   iNonNativeApplicationsUpdateAppsLock, iCompletionOfListPopulationObserverMsg>>

ReadList(s) ==
    /\ Free(s)
    /\ s \in reading
    /\ reading' = reading \ {s}
    /\ UNCHANGED <<monitorVars, listVars, swisVars, backup, messageVars, stale,
                   iNonNativeApplicationsUpdateAppsLock>>

(* NotifyClients(KErrCancel), which would complete a scan's waiter too.      *)
CancelNotify(s) ==
    /\ Free(s)
    /\ s \in iNotifyMessage
    /\ NotifyClients({s})
    /\ iNotifyOnScanCompleteMsg' = iNotifyOnScanCompleteMsg \ {s}
    /\ UNCHANGED <<monitorVars, listVars, swisVars, backup, iNonNativeApplicationsUpdateAppsLock,
                   iCompletionOfListPopulationObserverMsg>>

RegisterListPopulationCompleteObserver(s) ==
    /\ Free(s)
    /\ s \notin iCompletionOfListPopulationObserverMsg
    /\ ~FirstScanComplete
    /\ iCompletionOfListPopulationObserverMsg' = iCompletionOfListPopulationObserverMsg \cup {s}
    /\ UNCHANGED <<monitorVars, listVars, swisVars, backup, clientVars, iNotifyMessage,
                   iNotifyOnScanCompleteMsg>>

CancelListPopulationCompleteObserver(s) ==
    /\ Free(s)
    /\ s \in iCompletionOfListPopulationObserverMsg
    /\ iCompletionOfListPopulationObserverMsg' = iCompletionOfListPopulationObserverMsg \ {s}
    /\ UNCHANGED <<monitorVars, listVars, swisVars, backup, clientVars, iNotifyMessage,
                   iNotifyOnScanCompleteMsg>>

(* The registration files named are for the next scan to find.               *)
ForceRegistration(s) ==
    /\ Free(s)
    /\ iNotifyOnScanCompleteMsg' = iNotifyOnScanCompleteMsg \cup {s}
    /\ UpdateApps(TRUE)
    /\ UNCHANGED <<monitorVars, swisVars, backup, clientVars, iNotifyMessage,
                   iCompletionOfListPopulationObserverMsg>>

(* PrepareNonNativeApplicationsUpdatesL stops a scan, then leaves if the     *)
(* session has a batch open already, or if there is no memory for one: then  *)
(* only the end of another's batch will start the scan again, unless that    *)
(* one waits for the scan.                                                   *)
Prepare(s) ==
    /\ Free(s)
    /\ IF scan = "Scanning" THEN StopScan(TRUE)
       ELSE UNCHANGED <<scan, iObserver, iFlags, iNNAInstallation, unseen>>
    /\ \/ /\ iNonNativeApplicationsUpdateAppsLock' = iNonNativeApplicationsUpdateAppsLock \cup {s}
          /\ UNCHANGED missed
       \/ /\ IF scan = "Scanning" /\ ~BatchToEnd THEN ScanLost ELSE UNCHANGED missed
          /\ UNCHANGED iNonNativeApplicationsUpdateAppsLock
    /\ UNCHANGED <<monitorVars, swisVars, backup, reading, stale, messageVars>>

(* CommitNonNativeApplicationsUpdatesL: the updates touch a monitored        *)
(* directory; the client waits for the scan unless it forces the commit.     *)
Commit(s, force) ==
    /\ Free(s)
    /\ s \in iNonNativeApplicationsUpdateAppsLock
    /\ iNonNativeApplicationsUpdateAppsLock' = iNonNativeApplicationsUpdateAppsLock \ {s}
    /\ \E l \in Locs : Monitor!FsChange(l)
    /\ UpdateApps(TRUE)
    /\ iNotifyOnScanCompleteMsg' = iNotifyOnScanCompleteMsg \cup (IF force THEN {} ELSE {s})
    /\ UNCHANGED <<swisVars, backup, reading, stale, iNotifyMessage,
                   iCompletionOfListPopulationObserverMsg>>

(* Mutant: the scan a batch stopped is resumed only by a commit.             *)
ResumeScanNever == UNCHANGED listVars
ResumeScan == IF iNNAInstallation THEN UpdateApps(FALSE) ELSE UNCHANGED listVars

(* AbortNonNativeApplicationsUpdates.                                        *)
Abort(s) ==
    /\ Free(s)
    /\ s \in iNonNativeApplicationsUpdateAppsLock
    /\ iNonNativeApplicationsUpdateAppsLock' = iNonNativeApplicationsUpdateAppsLock \ {s}
    /\ ResumeScan
    /\ UNCHANGED <<monitorVars, swisVars, backup, reading, stale, messageVars>>

(* A commit that fails and is rolled back: as Abort, but files have changed  *)
(* and changed back.                                                         *)
CommitFails(s) ==
    /\ Free(s)
    /\ s \in iNonNativeApplicationsUpdateAppsLock
    /\ iNonNativeApplicationsUpdateAppsLock' = iNonNativeApplicationsUpdateAppsLock \ {s}
    /\ \E l \in Locs : Monitor!FsChange(l)
    /\ ResumeScan
    /\ UNCHANGED <<swisVars, backup, reading, stale, messageVars>>

----------------------------------------------------------------------------
(* The phone.                                                                *)

(* Something in a monitored location changes; it may concern an application. *)
FsChange(l) ==
    /\ Monitor!FsChange(l)
    /\ unseen' \in {unseen, unseen \cup {Change}}
    /\ UNCHANGED <<scan, iObserver, iFlags, iNNAInstallation, missed, swisVars, backup, clientVars,
                   messageVars>>

(* The installer sets its property; RProperty tells of a change once.        *)
SetUninstalling(b) ==
    /\ uninstalling = ~b
    /\ uninstalling' = b
    /\ subscription' = IF subscription = "Active" THEN "Completed" ELSE subscription
    /\ UNCHANGED <<monitorVars, listVars, iWaitingForStartUninstall, backup, clientVars, messageVars>>

----------------------------------------------------------------------------
(* ConstructL.  The monitor is started and blocked; then InitListL restores  *)
(* the list, scans from nothing, or fails to, which is ignored, as is that   *)
(* the icons cannot be loaded.  With no icons to load, restoring ends in the *)
(* population's being complete at once.                                      *)
Init ==
    /\ notifier = [l \in Locs |-> "Armed"]
    /\ iFsHasChanged = FALSE /\ timerOn = FALSE
    /\ owed = [l \in Locs |-> FALSE]
    /\ \/ /\ \/ scan = "Scanning" /\ missed = {}
             \/ scan = "None" /\ missed = {"Scan"}
          /\ unseen = {"before"}
          /\ iFlags \in SUBSET {"ENotifyUpdateOnFirstScanComplete"}
          /\ iObserver = TRUE /\ iIsBlocked = TRUE
       \/ /\ ~iLoadMbmIconsOnDemand
          /\ \/ scan = "Icons" /\ missed = {}
             \/ scan = "None" /\ missed = {"Scan"}
          /\ unseen = {}
          /\ iFlags \in {{"ENotifyUpdateOnFirstScanComplete"},
                         {"ENotifyUpdateOnFirstScanComplete", "EAppListHasChanged"}}
          /\ iObserver = TRUE /\ iIsBlocked = TRUE
       \/ /\ iLoadMbmIconsOnDemand
          /\ scan = "None" /\ unseen = {} /\ missed = {}
          /\ iFlags = {"EFirstScanComplete"}
          /\ iObserver = FALSE /\ iIsBlocked = FALSE
    /\ iNNAInstallation = FALSE
    /\ uninstalling = FALSE /\ subscription = "Active" /\ iWaitingForStartUninstall = TRUE
    /\ backup = "None"
    /\ iNonNativeApplicationsUpdateAppsLock = {} /\ reading = {}
    /\ iNotifyMessage = {} /\ iNotifyOnScanCompleteMsg = {}
    /\ iCompletionOfListPopulationObserverMsg = {}
    /\ stale = {} /\ disturbances = 0

ServerStep ==
    \/ NotifierRunL \/ StopTimer \/ CallBack
    \/ ScanFinds \/ ScanEnds \/ IconsLoaded
    \/ UninstallRunL

BackupEnds == BackupEvent("None") \/ BackupEvent("Aborted")

BatchEnds(s) == (\E force \in BOOLEAN : Commit(s, force)) \/ Abort(s) \/ CommitFails(s)

(* The moves of others that keep the server busy; MaxDisturbances of them.   *)
Disturbs ==
    \/ \E l \in Locs : FsChange(l)
    \/ SetUninstalling(TRUE)
    \/ UninstallRunLError \/ ScanGivesUp \/ PurgeLeaves
    \/ BackupEvent("Running")
    \/ \E s \in Sessions : Prepare(s) \/ ForceRegistration(s) \/ Disconnect(s)

Asks(s) ==
    \/ \E now \in BOOLEAN : SetNotify(s, now)
    \/ ReadList(s) \/ CancelNotify(s)
    \/ RegisterListPopulationCompleteObserver(s) \/ CancelListPopulationCompleteObserver(s)

Quiet(A) == A /\ UNCHANGED disturbances

Next ==
    \/ Quiet(ServerStep)
    \/ Quiet(SetUninstalling(FALSE))
    \/ Quiet(BackupEnds)
    \/ \E s \in Sessions : Quiet(BatchEnds(s))
    \/ \E s \in Watchers : Quiet(Asks(s))
    \/ /\ disturbances < MaxDisturbances
       /\ disturbances' = disturbances + 1
       /\ Disturbs

Spec == Init /\ [][Next]_vars

(* The server's thread runs whatever is ready; uninstalls and backups end,   *)
(* and clients finish the batches they have opened.                          *)
Fairness ==
    /\ WF_vars(Quiet(ServerStep))
    /\ WF_vars(Quiet(SetUninstalling(FALSE)))
    /\ WF_vars(Quiet(BackupEnds))
    /\ \A s \in Sessions : WF_vars(Quiet(BatchEnds(s)))

FairSpec == Spec /\ Fairness

----------------------------------------------------------------------------
(* Properties.                                                               *)

(* The uninstall the server waits for goes on, or its end is about to be     *)
(* heard; after that nobody will tell the server of it.                      *)
UninstallKnown ==
    /\ ~iWaitingForStartUninstall
    /\ uninstalling \/ subscription # "Active"

(* Whoever stopped a scan will have it started again.                        *)
RestartDue ==
    UninstallKnown \/ (iNNAInstallation /\ BatchToEnd)

WorkToCome == scan # "None" \/ RestartDue \/ ScanMissing

(* Whoever waits for a scan or for the population of the list is answered by *)
(* the scan at work, which has the observer that answers, or by the one that *)
(* the uninstall or batch that stopped it starts again; unless a scan could  *)
(* not be started or stopped for a batch that came to nothing, or its icons  *)
(* could not be loaded.  A scan that met an error answers all the same.      *)
WaitersAreServed ==
    /\ iNotifyOnScanCompleteMsg # {} \/ iCompletionOfListPopulationObserverMsg # {} =>
           iObserver /\ WorkToCome
    /\ iCompletionOfListPopulationObserverMsg # {} => ~FirstScanComplete

(* The monitor is blocked only while someone needs it to be: the list is not *)
(* populated yet, a backup runs (or was aborted), or an uninstall goes on    *)
(* that the server will hear the end of.                                     *)
BlockedForAReason ==
    iIsBlocked => ~FirstScanComplete \/ backup # "None" \/ UninstallKnown

(* A client told at once that no scan is impending or in progress reads a    *)
(* list that is up to date, save for what a scan that someone stopped, that  *)
(* could not start or that met an error has yet to find.                     *)
AtOnceMeansCurrent == NoScanImpendingOrInProgress => unseen = {} \/ RestartDue \/ Overlooked

(* A client that asks to be notified, reads the list and then waits never    *)
(* waits on a list that has changed since: a change between its request, its *)
(* reading and the next notification is not lost, errors of the scan that    *)
(* found it notwithstanding, but for a purge that left before it had flagged *)
(* the change.                                                               *)
NotifiedOfChanges ==
    stale # {} => WorkToCome \/ "Flag" \in missed

(* Once the phone is left alone the server settles: everyone is answered,    *)
(* the monitor on watch, and the list current unless the last scan met an    *)
(* error.  Not so if a scan could not be started or its end not told, the    *)
(* uninstall monitor is dead or a backup was aborted.                        *)
Settles ==
    <>[](\/ ScanMissing \/ subscription = "Dead" \/ backup = "Aborted"
         \/ /\ scan = "None" /\ ~iIsBlocked /\ (unseen = {} \/ Overlooked)
            /\ iNotifyOnScanCompleteMsg = {} /\ iCompletionOfListPopulationObserverMsg = {})

=============================================================================
