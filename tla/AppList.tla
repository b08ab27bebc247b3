-------------------------------- MODULE AppList --------------------------------
(***************************************************************************)
(* CApaAppList (apgrfx/APGAPLSTV2.CPP) with its idle scanner, icon loader, *)
(* storer and language monitor, and CApaAppRegFinder (apfile/aprfndr.cpp). *)
(* The list is built by scanning registration files; it is cached in       *)
(* AppsList.bin, which is renamed to AppsList_Backup.bin while a scan may  *)
(* make it stale and renamed back when the scan finds nothing new.         *)
(* Everything runs on the server's one thread: a RunL, an idle callback or *)
(* a call by the owner is one step.  Files, the language, memory shortage  *)
(* and power loss come from outside.                                       *)
(***************************************************************************)
EXTENDS Naturals, Sequences, FiniteSets, SequencesExt

CONSTANTS
    Files,                  \* registration files that may exist
    UidOf,                  \* UidOf[f]: the third UID of the application f registers
    Dirs,                   \* the directories scanned, in scan order: a sequence of sets of Files
    Removable,              \* the files on removable drives
    Stamps,                 \* modification times a file may get
    Languages,
    iLoadMbmIconsOnDemand,  \* KApaLoadMbmIconsOnDemand: no icon loading after a scan
    NoFile, Off,            \* no such file; no such worker
    Null, Dangling,         \* pointers that point to no element
    Happens,                \* events of Events that may occur in this instance
    MaxChanges, MaxCrashes  \* bounds on the environment

Events == {"StopScan", "RestartScan", "Language", "FindSpecific", "Spurious",
           "StartFails", "NextFails", "NewFails", "SuccessorFails", "StoreFails", "RestoreFails",
           "PurgeFails", "LoaderFails", "Coalesced"}

Uids == {UidOf[f] : f \in Files}
Absent == 0

ASSUME FilesAssumption ==
    /\ DOMAIN UidOf = Files
    /\ Dirs \in Seq(SUBSET Files)
    /\ UNION {Dirs[i] : i \in DOMAIN Dirs} = Files
    /\ \A i, j \in DOMAIN Dirs : i # j => Dirs[i] \cap Dirs[j] = {}
    /\ Removable \subseteq Files
    /\ \A i \in DOMAIN Dirs : Dirs[i] \subseteq Removable \/ Dirs[i] \cap Removable = {}
ASSUME NullAssumption ==
    /\ Null \notin Uids \cup Files /\ Dangling \notin Uids \cup {Null}
    /\ Off \notin Uids \cup {Null, Dangling}
ASSUME DataAssumption ==
    /\ Stamps \subseteq Nat \ {Absent}
    /\ iLoadMbmIconsOnDemand \in BOOLEAN
    /\ Happens \subseteq Events
    /\ MaxChanges \in Nat /\ MaxCrashes \in Nat

VARIABLES
    disk,               \* disk[f]: f's modification time, Absent if there is no such file
    cache, backup,      \* AppsList.bin, AppsList_Backup.bin: NoFile or [lang, apps]
    language,           \* User::Language()
    phase,              \* "Down", "Restoring" (in RestoreL's scan loop) or "Up"
    iAppData,           \* the list, head first
    iValidFirstAppData, \* where FirstApp starts: a pointer
    iFlags,
    iNNAInstallation,
    iObserver,          \* the observer is set
    iAppIdler,          \* the idle scanner exists, and is active
    idlerUnstarted,     \* it exists, but was never started
    iAppRegFinder,      \* [scope, dir, files]: what is scanned, the directory reached, its unread files
    iAppIconLoader,     \* Off, or the loader's iCurrentAppData
    iAppListStorer,     \* Off, or [lang, next, out]: iCurrentAppData and what the temporary file holds
    iPrevLanguage,      \* of the language monitor
    iLangNotifier,      \* its change notifier has completed, RunL still to run
    calls,              \* what the observer was called with in this step
    rescanDue,          \* the monitor is to call UpdateApps, or whoever stopped a scan to scan again
    rescanOwed,         \* history: files changed, a scan was stopped or a change of language went
                        \* by unnoticed, and no scan has started since
    untold,             \* history: the list changed since the observer heard EAppListChanged
    changes, crashes    \* history: counted for the bounds

diskVars  == <<disk, cache, backup>>
listVars  == <<iAppData, iValidFirstAppData, iFlags, iNNAInstallation, iObserver>>
scanVars  == <<iAppIdler, idlerUnstarted, iAppRegFinder>>
afterVars == <<iAppIconLoader, iAppListStorer>>
worldVars == <<language, phase, iPrevLanguage, rescanDue, rescanOwed, changes, crashes>>
vars == <<diskVars, listVars, scanVars, afterVars, worldVars, iLangNotifier, calls, untold>>

(* A pointer to a list element is the element's UID, which no two elements   *)
(* share, or Null; it is Dangling once the element it pointed to is deleted  *)
(* or leaked.                                                                *)
Pointers == Uids \cup {Null, Dangling}

Flags == {"EFirstScanComplete", "EAppListHasChanged",
          "ENotifyUpdateOnFirstScanComplete", "ELangChangePending"}
Presence == {"ENotPresent", "ENotPresentPendingUpdate", "EPresentPendingUpdate",
             "EIsPresent", "ESuperseded"}

AppData == [uid : Uids, file : Files, stamp : Stamps \cup {Absent}, lang : Languages,
            iIsPresent : Presence, iSuccessor : Files \cup {Null}]
StoredApp == [uid : Uids, file : Files, stamp : Stamps \cup {Absent}]
ListFile == [lang : Languages, apps : Seq(StoredApp)]
Storers == [lang : Languages, next : Pointers, out : Seq(StoredApp)]

ASSUME FileAssumption == NoFile \notin ListFile /\ Off \notin Storers

TypeOK ==
    /\ disk \in [Files -> Stamps \cup {Absent}]
    /\ cache \in ListFile \cup {NoFile}
    /\ backup \in ListFile \cup {NoFile}
    /\ language \in Languages
    /\ phase \in {"Down", "Restoring", "Up"}
    /\ iAppData \in Seq(AppData)
    /\ iValidFirstAppData \in Pointers
    /\ iFlags \subseteq Flags
    /\ iNNAInstallation \in BOOLEAN /\ iObserver \in BOOLEAN
    /\ iAppIdler \in BOOLEAN /\ idlerUnstarted \in BOOLEAN
    /\ iAppRegFinder \in [scope : SUBSET Files, dir : 0 .. Len(Dirs), files : SUBSET Files]
    /\ iAppIconLoader \in Pointers \cup {Off}
    /\ iAppListStorer \in Storers \cup {Off}
    /\ iPrevLanguage \in Languages \cup {"ELangNone"}
    /\ iLangNotifier \in BOOLEAN
    /\ calls \subseteq {"InitialListPopulationComplete", "EAppListChanged", "NotifyScanComplete"}
    /\ rescanDue \in BOOLEAN /\ rescanOwed \in BOOLEAN /\ untold \in BOOLEAN
    /\ changes \in 0 .. MaxChanges /\ crashes \in 0 .. MaxCrashes

----------------------------------------------------------------------------
(* The elements of the list.                                                 *)

IsPending(a) == a.iIsPresent \in {"EPresentPendingUpdate", "ENotPresentPendingUpdate"}

SetAppPending(a) ==
    [a EXCEPT !.iIsPresent = IF @ \in {"ENotPresent", "ENotPresentPendingUpdate"}
                             THEN "ENotPresentPendingUpdate" ELSE "EPresentPendingUpdate"]

SetPending(s, which) ==
    [i \in DOMAIN s |-> IF s[i].file \in which THEN SetAppPending(s[i]) ELSE s[i]]

UndoSetPending(s) ==
    [i \in DOMAIN s |-> IF s[i].iIsPresent = "EPresentPendingUpdate"
                        THEN [s[i] EXCEPT !.iIsPresent = "EIsPresent"] ELSE s[i]]

SetNotFound(s) ==
    [i \in DOMAIN s |-> IF IsPending(s[i]) THEN [s[i] EXCEPT !.iIsPresent = "ENotPresent"] ELSE s[i]]

AnyPending(s) == \E i \in DOMAIN s : IsPending(s[i])

Head0(s) == IF s = <<>> THEN Null ELSE s[1].uid

(* AppDataByUid: the position of the element, 0 if there is none.            *)
AppDataByUid(s, u) ==
    IF \E i \in DOMAIN s : s[i].uid = u THEN CHOOSE i \in DOMAIN s : s[i].uid = u ELSE 0

(* Mutant: the walk does not move on.                                        *)
NextOfStuck(s, u) == u

(* Next(): a leaked or deleted element is never followed here.               *)
NextOf(s, u) ==
    LET i == AppDataByUid(s, u) IN IF i \in 1 .. Len(s) - 1 THEN s[i + 1].uid ELSE Null

Stored(a) == [uid |-> a.uid, file |-> a.file, stamp |-> a.stamp]

(* CApaAppData::NewL reads the registration file as it is now.               *)
NewApp(f) == [uid |-> UidOf[f], file |-> f, stamp |-> disk[f], lang |-> language,
              iIsPresent |-> "EIsPresent", iSuccessor |-> Null]
Readable(f) == disk[f] # Absent

(* Mutant: an update that does not notice the language.                      *)
UpdateIgnoresLanguage(a) == [a EXCEPT !.stamp = disk[a.file]]

(* CApaAppData::Update: something is newer than what was read, or in another *)
(* language; it is read again, whether it can be or not.  Registration file, *)
(* localisable resource and icons share one modification time here.          *)
UpdateChanges(a) == disk[a.file] # a.stamp \/ a.lang # language
Update(a) == [a EXCEPT !.stamp = disk[a.file], !.lang = language]

(* How far PurgeL gets: the elements it reaches, by UID, and the files that  *)
(* cannot be read then for want of memory.  It leaves at an element that is  *)
(* not present if iUninstalledApps cannot be created or extended.            *)
Successors(s) == {s[i].iSuccessor : i \in {j \in DOMAIN s : s[j].iIsPresent = "ESuperseded"}}
Unread(s) == IF "NewFails" \in Happens THEN SUBSET Successors(s) ELSE {{}}
WholePurges(s) == {[reached |-> Uids, unread |-> u] : u \in Unread(s)}
UidsTo(s, n) == {s[i].uid : i \in 1 .. n}
CutPurges(s) ==
    IF "PurgeFails" \in Happens
    THEN {[reached |-> UidsTo(s, n), unread |-> u] :
          n \in {m \in DOMAIN s : s[m].iIsPresent = "ENotPresent"}, u \in Unread(s)}
    ELSE {}

(* The elements PurgeL deletes: those not present, the one it leaves at,     *)
(* which is out of the list by then, included; and those whose successor can *)
(* be read, which takes their place.                                         *)
CanReplace(a, p) == Readable(a.iSuccessor) /\ a.iSuccessor \notin p.unread
Replaced(a, p) == a.iIsPresent = "ESuperseded" /\ a.uid \in p.reached /\ CanReplace(a, p)
Removed(a, p) == a.iIsPresent = "ENotPresent" /\ a.uid \in p.reached
Purged(a, p) == Removed(a, p) \/ Replaced(a, p)

(* PurgeL's prev stays behind an element that could not be replaced, so when *)
(* the next element it deletes is unlinked this one is too, and is leaked.   *)
Stuck(a, p) == a.iIsPresent = "ESuperseded" /\ a.uid \in p.reached /\ ~CanReplace(a, p)
Leaked(s, i, p) ==
    /\ Stuck(s[i], p)
    /\ \E j \in DOMAIN s : i < j /\ Purged(s[j], p) /\ \A k \in i + 1 .. j - 1 : Stuck(s[k], p)

(* Mutant: an element that was superseded is dropped, not replaced.          *)
KeptForgetsSuccessor(s, p) == {i \in DOMAIN s : ~Purged(s[i], p) /\ ~Leaked(s, i, p)}

(* PurgeL: the places it keeps, in their order, each with its element or its *)
(* element's successor.                                                      *)
Kept(s, p) == {i \in DOMAIN s : ~Removed(s[i], p) /\ ~Leaked(s, i, p)}
NthOf(S, n) == CHOOSE i \in S : Cardinality({j \in S : j < i}) = n - 1
Renewed(a, p) == IF Replaced(a, p) THEN NewApp(a.iSuccessor) ELSE a
Purge(s, p) == [n \in 1 .. Cardinality(Kept(s, p)) |-> Renewed(s[NthOf(Kept(s, p), n)], p)]

(* The elements that no pointer may point to after PurgeL.                   *)
PurgedUids(s, p) == {s[i].uid : i \in {j \in DOMAIN s : Purged(s[j], p) \/ Leaked(s, j, p)}}

Repoint(p, gone) == IF p \in gone THEN Dangling ELSE p

----------------------------------------------------------------------------
(* CApaAppRegFinder.                                                         *)

FindIn(scope) == [scope |-> scope, dir |-> 0, files |-> {}]

Listed(scope, i) == {f \in Dirs[i] \cap scope : disk[f] # Absent}

(* Where the finder stands when there is nothing left.  Mutant: past that.   *)
PastTheEnd == Len(Dirs) + 1
TheEnd == Len(Dirs)

(* The directory NextL reads from: the one whose listing is not exhausted,   *)
(* else the next one that is not empty, listed now.                          *)
Listing(fin) ==
    LET later == {i \in DOMAIN Dirs : i > fin.dir /\ Listed(fin.scope, i) # {}}
    IN  IF fin.files # {} THEN fin
        ELSE IF later = {} THEN [fin EXCEPT !.dir = TheEnd]
        ELSE LET i == CHOOSE j \in later : \A k \in later : j <= k
             IN  [fin EXCEPT !.dir = i, !.files = Listed(fin.scope, i)]

(* FindAndAddSpecificAppL's search: the first registration of u.             *)
FirstRegistrations(u) ==
    LET where == {i \in DOMAIN Dirs : \E f \in Listed(Files, i) : UidOf[f] = u}
    IN  IF where = {} THEN {}
        ELSE LET i == CHOOSE j \in where : \A k \in where : j <= k
             IN  {f \in Listed(Files, i) : UidOf[f] = u}

----------------------------------------------------------------------------
(* One IdleUpdateL: the set of its possible results, with the list and flag  *)
(* it leaves, the elements it deleted, whether more is to come, and whether  *)
(* a failure was met (which it ignores or leaves with, as the flags say).    *)

Result(s, changed, gone, fin, more, failed) ==
    [list |-> s, changed |-> changed, gone |-> gone, finder |-> fin,
     more |-> more, failed |-> failed]

(* UpdateNextAppL on an application not in the list, which is added at the   *)
(* head; a failure to read it is ignored.                                    *)
AddApp(s, f, fin) ==
    (IF Readable(f) THEN {Result(<<NewApp(f)>> \o s, TRUE, {}, fin, TRUE, FALSE)}
                    ELSE {Result(s, FALSE, {}, fin, TRUE, FALSE)})
    \cup (IF "NewFails" \in Happens THEN {Result(s, FALSE, {}, fin, TRUE, FALSE)} ELSE {})

(* ... on one found in another file than before: replaced when purging.      *)
Supersede(s, i, f, fin) ==
    {Result([s EXCEPT ![i].iSuccessor = f, ![i].iIsPresent = "ESuperseded"],
            TRUE, {}, fin, TRUE, FALSE)}
    \cup (IF "SuccessorFails" \in Happens
          THEN {Result([s EXCEPT ![i].iSuccessor = Null], FALSE, {}, fin, FALSE, TRUE)}
          ELSE {})

(* ... and on one found where it was.                                        *)
Refresh(s, i, fin) ==
    {Result([s EXCEPT ![i] = [Update(s[i]) EXCEPT !.iIsPresent = "EIsPresent"]],
            UpdateChanges(s[i]) \/ s[i].iIsPresent = "ENotPresentPendingUpdate",
            {}, fin, TRUE, FALSE)}

(* Mutant: elements are told apart by file, not by UID.                      *)
UpdateNextAppByFile(s, f, fin) ==
    LET found == {j \in DOMAIN s : s[j].file = f} IN
    IF found = {} THEN AddApp(s, f, fin)
    ELSE LET i == CHOOSE j \in found : TRUE IN
         IF ~IsPending(s[i]) THEN {Result(s, FALSE, {}, fin, TRUE, FALSE)} ELSE Refresh(s, i, fin)

UpdateNextApp(s, f, fin) ==
    LET i == AppDataByUid(s, UidOf[f]) IN
    IF i = 0 THEN AddApp(s, f, fin)
    ELSE IF ~IsPending(s[i]) THEN {Result(s, FALSE, {}, fin, TRUE, FALSE)}
    ELSE IF s[i].file # f THEN Supersede(s, i, f, fin)
    ELSE Refresh(s, i, fin)

(* Mutants: the final purge is left out; it forgets to report a change.      *)
FinishScanWithoutPurge(s, fin) == {Result(SetNotFound(s), AnyPending(s), {}, fin, FALSE, FALSE)}
FinishScanSilently(s, fin) ==
    LET t == SetNotFound(s)
    IN  {Result(Purge(t, p), FALSE, PurgedUids(t, p), fin, FALSE, FALSE) : p \in WholePurges(t)}

(* The end of the scan.  If PurgeL leaves, the change is not flagged, and    *)
(* the idle scanner goes on: its next call purges the rest.                  *)
FinishScan(s, fin) ==
    LET t == SetNotFound(s)
    IN  {Result(Purge(t, p), AnyPending(s), PurgedUids(t, p), fin, FALSE, FALSE) : p \in WholePurges(t)}
        \cup {Result(Purge(t, p), FALSE, PurgedUids(t, p), fin, TRUE, TRUE) : p \in CutPurges(t)}

(* An application that could not be updated ends the scan: what has not been *)
(* reached yet is marked not present, and nothing is purged.                 *)
AbandonShip(r) ==
    IF r.failed
    THEN Result(SetNotFound(r.list), AnyPending(r.list), r.gone, r.finder, r.more, TRUE)
    ELSE r

IdleUpdate(s, fin) ==
    LET l == Listing(fin) IN
    (IF l.files = {} THEN FinishScan(s, l)
     ELSE UNION {{AbandonShip(r) : r \in UpdateNextApp(s, f, [l EXCEPT !.files = @ \ {f}])} :
                 f \in l.files})
    \cup (IF "NextFails" \in Happens
          THEN {Result(s, FALSE, {}, [l EXCEPT !.files = {}], FALSE, TRUE)} ELSE {})

FlagChange(changed) == IF changed THEN {"EAppListHasChanged"} ELSE {}

----------------------------------------------------------------------------
(* What a client can read from the list.                                     *)
View(s) == {[Stored(s[i]) EXCEPT !.stamp = <<@, s[i].lang>>] : i \in DOMAIN s}

(* untold follows the list and the observer's calls.                         *)
Remember ==
    untold' = IF phase' = "Down" \/ "EAppListChanged" \in calls' THEN FALSE
              ELSE untold \/ View(iAppData') # View(iAppData)

----------------------------------------------------------------------------
(* The end of a scan and of icon loading.                                    *)

(* ScanComplete and NotifyObserver: the calls made on the observer.          *)
ObserverCalls(observer, fl) ==
    IF ~observer THEN {}
    ELSE (IF "EFirstScanComplete" \in fl THEN {} ELSE {"InitialListPopulationComplete"})
         \cup {IF fl \cap {"EAppListHasChanged", "ENotifyUpdateOnFirstScanComplete"} # {}
               THEN "EAppListChanged" ELSE "NotifyScanComplete"}

StoreOutcomes(s) ==
    {[lang |-> language, next |-> Head0(s), out |-> <<>>]}
    \cup (IF "StoreFails" \in Happens THEN {Off} ELSE {})

(* The backup is as good as a new file when nothing has changed.             *)
BackupIsGood(fl) == "EAppListHasChanged" \notin fl /\ backup # NoFile

(* Mutant: a backup that is of no use is not deleted.                        *)
KeepOrStoreLeavesBackup(s, fl) ==
    IF BackupIsGood(fl)
    THEN cache' = backup /\ backup' = NoFile /\ iAppListStorer' = Off
    ELSE cache' = cache /\ backup' = backup /\ iAppListStorer' \in StoreOutcomes(s)

KeepOrStore(s, fl) ==
    /\ backup' = NoFile
    /\ IF BackupIsGood(fl)
       THEN cache' = backup /\ iAppListStorer' = Off
       ELSE cache' = cache /\ iAppListStorer' \in StoreOutcomes(s)

(* ScanComplete: FirstApp starts at the new head.  Mutant: it does not.      *)
ScanCompleteKeepsFirst(s) == UNCHANGED iValidFirstAppData /\ iNNAInstallation' = FALSE
ScanComplete(s) == iValidFirstAppData' = Head0(s) /\ iNNAInstallation' = FALSE

(* InitiateStoringOfAppList on the list s with flags fl: the observer is     *)
(* told, then the backup is renamed back if nothing changed, else deleted    *)
(* and a storer started.                                                     *)
InitiateStoring(s, fl, observer) ==
    /\ calls' = ObserverCalls(observer, fl)
    /\ ScanComplete(s)
    /\ iObserver' = FALSE
    /\ iFlags' = (fl \cup {"EFirstScanComplete"})
                 \ {"ENotifyUpdateOnFirstScanComplete", "EAppListHasChanged"}
    /\ KeepOrStore(s, fl)

(* What follows a scan that left the list s, its deleted elements gone.  The *)
(* icon loader may not be created: nobody is told then, nothing stored.      *)
IconLoaders(s) == {Head0(s)} \cup (IF "LoaderFails" \in Happens THEN {Off} ELSE {})

AfterScan(s, gone, fl, observer) ==
    IF iLoadMbmIconsOnDemand
    THEN iAppIconLoader' = Off /\ InitiateStoring(s, fl, observer)
    ELSE /\ iAppIconLoader' \in IconLoaders(s)
         /\ iValidFirstAppData' = Repoint(iValidFirstAppData, gone)
         /\ iFlags' = fl
         /\ iObserver' = observer
         /\ calls' = {}
         /\ UNCHANGED <<cache, backup, iNNAInstallation, iAppListStorer>>

(* CApaIdleIconLoader::RunL on an element; it may leave, which is ignored.   *)
LoadIcons ==
    /\ phase = "Up"
    /\ iAppIconLoader \in Uids
    /\ iAppIconLoader' = NextOf(iAppData, iAppIconLoader)
    /\ calls' = {}
    /\ UNCHANGED <<diskVars, listVars, scanVars, iAppListStorer, worldVars, iLangNotifier>>
    /\ Remember

IconsLoaded ==
    /\ phase = "Up"
    /\ iAppIconLoader = Null
    /\ iAppIconLoader' = Off
    /\ InitiateStoring(iAppData, iFlags, iObserver)
    /\ UNCHANGED <<disk, iAppData, scanVars, worldVars, iLangNotifier>>
    /\ Remember

(* CApaAppListStorer::RunL on an element.  Its first run is a minute away.   *)
StoreEntry ==
    /\ phase = "Up"
    /\ iAppListStorer # Off
    /\ iAppListStorer.next \in Uids
    /\ LET i == AppDataByUid(iAppData, iAppListStorer.next) IN
       iAppListStorer' = [iAppListStorer EXCEPT !.next = NextOf(iAppData, @),
                                                !.out = Append(@, Stored(iAppData[i]))]
    /\ calls' = {}
    /\ UNCHANGED <<diskVars, listVars, scanVars, iAppIconLoader, worldVars, iLangNotifier>>
    /\ Remember

(* The temporary file is complete and replaces AppsList.bin in one step.     *)
StoreDone ==
    /\ phase = "Up"
    /\ iAppListStorer # Off
    /\ iAppListStorer.next = Null
    /\ cache' = [lang |-> iAppListStorer.lang, apps |-> iAppListStorer.out]
    /\ iAppListStorer' = Off
    /\ calls' = {}
    /\ UNCHANGED <<disk, backup, listVars, scanVars, iAppIconLoader, worldVars, iLangNotifier>>
    /\ Remember

(* Its RunError, or a failed replace: the temporary file is deleted.         *)
StoreFails ==
    /\ "StoreFails" \in Happens
    /\ phase = "Up"
    /\ iAppListStorer # Off
    /\ iAppListStorer' = Off
    /\ calls' = {}
    /\ UNCHANGED <<diskVars, listVars, scanVars, iAppIconLoader, worldVars, iLangNotifier>>
    /\ Remember

----------------------------------------------------------------------------
(* Scanning.                                                                 *)

(* Mutant: an icon loader that is at work is left alone.                     *)
StopStorerOnly == iAppListStorer' = Off /\ iAppIconLoader' = iAppIconLoader

StopWorkers == iAppListStorer' = Off /\ iAppIconLoader' = Off

(* StartIdleUpdateL(): storer and icon loader are deleted, every element     *)
(* made pending and the finder reset, then the idle scanner started.         *)
StartScan(s, gone, fl) ==
    /\ StopWorkers
    /\ iAppData' = SetPending(s, Files)
    /\ iAppRegFinder' = FindIn(Files)
    /\ iAppIdler' = TRUE /\ idlerUnstarted' = FALSE
    /\ iValidFirstAppData' = Repoint(iValidFirstAppData, gone)
    /\ iFlags' = fl
    /\ rescanOwed' = FALSE
    /\ calls' = {}

(* It leaves before it does any of that, when the default icon's name cannot *)
(* be allocated; or once workers and idle scanner are deleted, when there is *)
(* no memory for a new idle scanner; or, all made pending, when the finder   *)
(* cannot be reset.  What the caller did before stays done.                  *)
StartScanFails(s, gone, fl) ==
    /\ "StartFails" \in Happens
    /\ iValidFirstAppData' = Repoint(iValidFirstAppData, gone)
    /\ iFlags' = fl
    /\ calls' = {}
    /\ UNCHANGED iAppRegFinder
    /\ \/ /\ iAppData' = s
          /\ iAppIconLoader' = Repoint(iAppIconLoader, gone)
          /\ iAppListStorer' = IF iAppListStorer = Off THEN Off
                               ELSE [iAppListStorer EXCEPT !.next = Repoint(@, gone)]
          /\ UNCHANGED <<iAppIdler, idlerUnstarted, rescanOwed>>
       \/ /\ StopWorkers
          /\ iAppIdler' = FALSE
          /\ idlerUnstarted' \in BOOLEAN
          /\ iAppData' = IF idlerUnstarted' THEN SetPending(s, Files) ELSE s
          /\ rescanOwed' = (rescanOwed \/ iAppIdler)

(* Mutant: AppsList.bin stays in place while the list is scanned.            *)
MoveCacheAwayCopies == backup' = (IF cache # NoFile THEN cache ELSE backup) /\ cache' = cache

(* StartIdleUpdateL(aObserver): AppsList.bin replaces the backup; if there   *)
(* is none, the backup stays.                                                *)
MoveCacheAway ==
    /\ backup' = IF cache # NoFile THEN cache ELSE backup
    /\ cache' = NoFile

(* The observer a change of language scans for: whichever is set, none once  *)
(* a scan has finished.  Mutant: none.                                       *)
LanguageScanForgetsObserver == iObserver' = FALSE
LanguageScanObserver == iObserver' = iObserver

(* CApaAppListServer::UpdateApps, which ignores a failure to start.          *)
UpdateApps ==
    /\ phase = "Up"
    /\ rescanDue
    /\ rescanDue' = FALSE
    /\ MoveCacheAway
    /\ iObserver' = TRUE
    /\ \/ StartScan(iAppData, {}, iFlags)
       \/ StartScanFails(iAppData, {}, iFlags)
    /\ UNCHANGED <<disk, iNNAInstallation, language, phase, iPrevLanguage, iLangNotifier,
                   changes, crashes>>
    /\ Remember

(* CApaLangChangeMonitor::RunL and its RunError.  The notifier's status is a *)
(* set of bits: a change of language that came together with a change of     *)
(* something else is not EChangesLocale alone, and nothing is done for it.   *)
LangChangeRunL ==
    /\ phase = "Up"
    /\ iLangNotifier
    /\ iLangNotifier' = FALSE
    /\ \E coalesced \in (IF "Coalesced" \in Happens THEN BOOLEAN ELSE {FALSE}) :
         IF coalesced \/ iPrevLanguage = language
         THEN /\ calls' = {}
              /\ rescanOwed' = TRUE
              /\ UNCHANGED <<cache, backup, iAppData, iValidFirstAppData, iFlags, iObserver,
                             scanVars, afterVars, iPrevLanguage>>
         ELSE /\ MoveCacheAway
              /\ LanguageScanObserver
              /\ \/ /\ StartScan(iAppData, {}, iFlags \cup {"ELangChangePending"})
                    /\ iPrevLanguage' = language
                 \/ /\ StartScanFails(iAppData, {}, iFlags \ {"ELangChangePending"})
                    /\ iPrevLanguage' = "ELangNone"
    /\ UNCHANGED <<disk, iNNAInstallation, language, phase, rescanDue, changes, crashes>>
    /\ Remember

(* IdleUpdateCallbackL when IdleUpdateL returns, or PurgeL leaves in it: the *)
(* timer is queued again before its callback, so that there is more to come. *)
ScanStep ==
    /\ phase = "Up"
    /\ iAppIdler
    /\ \E r \in IdleUpdate(iAppData, iAppRegFinder) :
         /\ ~(r.failed /\ "ENotifyUpdateOnFirstScanComplete" \in iFlags)
         /\ iAppData' = r.list
         /\ iAppRegFinder' = r.finder
         /\ iAppIdler' = r.more
         /\ LET fl == iFlags \cup FlagChange(r.changed) IN
            IF r.more
            THEN /\ iFlags' = fl
                 /\ iValidFirstAppData' = Repoint(iValidFirstAppData, r.gone)
                 /\ calls' = {}
                 /\ UNCHANGED <<cache, backup, iNNAInstallation, iObserver, afterVars>>
            ELSE AfterScan(r.list, r.gone, fl \ {"ELangChangePending"}, iObserver)
    /\ UNCHANGED <<disk, idlerUnstarted, worldVars, iLangNotifier>>
    /\ Remember

(* IdleUpdateL leaves with the error while RestoreL's flag is set.  The      *)
(* server's scheduler ignores it, and the timer, queued again before its     *)
(* callback, carries on with the scan.                                       *)
ScanStepLeaves ==
    /\ phase = "Up"
    /\ iAppIdler
    /\ "ENotifyUpdateOnFirstScanComplete" \in iFlags
    /\ \E r \in IdleUpdate(iAppData, iAppRegFinder) :
         /\ r.failed
         /\ iAppData' = r.list
         /\ iAppRegFinder' = r.finder
         /\ iValidFirstAppData' = Repoint(iValidFirstAppData, r.gone)
    /\ calls' = {}
    /\ UNCHANGED <<diskVars, iFlags, iNNAInstallation, iObserver, iAppIdler, idlerUnstarted,
                   afterVars, worldVars, iLangNotifier>>
    /\ Remember

(* FindAppInList, FindSpecificAppL and FindAndAddSpecificAppL: a client asks *)
(* for an application the scan in progress has not found, or not refreshed.  *)
FindSpecificApp(u) ==
    /\ "FindSpecific" \in Happens
    /\ phase = "Up"
    /\ iAppIdler \/ idlerUnstarted
    /\ LET i == AppDataByUid(iAppData, u) IN
       i # 0 => "ELangChangePending" \in iFlags /\ IsPending(iAppData[i])
    /\ \E f \in FirstRegistrations(u) : \E r \in UpdateNextApp(iAppData, f, iAppRegFinder) :
         /\ iAppData' = r.list
         /\ iFlags' = iFlags \cup FlagChange(r.changed)
    /\ calls' = {}
    /\ UNCHANGED <<diskVars, iValidFirstAppData, iNNAInstallation, iObserver, scanVars, afterVars,
                   worldVars, iLangNotifier>>
    /\ Remember

(* StopScan: for an uninstallation, or for an update of non-native           *)
(* applications (aNNAInstall).                                               *)
StopScan(aNNAInstall) ==
    /\ "StopScan" \in Happens
    /\ phase = "Up"
    /\ iNNAInstallation' = (iNNAInstallation \/ aNNAInstall)
    /\ iAppIdler' = FALSE /\ idlerUnstarted' = FALSE
    /\ iAppData' = UndoSetPending(iAppData)
    /\ rescanDue' = (rescanDue \/ iAppIdler)
    /\ rescanOwed' = (rescanOwed \/ iAppIdler)
    /\ calls' = {}
    /\ UNCHANGED <<diskVars, iValidFirstAppData, iFlags, iObserver, iAppRegFinder, afterVars,
                   language, phase, iPrevLanguage, iLangNotifier, changes, crashes>>
    /\ Remember

(* RestartScanL: purge, ignoring a leave, then scan without an observer of   *)
(* its own and without moving AppsList.bin away.                             *)
RestartScan ==
    /\ "RestartScan" \in Happens
    /\ phase = "Up"
    /\ \E p \in WholePurges(iAppData) \cup CutPurges(iAppData) :
         \/ StartScan(Purge(iAppData, p), PurgedUids(iAppData, p), iFlags)
         \/ StartScanFails(Purge(iAppData, p), PurgedUids(iAppData, p), iFlags)
    /\ UNCHANGED <<diskVars, iNNAInstallation, iObserver, language, phase, iPrevLanguage,
                   iLangNotifier, rescanDue, changes, crashes>>
    /\ Remember

----------------------------------------------------------------------------
(* Power on: InitListL and RestoreL.                                         *)

(* The elements are read in the order written and each added at the head.    *)
RestoredList(file) ==
    LET app(r) == [uid |-> r.uid, file |-> r.file, stamp |-> r.stamp, lang |-> file.lang,
                   iIsPresent |-> "EIsPresent", iSuccessor |-> Null]
    IN  Reverse([i \in DOMAIN file.apps |-> app(file.apps[i])])

(* InitListL from the point where the list cannot be restored.  If the scan  *)
(* cannot be started, the server comes up without one.                       *)
ScanFromNothing(fl) ==
    /\ cache' = NoFile
    /\ iAppData' = <<>>
    /\ iValidFirstAppData' = Null
    /\ iFlags' = fl
    /\ iObserver' = TRUE
    /\ iAppIdler' \in (IF "StartFails" \in Happens THEN BOOLEAN ELSE {TRUE})
    /\ idlerUnstarted' \in (IF iAppIdler' THEN {FALSE} ELSE BOOLEAN)
    /\ iAppRegFinder' = FindIn(Files)
    /\ phase' = "Up"
    /\ rescanOwed' = ~iAppIdler'

Restorable == cache # NoFile /\ cache.lang = language

PowerOn ==
    /\ phase = "Down"
    /\ iPrevLanguage' = language
    /\ iLangNotifier' = FALSE
    /\ calls' = {}
    /\ \/ /\ Restorable
          /\ backup' = cache
          /\ cache' = NoFile
          /\ iAppData' = SetPending(RestoredList(cache), Removable)
          /\ iFlags' = {"ENotifyUpdateOnFirstScanComplete"}
          /\ iAppRegFinder' = FindIn(Removable)
          /\ phase' = "Restoring"
          /\ UNCHANGED <<iValidFirstAppData, iObserver, iAppIdler, idlerUnstarted, rescanOwed>>
       \/ /\ ~Restorable \/ "RestoreFails" \in Happens
          /\ backup' = NoFile
          /\ ScanFromNothing({})
    /\ UNCHANGED <<disk, iNNAInstallation, afterVars, language, rescanDue, changes, crashes>>
    /\ Remember

(* ScanRemovableDrivesAndUpdateL, one turn of its loop.  If it leaves,       *)
(* everything is scanned; the backup and the flag set by RestoreL stay.      *)
RestoreStep ==
    /\ phase = "Restoring"
    /\ \E r \in IdleUpdate(iAppData, iAppRegFinder) :
         IF r.failed
         THEN /\ ScanFromNothing({"ENotifyUpdateOnFirstScanComplete"})
              /\ calls' = {}
              /\ UNCHANGED <<backup, iNNAInstallation, afterVars>>
         ELSE /\ iAppData' = r.list
              /\ iAppRegFinder' = r.finder
              /\ LET fl == iFlags \cup FlagChange(r.changed) IN
                 IF r.more
                 THEN /\ iFlags' = fl
                      /\ calls' = {}
                      /\ UNCHANGED <<cache, backup, iValidFirstAppData, iNNAInstallation,
                                     iObserver, afterVars, phase>>
                 ELSE phase' = "Up" /\ AfterScan(r.list, r.gone, fl, TRUE)
              /\ UNCHANGED <<iAppIdler, idlerUnstarted, rescanOwed>>
    /\ UNCHANGED <<disk, language, iPrevLanguage, iLangNotifier, rescanDue, changes, crashes>>
    /\ Remember

(* The server is gone with all it held in memory, what the monitor had still *)
(* to report included; temporary files are deleted at the next power on, as  *)
(* the backup is.                                                            *)
PowerLoss ==
    /\ phase # "Down"
    /\ crashes < MaxCrashes
    /\ crashes' = crashes + 1
    /\ phase' = "Down"
    /\ iAppData' = <<>>
    /\ iValidFirstAppData' = Null
    /\ iFlags' = {}
    /\ iNNAInstallation' = FALSE
    /\ iObserver' = FALSE
    /\ iAppIdler' = FALSE /\ idlerUnstarted' = FALSE
    /\ iAppRegFinder' = FindIn({})
    /\ iAppIconLoader' = Off
    /\ iAppListStorer' = Off
    /\ rescanDue' = FALSE
    /\ calls' = {}
    /\ UNCHANGED <<diskVars, language, iPrevLanguage, iLangNotifier, rescanOwed, changes>>
    /\ Remember

----------------------------------------------------------------------------
(* The world.                                                                *)

(* A file is installed, replaced or removed.  While the server is down only  *)
(* removable media change.                                                   *)
FsChange(f, t) ==
    /\ changes < MaxChanges
    /\ disk[f] # t
    /\ phase = "Down" => f \in Removable
    /\ disk' = [disk EXCEPT ![f] = t]
    /\ rescanDue' = (rescanDue \/ phase # "Down")
    /\ rescanOwed' = (rescanOwed \/ phase # "Down")
    /\ changes' = changes + 1
    /\ calls' = {}
    /\ UNCHANGED <<cache, backup, listVars, scanVars, afterVars, language, phase, iPrevLanguage,
                   iLangNotifier, crashes>>
    /\ Remember

(* Something else in a monitored directory changes, or a plug-in asks for a  *)
(* rescan.                                                                   *)
SpuriousChange ==
    /\ "Spurious" \in Happens
    /\ changes < MaxChanges
    /\ phase # "Down"
    /\ rescanDue' = TRUE
    /\ changes' = changes + 1
    /\ calls' = {}
    /\ UNCHANGED <<diskVars, listVars, scanVars, afterVars, language, phase, iPrevLanguage,
                   iLangNotifier, rescanOwed, crashes>>
    /\ Remember

(* The user changes the language: rarely, so not again before the monitor's  *)
(* RunL has run.                                                             *)
SetLanguage(l) ==
    /\ "Language" \in Happens
    /\ ~iLangNotifier
    /\ changes < MaxChanges
    /\ l # language
    /\ language' = l
    /\ iLangNotifier' = (phase # "Down")
    /\ changes' = changes + 1
    /\ calls' = {}
    /\ UNCHANGED <<diskVars, listVars, scanVars, afterVars, phase, iPrevLanguage, rescanDue,
                   rescanOwed, crashes>>
    /\ Remember

----------------------------------------------------------------------------
Init ==
    /\ disk \in [Files -> Stamps \cup {Absent}]
    /\ cache = NoFile /\ backup = NoFile
    /\ language \in Languages
    /\ phase = "Down"
    /\ iAppData = <<>>
    /\ iValidFirstAppData = Null
    /\ iFlags = {}
    /\ iNNAInstallation = FALSE /\ iObserver = FALSE
    /\ iAppIdler = FALSE /\ idlerUnstarted = FALSE
    /\ iAppRegFinder = FindIn({})
    /\ iAppIconLoader = Off /\ iAppListStorer = Off
    /\ iPrevLanguage = language
    /\ iLangNotifier = FALSE
    /\ calls = {}
    /\ rescanDue = FALSE /\ rescanOwed = FALSE /\ untold = FALSE
    /\ changes = 0 /\ crashes = 0

ServerStep ==
    \/ UpdateApps \/ LangChangeRunL \/ ScanStep \/ ScanStepLeaves \/ LoadIcons \/ IconsLoaded
    \/ StoreEntry \/ StoreDone \/ PowerOn \/ RestoreStep

Next ==
    \/ ServerStep
    \/ StoreFails
    \/ PowerLoss
    \/ RestartScan
    \/ \E nna \in BOOLEAN : StopScan(nna)
    \/ \E u \in Uids : FindSpecificApp(u)
    \/ \E f \in Files, t \in Stamps \cup {Absent} : FsChange(f, t)
    \/ SpuriousChange
    \/ \E l \in Languages : SetLanguage(l)

Spec == Init /\ [][Next]_vars

(* The server's thread runs whatever is ready, and power comes back.  Time   *)
(* passes, so the storer's minute ends; the monitor reports what it owes     *)
(* (module FsMonitor).                                                       *)
FairSpec == Spec /\ WF_vars(ServerStep)

----------------------------------------------------------------------------
(* Properties.                                                               *)

Fresh(r) == \A g \in Files :
    disk[g] # Absent /\ UidOf[g] = r.uid =>
        \A i, j \in DOMAIN Dirs : g \in Dirs[i] /\ r.file \in Dirs[j] => j <= i

(* What a scan of everything may find now: it takes the first registration   *)
(* of an application, any of them if one directory has several.              *)
OnDisk == {r \in {[uid |-> UidOf[f], file |-> f, stamp |-> disk[f]] :
                  f \in {g \in Files : disk[g] # Absent}} : Fresh(r)}

UidsOf(S) == {r.uid : r \in S}
ListUids == {iAppData[i].uid : i \in DOMAIN iAppData}
Fixed(S) == {r \in S : r.file \notin Removable}

Working == iAppIdler \/ iAppIconLoader # Off \/ iLangNotifier
AtRest == phase = "Up" /\ ~Working /\ ~rescanDue

(* One element per application, and its file registers that application.    *)
OneElementEach ==
    \A i, j \in DOMAIN iAppData :
        /\ iAppData[i].uid = UidOf[iAppData[i].file]
        /\ iAppData[i].uid = iAppData[j].uid => i = j

(* When the server is at rest and no rescan is owed, the list is what is on  *)
(* the phone: each registered application once, from the first directory     *)
(* that registers it, as its files are now and in the current language.  A   *)
(* rescan stays owed after a change of language that LangChangeRunL ignores. *)
ListIsCurrent ==
    AtRest /\ ~rescanOwed =>
        /\ View(iAppData) \subseteq {[r EXCEPT !.stamp = <<@, language>>] : r \in OnDisk}
        /\ UidsOf(OnDisk) \subseteq ListUids

(* AppsList.bin is never stale: whenever the file exists, under that name,   *)
(* and no rescan is owed, a power loss now would restore the fixed drives'   *)
(* applications as they are.                                                 *)
CacheIsCurrent ==
    cache # NoFile /\ ~rescanOwed /\ cache.lang = language =>
        /\ Fixed(ToSet(cache.apps)) \subseteq OnDisk
        /\ UidsOf(Fixed(OnDisk)) \subseteq UidsOf(Fixed(ToSet(cache.apps)))

(* AppsList.bin and its backup never both exist while the server runs.       *)
OneCopy == ~(cache # NoFile /\ backup # NoFile)

(* The backup lives no longer than the work it guards.                       *)
BackupOnlyWhileWorking ==
    phase = "Up" /\ backup # NoFile => iAppIdler \/ iAppIconLoader # Off \/ rescanDue

(* No change of the list goes unreported: once the server is at rest every   *)
(* change a client could have seen has been told to the observer.            *)
ChangesAreTold == AtRest => ~untold

(* Neither the storer nor the icon loader stands on a deleted element, and   *)
(* the temporary file holds the list's elements up to the storer's, in order.*)
WorkersFollowList ==
    /\ iAppIconLoader \in ListUids \cup {Null, Off}
    /\ iAppListStorer # Off =>
         /\ iAppListStorer.next \in ListUids \cup {Null}
         /\ LET i == AppDataByUid(iAppData, iAppListStorer.next)
                n == IF i = 0 THEN Len(iAppData) ELSE i - 1
            IN  iAppListStorer.out = [k \in 1 .. n |-> Stored(iAppData[k])]

(* FirstApp, which any client's request may call at any time, starts at an   *)
(* element that exists, and at rest at the first one, so that a client that  *)
(* walks the list sees every application.                                    *)
FirstValid ==
    /\ iValidFirstAppData \in ListUids \cup {Null}
    /\ AtRest => iValidFirstAppData = Head0(iAppData)

(* The observer, which keeps the file monitor blocked until then, hears that *)
(* the list is populated exactly when the first scan completes: no failure,  *)
(* change of language or restart on the way to it loses the observer.        *)
PopulationReportedOnce ==
    [][("EFirstScanComplete" \in iFlags' \ iFlags) <=>
       ("InitialListPopulationComplete" \in calls')]_vars

(* Only a scan's end, or RestartScanL's purge, removes applications, and     *)
(* only those with no registration left on the phone, as far as is known.    *)
NothingPresentIsRemoved ==
    [][phase = "Down" \/ phase' = "Down" \/ rescanOwed \/ rescanOwed' \/
       \A r \in OnDisk : r.uid \in ListUids => r.uid \in ListUids']_vars

(* A finished update is stored: at rest AppsList.bin holds the list that is  *)
(* in memory.                                                                *)
StoredAtRest ==
    AtRest /\ iAppListStorer = Off =>
        cache # NoFile /\ ToSet(cache.apps) = {Stored(iAppData[i]) : i \in DOMAIN iAppData}

(* A power loss at any moment leaves no work undone: once the world stops    *)
(* changing and scans are no longer stopped, the server comes to rest with   *)
(* the list stored.                                                          *)
ComesToRest ==
    <>[][\A nna \in BOOLEAN : ~StopScan(nna)]_vars =>
    <>[](AtRest /\ iAppListStorer = Off /\ StoredAtRest)

=============================================================================
