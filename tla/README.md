# The application architecture server, in TLA+

This directory holds TLA+ modules for the core of this repository's only
product code, the Symbian application architecture ("apparc", in
`src/common/tools/ats/smoketest/localisation/apparchitecture/`, written `B`
below), with the TLC configurations that check them and the proofs TLAPS
checks. The rest of the repository is the build of a package, reporting
scripts, and test suites for components that are not in it.

`PROJECT.json` has the same content in a form for tools: components, runs,
mutants (a plausible bug for every property, which TLC must find), the source
lines each definition stands for, findings, hazards, theorems.

To check a module: `tlc -config MCAppList.cfg MCAppList`; to check the proofs:
`tlapm M.tla` for M in `FsMonitorProofs`, `AppListServerProofs`, `AppListProofs`,
`AppListScanProofs`, `UpdateLogProofs`, `NonNativeUpdatesProofs`,
`AtomicUpdatesProofs` and `RecognitionProofs`.

## 1. Inventory

The application architecture server runs on one thread, as active objects of
one scheduler: each handler (`RunL`, idle callback, timer callback, `ServiceL`)
runs to its end before the next begins. Clients reach it by messages; file
changes, time, power loss, memory shortage, the installer and the backup
server act on it at any moment between two handlers.

| component | state it keeps | operations | hard because |
|---|---|---|---|
| file-system monitor, `apserv/APSSCAN.CPP` `CApaFsMonitor` | one notifier per location, a "changed" flag, a "blocked" flag, a periodic timer | start, cancel, `SetBlocked`, notification, tick | a notifier is deaf between its completion and the next tick; blocking races with the timer |
| application list, `apgrfx/APGAPLSTV2.CPP` `CApaAppList`, with `apfile/aprfndr.cpp` `CApaAppRegFinder` | the list, each element's presence, scan position, the workers' positions, `AppsList.bin` and its backup | scan step by step, purge, restore, store, load icons, change of language, `FindAndAddSpecificAppL`, `StopScan`, `RestartScanL` | long scans that anything may interrupt; pointers into a list that is purged; a cache file that must never be stale after a power loss |
| non-native updates, `apserv/apsnnapps.cpp`, `apserv/apsnnappupdates.cpp` | a session's list of updates, temporary files, the log `UpdatedAppsList.bin` | prepare, register, deregister, commit, abort, roll back, recover | a transaction over files: any step may fail and the server may die at any of them, in recovery too |
| server, `apserv/APSSERV.CPP`, `APSSTART.CPP` | sessions, the monitor, blockers, recognizers | construct, backup events, uninstall events, `UpdateApps`, notifications | three owners of one block flag |
| sessions, `apserv/APSSES.CPP` | pending messages, a list under transfer | about sixty requests | requests that wait must be completed once and once only |
| uninstall monitor, `apfile/apuninstallmonitor.cpp` | waiting for start or end | property changes | changes coalesce |
| non-native types, `APSSERV.CPP:593` | a registry and its file | register, deregister, load, save | file and memory must agree |
| recognition, `APSRECUTIL.CPP`, `APSRECCACHE.cpp`, `APSSERV.CPP:985`, `APSSES.CPP:1290` | a session's result and the directory it recognizes in the background; for all sessions the cache, the recognizers' count of users and unload timer | recognize a file or a directory, at once or in the background; transfer, cancel; flush, load, unload | any step may leave; three objects in two processes must agree on whether a request is open; stale cache entries |
| plug-in monitor, `APSSCAN.CPP:250` `CApaEComMonitor` | a request to ECom, a "changed" flag, a timer | start, completion, tick | deaf between a completion and the tick |
| overrides, data types, checkers, launch, client library | mostly data | | little protocol of their own |

How they interact. The monitor's callback and a client's commit both call
`CApaAppListServer::UpdateApps`, which starts a scan of the list. The list tells
its observer, the server, when the first scan is complete
(`InitialListPopulationComplete`, which unblocks the monitor) and, after each
scan, that the list changed or did not (`NotifyUpdate`, `NotifyScanComplete`),
and the server completes the sessions' pending messages. The plug-in monitor's
callback has the server load its recognizers again and flush the cache of
recognition, which every session's recognitions fill and read. The uninstall
monitor and the backup observer block the monitor; the former also stops and
restarts scans. A batch of non-native updates stops a scan at its preparation
and starts one at its commit. When the server starts, it recovers a batch that a
crash interrupted before it restores the list.

What makes each correct. *Monitor*: no change is lost, none told twice, none
told while blocked. *List*: at rest it is what is on the phone; the cached file
is right whenever it exists; every change is told; no pointer dangles; work
ends. *Updates*: all or nothing, and the client is told which, although any
update may fail and the server may die, as long as what undoes a batch can be
done (the events of section 5 are where the code loses this).
*Server and sessions*: whoever waits is answered, and the monitor is blocked
exactly while someone needs it. *Recognition*: never a result for a file's old
content or from old plug-ins, recognizers loaded exactly while used or about to
be unloaded, every recognition answered or cancellable.

## 2. Modules

    ChangeMonitor  <--implements--  FsMonitor  <- FsMonitorProofs, MCFsMonitor
    AtomicUpdates  <--implements--  NonNativeUpdates  <- UpdateLogProofs, MCNonNativeUpdates
        UpdateLogProofs  <- NonNativeUpdatesProofs  <- AtomicUpdatesProofs
                                    AppList  <- AppListProofs, MCAppList
        AppListProofs  <- AppListScanProofs
    FsMonitor  <--part of--  AppListServer  <- AppListServerProofs, MCAppListServer
    RecognitionCache  <--part of--  Recognition  <- RecognitionProofs, MCRecognition

### FsMonitor, ChangeMonitor

One notifier per location (`Idle`, `Armed`, completed with a change or with an
error), the flag, the block, and the timer as a count of clock units left. Each
handler of `CApaFsMonitor` is an action: `NotifierRunL`, `NotifierRunLError`,
`SetBlocked`, `CallBack` and `StopTimer` (the two branches of `TimerCallBack`),
and `Restart` (`Cancel` and `Start`). Outside are `FsChange`, `RequestFails` and
`Elapse`. Priorities matter: the tick has idle priority and runs only when no
notifier has something to handle. That a periodic timer is queued again before
its callback is called is the behaviour of `CPeriodic`, outside this
repository, taken from its documentation. `owed` and `since` are history.

`ChangeMonitor` is what the owner may rely on, in four actions: a callback
comes only for a change, not while blocked, and not within `Period` of the
last. `FsMonitor` implements it, which is checked by TLC and proved.

### AppList

State names are the source's. An element of `iAppData` is its UID, its file,
the file's modification time, the language it was read in, its `iIsPresent` and
its `iSuccessor`; a pointer is the UID of the element, `Null`, or `Dangling`
when the element has been deleted. The registration, localisable and icon files
of an application share one stamp. `iAppRegFinder` is the scan's place: the
scope, the directory reached and its files not yet returned.

One action per handler: `ScanStep` is one `IdleUpdateL` with everything its
last step triggers (purge, `ScanComplete`, icon loading or the observer and the
storer); `ScanStepLeaves`, `StoreFails` are those that fail; `LoadIcons`,
`IconsLoaded`, `StoreEntry`, `StoreDone` the workers; `UpdateApps`,
`LangChangeRunL`, `StopScan`, `RestartScan`, `FindSpecificApp` the calls;
`PowerOn`, `RestoreStep` the construction with `RestoreL`; `PowerLoss`.
`PurgeL` is described by what it does to the list (`Purge`): which places it
keeps and which of those get a new element. `Leaked` elements, which its `prev`
unlinks without deleting, count as gone for pointers too.
A leave out of an idle callback is ignored by `CSvActiveScheduler::Error`
(`APSSTART.CPP:44`), so the scan goes on. That is so of `PurgeL` too, which
leaves at an element that is not present if it has no memory to note its UID
(`PurgeFails`): what it has deleted is gone, the change is not flagged, and the
next callback of the scanner purges again. If the icon loader cannot be created
after a scan (`LoaderFails`), nothing more happens: nobody is told that the scan
is over, and the list is not stored. The scanner is deleted by then, inside its
own callback; the model takes what follows to be as where that memory is still
readable. `StartScanFails` has the three places where a scan that is to start may
leave: before anything is done, with workers and scanner deleted, and with a new
scanner that was never started (`idlerUnstarted`), all elements pending.

`rescanDue` says that the monitor is to call `UpdateApps`, or whoever stopped a
scan to start one again; when they do is their part (`FsMonitor`,
`AppListServer`), and they do so once: a scan that then cannot be started is not
tried again. A power loss makes them forget it. `rescanOwed` is history: a file
changed, a scan was stopped, or the server came up without one, and no scan has
begun since. The two differ when a change is forgotten. At the next power on the
server restores the list as stored and scans the removable drives only
(`APSSERV.CPP:235-242`, `APGAPLSTV2.CPP:1615`), so a change on a fixed drive
that the monitor had seen and not yet reported shows only at the next change. So
the list and the stored file are said to be current only while `rescanOwed` is
false, and that work is done and the list stored, while `rescanDue` is. The
storer keeps the language it was begun in (`lang`), which is that of the
captions it writes. `untold` says that the list changed since the observer last
heard of a change. The status of the notifier of `CApaLangChangeMonitor` is a set
of bits, and its `RunL` compares it with `EChangesLocale` (`APGAPLSTV2.CPP:3036`):
a change of language that came together with a change of something else
(`Coalesced`) is not handled, as one back to the language before is not, and the
list stays in the language it was read in. It is then `rescanOwed`, for the next
scan reads it again. The language does not change a second time before the
monitor's `RunL` has handled the first. `SYMBIAN_BAFL_SYSUTIL`'s test of the ROM
version is one of the ways `RestoreFails`. The SID checker and forced
registrations decide whether a file counts as a registration: here it does when
it exists.

### RecognitionCache, Recognition

`RecognitionCache` is what the sessions share. A file's contents are known by
the time they were written, so that "recognized from what the file holds" can
be said: an entry records the time of modification it was cached under and the
contents it was made from, 0 if a client had only said what they were. Each
write gives the file a new time of modification, which the code relies on too.
The installed plug-ins are a number that grows, and recognizers loaded are
known by it. `LoadRecognizers` and `UnloadRecognizers` are the server's;
`Used` is a recognition's use of them, from loading to unloading, which a
cleanup item does whatever leaves in between. That
`CApaScanningDataRecognizer::LoadRecognizersL` loads all that is installed or
leaves things as they were is an assumption about the recognizer framework. The
cache is its list of directories, last used first, with all entries
(`ToFront`, `Cleanup`, `AddToDirectory`, `DoAdd`); `DoAddLeaves` is what
remains if memory runs out, a directory without entries included. The plug-in
monitor is `EComRunL`, `TimerCallBack` (with `UpdatePlugIns`, the server's
callback) and `StopTimer`; ECom tells only those who have a request with it.

`Recognition` adds the sessions: `RecognizeFiles`, with its loop cut into
`RecognizeNext` so that files change under it; `RecognizeFilesAsync`, whose
utility's `RunL` is `ReadDirectory`, `RecognizeCurrent` and `Finish`; and the
client's part, `CAsyncFileRecognition` and `RApaLsSession`: `FilesRecognized`,
`Fetch`, `CancelRecognizeFiles`, `Disconnect`. A client sends a request and the
server serves it in one step, for nothing the client does in between matters.
Requests for single files, by name and buffer or by handle, are answered at
once; they may come from any client (`Ask`). Histories: `outdated` (old
recognizers stay loaded, for a reload failed or the change came before the
monitor started), `addsLeft`, `abandoned` (the utility's `RunL` left, at the
directory, at a file or in writing the size of the result: nobody completes the
message), `unfetched` (the client had no memory to fetch).

Not in it: the death of the server, the data type filter, what a recognizer
concludes, the functions for debugging, and a path without its trailing
backslash, which the client completes by itself.

### NonNativeUpdates, AtomicUpdates

One session's manager, in a release build (the `ASSERT`s are for debug builds).
A step is one file operation or one `CommitL` of the log. `step` is the next
operation of the update at work, in the order of `PerformUpdateL`,
`RollbackUpdateL` and the two `DoPerformUpdateL`, and `left` the kinds of file
it has still to deal with; `Handle` says what comes after a file. A file's
content is the number, in the batch, of the update that wrote it, or `Old`; the
log is a sequence of records, and the recovery replays it record by record
(`Replay`, a recursive function on its prefixes), reopens the files (`Reopened`,
`Openable`), then rolls back with the same actions as a failing commit. A crash
inside a `CommitL` leaves a torn record, which recovery truncates, so it is a
crash before that record. A full log stays full until the batch is over.
Temporary files of earlier batches are forgotten at `Prepare`: no later step
looks at them. `RApsUpdateLog::Close` also removes the temporary directories;
that has an effect only on files leaked in them.

What fails and is ignored is three events: a file that cannot be deleted in a
rollback or a destructor (`Undeleted`: `DeleteFails`, `Stuck`), a file that
cannot be renamed back in a rollback (`Unrestored`: `RestoreRealFails`, before
or after it has removed what has the name), and a recovery that leaves because
memory runs out or the log cannot be cut to length (`Unreplayed`:
`RecoverFails`), after which the log is deleted with the batch half undone. A log
that cannot be opened stops the server from starting, and the next start tries
again. Taken to succeed are the deletion of the log and of the temporary
directories by `RApsUpdateLog::Close`, whose results the code ignores too.

`AtomicUpdates` is "performed as one transaction" (`apserv/apsnnapps.h:74`): a
batch takes effect in one step or not at all, and the client is not told the
opposite. The refinement mapping: what is installed is `before` while the log
exists and the real files otherwise, for deleting the log is the commit point.

### AppListServer

The server as the composition of its parts. The monitor is an instance of
`FsMonitor` with its delays at zero and no failing request: the server's actions
call `Monitor!CallBack`, `Monitor!SetBlocked` and so on, as the code calls
`CApaFsMonitor`. The list is abstract, for `AppList` has its content: `scan`
says what it is doing, `unseen` that the phone differs from it, by a change from
before the scan began or from during it. A scan must find the former before it
ends and may find the latter, unless it gives up: an error in `IdleUpdateL` ends
the scan there, and one while `RestoreL`'s flag is set has it go on without what
it was at (`ScanGivesUp`, `APGAPLSTV2.CPP:1981-2001`). `missed` is history, the
set of what was lost and is not made good yet: a `"Scan"` that should be at work
or whose end should be told, `"Changes"` that a scan given up has not found, the
`"Flag"` of a change that a scan did make. `UpdateApps`, `StopScan`,
`ScanComplete` and `StartScan` are the list's calls, each used by the handlers
that make them.

A session's pending messages are sets of sessions. The manager of a session's
batch is `iNonNativeApplicationsUpdateAppsLock`; what a batch does to files is
in `NonNativeUpdates`, here it touches a monitored directory or does not.
`ForceRegistration` and a commit that waits share `iNotifyOnScanCompleteMsg`
and are one wait. A client that waits for a scan does nothing else (`Free`),
because the client library's requests of that kind are synchronous.
`reading` and `stale` follow the cycle of `CApaAppListNotifier` (ask again, then
read the list) and record a client that waits although a scan, observed by
the server, has changed the list it read.

What the code does here that a reader may not expect, and where it shows:

* The first owner to end unblocks for the others (`APSSERV.CPP:376-391`,
  `547-591`): a backup that ends during an uninstall lets callbacks through.
  That is why `BlockedForAReason` has one direction only.
* `EAbort` of a backup does nothing, so the monitor stays blocked until the next
  backup or uninstall ends, or the first scan does. It is one of the reasons
  `BlockedForAReason` admits, and `Settles` excepts it.
* An uninstall monitor whose `RunL` gets an error never subscribes again
  (`subscription = "Dead"`).
* `RestartScanL` after an uninstall sets no observer, so if the list is
  populated its changes are told only when the monitor's callback overtakes the
  scan. `NotifiedOfChanges` speaks of observed scans.
* `PrepareNonNativeApplicationsUpdatesL` stops the scan before it looks at the
  lock and before it has memory for the batch (`apsnnapps.cpp:475-486`). If it
  leaves at either, and when a batch is destroyed with its session, nobody starts
  the scan again; whoever waits for it or for the population of the list waits
  until something else starts one (`"Scan"`).
* A scan that cannot be started (`StartIdleUpdateL` leaves) is not retried
  until the next change, and the end of one whose icons cannot be loaded is told
  to nobody (`"Scan"`).
* A scan that an error ends is over like any other: those who wait are answered,
  and the list is not current until the next (`"Changes"`).
* A purge that leaves has changed the list without saying so; clients are not
  told unless the same or a later scan tells of a change (`"Flag"`).

## 3. Runs

| run | instance | states | what it shows |
|---|---|---|---|
| `fsmonitor` | 3 locations, one of them flaky; pause 1, period 3 | 1,439 | no change of a sound location is lost or forgotten, the promise is kept, changes are told once unblocked |
| `applist` | 3 files on 3 drives, one removable, 2 applications, one registered twice; 3 file changes, 2 power losses; scans stopped at any point; requests for one application | 87,190 | the list and the cached file are never stale unnoticed, no change is unreported, no pointer dangles, nothing present is removed |
| `applist_icons` | as above with icon loading and 2 languages, changes of language that go unnoticed; 2 changes | 509,490 | the same when scans, icon loading and storing overlap; and work ends after any power loss (`ComesToRest`) |
| `applist_faults` | allocation, directory reads, registration files, stores, purges, the creation of the icon loader may fail; 1 change; languages symmetric | 1,735,031 | one element per application; the first scan is reported exactly once |
| `updates` | 2 applications, 2 kinds of file, batches of 2, 2 crashes, leaves, refusals | 432,097 | all or nothing where what undoes a batch can be done, the log is faithful, nothing is left behind, the list has its documented shape |
| `updates_live` | 1 application, 2 kinds of file, batches of 2, 2 crashes at any moment, a full log, deletions, restorations and recoveries that fail | 396,112 | a commit, its rollback and its recoveries end |
| `server` | 1 location; 2 sessions, one of which also asks to be notified; icons loaded; 3 disturbances | 415,584 | whoever waits is answered, the monitor is blocked for a reason, no notification is lost, the server settles |
| `recognition` | 2 files in a directory, 1 in another, one that changes; a cache of 1 entry; 1 session; 3 requests, 2 disturbances; recognizers loaded on demand or not | 517,345 | no result for old contents or from old plug-ins, recognizers loaded just while needed, the cache bounded, every recognition answered or cancellable, and all settles |
| `applist_uninstall`, `applist_first`, `applist_shadow`, `updates_failed` | | | findings, section 5 |

The bounds. *Monitor*: two sound locations show one that is armed while another
is not; the delays 1 and 3 keep the order of the real 0.25 and 3 seconds; the
proofs remove all three bounds. *List*: three drives give an application that is
superseded by a later drive, one that is shadowed by an earlier one, and a card;
three changes suffice to remove, add and move a registration during one scan and
the next; two power losses may fall at any of those steps, the second on what
the first left behind. *Updates*: two updates are the first for which rolling
back the second matters to the first; with one application they meet on one
file, with two they do not; two crashes put one in the recovery from the other.
Crashes are bounded per batch; batches are not bounded. *Server*: a disturbance
is a file change, the start of an uninstall or of a backup, an error of the
uninstall monitor, a scan's error, a purge that leaves, a batch, a forced
registration or a session that ends; any three of them meet in any order, and
what ends them, the server's own steps and the client's requests are not
bounded. Two sessions let one end while the other waits. One location is enough,
for the server never tells locations apart; `AppListServerProofs` removes the
bounds. *Recognition*: three requests are the first that fill a directory,
displace it and come back to it, or that recognize, give up and ask again; a
limit of one entry makes the third file displace a directory of two. A
disturbance is a write, a deletion, an installation of plug-ins, an error of
ECom, a lack of memory or a client that dies, and two of them meet at any two
steps. A second session would share with the first only what `Ask` shares with
it already; `RecognitionProofs` has any number of both, and no bounds.

`AppList`'s runs, `server` and `recognition` do not check deadlock: with the
bounds on the environment spent, a server at rest has nothing left to do. The
other runs do. `WorkersFollowList` and `StoredAtRest` are checked where icons
are loaded, for then there are two workers.

Each finding's instance is left out of the passing runs by name (`Happens`),
not by a weaker property: the first `AppList` run has no `RestartScan`, no
icons for `FirstValid`, and an instance where no drive shadows a card.
`ChangesAreTold` does not hold with `RestartScan` or `Language` either, because
such a scan runs with no observer, nor with `PurgeFails`, `LoaderFails` or
`StartFails`, which are in `applist_faults`, with the properties that hold of
them. What a client can tell of that is in
`AppListServer`: it is never left waiting on a change that an observed scan
found, and once all is quiet the list is current (`Settles`), but it may not be
told of a change that an unobserved scan was the first to find.

## 4. Fairness

`FsMonitor`: weak fairness of each handler and of time. The scheduler runs
every ready active object, and a completed request stays completed. No fairness
of `SetBlocked`: `ChangeReachesCallBack` assumes the owner leaves the monitor
unblocked for good. `AppList` and `NonNativeUpdates`: weak fairness of the
server's step as a whole, that is, the thread keeps running whatever is ready;
nothing is assumed of the choice between handlers, and nothing of clients, the
file system or failures. `ComesToRest` assumes that `StopScan` is called
finitely often, which is what the environment's bound gives the other actions.

`AppListServer`: weak fairness of the server's step, of the end of an uninstall
and of a backup, and of the end of each client's batch. The thread runs
whatever is ready. An installation that never ends or a batch never closed
would rightly keep the server waiting. `Settles` says what then holds; it is
excepted in a run where a scan was lost (`"Scan"` is missed), the uninstall
monitor is dead or a backup was aborted, each of which the code does not make
good; and the list is current then unless the last scan met an error.

`Recognition`: weak fairness of each handler of the server and of what a client
does with an answer. A session's utility has the lowest priority, below the
server's own request, so requests without end would starve it; `Settles` is
about finitely many, `MaxRequests`. No fairness of cancelling, of clients'
requests or of the environment.

## 5. Findings

1. `applist_uninstall`. `RestartScanL`, called at the end of an uninstall,
   scans without moving `AppsList.bin` away. If a file change starts another
   scan before the storer's minute is over, the stale file becomes that scan's
   backup, the storer is stopped, the scan finds nothing new and renames the
   stale file back. The changed list is never stored, against
   `APGAPLSTV2.CPP:1314-1315`.
2. `applist_first`. `PurgeL` deletes an element that `iValidFirstAppData` may
   point to; the pointer is set again only after icon loading, and any request
   that walks the list meanwhile starts at it.
3. `applist_shadow`. An application cached from a card that is gone at power on
   is purged although a fixed drive registers it too, because only removable
   drives are scanned then; it is back after the next scan.
4. `updates_failed`. When an update leaves, its section of the log has no
   `EEndOfUpdate`. A crash during the rollback makes the next start's replay
   stop at the first rollback record, and the batch stays half installed or an
   earlier application is lost.

The same property, `KeepsPromise`, fails with nine other events of
`NonNativeUpdates`. They are not runs of their own; to see one, add its name to
`Happens` (with the bounds given) and check `KeepsPromise`:

| event | what happens | source | bounds |
|---|---|---|---|
| `Overwrite`, with `Leave` | a registration deletes the installed file before renaming its own; a later failure rolls back to neither | `apsnnappupdates.cpp:216` | 2 updates |
| `LogFull` | the rollback leaves before it has undone anything, and the leave is ignored | `apsnnapps.cpp:331` | 2 updates |
| `Misnoted`, with `Crash`, `Bundles` | the second and third continuation record the resource file, so recovery opens one file twice and gives up | `apsnnappupdates.cpp:808, 814` | 1 update, 2 kinds |
| `Unlogged`, with `Crash` | a file is renamed before the record of it is written; a crash in between | `apsnnappupdates.cpp:800` | 1 update |
| `Unperformed`, with `Crash` | the rollback of a recovery cannot be read by a second one, for the current update of the replay is a new one | `apsnnapps.cpp:264` | 3 updates, 2 crashes |
| `Unended`, with `Crash` | `ERolledBack` without `EEndOfUpdate` is taken for corruption, earlier updates stay | `apsnnapps.cpp:118` | 2 updates, 2 crashes |
| `Undeleted`, with `Leave` | a registration's file that a rollback cannot delete stays installed, the error is ignored | `apsnnappupdates.cpp:284-302, 841-848` | 2 updates |
| `Unrestored`, with `Leave` | a file that a rollback cannot rename back is gone, the error is ignored | `apsnnappupdates.cpp:350-360, 1145-1152` | 2 updates |
| `Unreplayed`, with `Crash` | a recovery that leaves abandons the updates read so far, and the log is deleted | `apsnnapps.cpp:93, 138-142, 725-731` | 1 update |

`updates` therefore shows that a batch is atomic for crashes at every *other*
moment, failures at every step of performing it, a restoration that another
update's open file prevents, and removals and additions that do not overwrite, as
long as a rollback can delete and rename files and a recovery can read the log;
the events are named in the model at the lines where they bite.

What the properties of `Recognition` except, each by a name in the model:

* A recognition in the background that leaves is never completed, not even for
  a path that does not exist (`abandoned`), although the client's documentation
  says that an error completes it (`APGCLI.CPP:214-219`). Cancelling does.
* A client without memory for a result it is told is ready does not tell the
  server, whose session then answers every recognition with `KErrInUse`
  (`unfetched`; `APGCLI.CPP:270-281`).
* A client that shares its handle with a writer, or passes what it read some
  time ago, has a result cached under a time that is not its contents'
  (contents 0), which other clients then get.
* Each addition to the cache that fails may let it grow by one more entry
  (`addsLeft`).
* Plug-ins installed while the server is constructed, and a reload that leaves,
  leave old recognizers at work (`outdated`).

Seen in reading and not modelled: a path without trailing backslash is
completed by the client and then asked for as well (`APGCLI.CPP:225-237`), and
if the server dies before the transfer, `FilesRecognized` goes on in an object
that was deleted (`APGCLI.CPP:2931-2949`).

What the properties of `AppList` leave out, each an event of its own:

* If a scan cannot be started (`StartFails`), nobody tries again: the list may be
  unstored and its changes untold (`StoredAtRest`, `ChangesAreTold`), and the
  backup made for that scan stays (`BackupOnlyWhileWorking`). If the storer then
  goes on, after a `RestartScan` that had left `AppsList.bin` in place, both files
  are there (`OneCopy`).
* A purge that leaves (`PurgeFails`) has removed elements without flagging the
  change: neither is it told (`ChangesAreTold`), nor, if the scan finds nothing
  else, stored, for the backup is renamed back (`StoredAtRest`, `CacheIsCurrent`,
  and, once a power loss has restored that file, `ListIsCurrent`).
* An icon loader that cannot be created (`LoaderFails`) ends the scan untold and
  unstored, and the backup stays (`BackupOnlyWhileWorking`).
* A change of language that is taken for something else (`Coalesced`) leaves the
  list in the old language until the next scan. It is in `applist_icons`, where
  the list is current but for scans that are owed.

Of the monitors: `CApaEComMonitor` stops for good after an error of ECom
(`notifier = "Dead"`, `APSSCAN.CPP:333`), from when on recognizers and cache may
be old; `CacheFollowsPlugIns` and the `Settles` of `Recognition` except it, so no
property says that it cannot happen, and it does.

## 6. Proofs

`FsMonitorProofs`, for any set of locations, any subset of them flaky, and any
pair of delays (`LocsAssumption`, `DelayAssumption`: nothing else is assumed):

* `Invariance`: `Spec => []IInv`. `NoLostChange` is not inductive: a location
  with no request outstanding is safe only because the flag is still set, which
  is `DeafOnlyIfDue`, and that the flag is cleared in the step that arms every
  notifier. `TypeOK`, `NothingSpurious` and `WaitCoversPeriod` are there for the
  refinement: the flag implies some change is owed, and the time still to wait
  makes up what is missing to `Period`.
* `TypeCorrect`, `NoChangeIsLost`, `TimerStaysArmed`: parts of `IInv`.
* `Implements`: `Spec => Promise!Spec`. Every action maps to the action of
  `ChangeMonitor` of its name or to a stutter; `CallBack` needs
  `WaitCoversPeriod` for its delay and `NothingSpurious` for its change.

`AppListServerProofs`, for any locations, sessions and watchers, with or without
icon loading, and any number of disturbances (`ServerAssumption`):

* `Invariance`: `Spec => []ServerInv`. `WaitersAreServed` is not inductive: a
  client may register for the population of the list at any moment before it, so
  a scan that the server observes must be at work or due by then whether anyone
  waits or not (`PopulationToCome`). `NotifiedOfChanges` needs that the flag
  which makes the end of a scan complete the messages is already set
  (`StaleWillBeTold`), and `AtOnceMeansCurrent` that a change the scan may miss
  keeps a notifier disarmed until the tick that starts the next scan
  (`ChangesImpend`). Each of them says what a lost scan, a scan in error or a
  purge that left takes from it (`missed`). `ServerInv` was checked with TLC on
  the instance of `server` before it was proved; it is not an invariant of that
  run.
* `TypeCorrect`, `WaitersServed`, `BlockedWithReason`, `AtOnceCurrent`,
  `ChangesNotified`: what the run `server` checks, from `ServerInv`.
* `DrivesMonitor`: `Spec => Monitor!Spec`, each step of the server is one of
  `FsMonitor`'s or leaves it alone; `NoChangeIsLostInServer` then follows from
  the theorem `NoChangeIsLost` of `FsMonitorProofs`.

`AppListProofs`, for any files, directories and languages, with or without icon
loading, any number of changes and power losses, and any of the events in
`Happens` unless it says otherwise:

* `Invariance`: `Spec => []ListInv`. `OneElementEach` needs of the stored files
  that they, too, have one entry for each application, hence of the storer that
  what it has written and what is still before it are different applications
  (`StorerOnList`), and of a superseded element that its successor registers
  the same application. `OneAtWork` says that the scan and the two workers take
  turns, `ObserverWaits` that someone is there to hear of the first scan.
* `TypeCorrect`, `OneOfEach`, and `ReportedOnce`, an action property.
* `StoreInvariance`, without `StartFails`: where the two files and the storer
  stand to each other (`StoreInv`). From it `OneCopyOnly`, `BackupGuardsWork`
  (without `LoaderFails` too) and `WorkersOnList`; the last needs that the storer
  has written exactly what precedes it (`Following`).
* `FirstAppExists`, without `RestartScan`, `PurgeFails` and icon loading, which
  are where the code breaks it (section 5): the pointer is at an element, and
  set again in the step that purges. `FirstAppValid` says, without `StartFails`
  too, that at rest it is the first: after a scan that was stopped and not begun
  again, what that scan had put at the head of the list is not reached from it.
* The lemmas on `Purge`: the n-th place kept is found by counting the places
  below it. Induction over numbers is not available for this; instead a least
  counterexample is taken (`LeastNat`), which exists because the inclusion of
  finite sets is well founded.

`AppListScanProofs` relates the list to the phone and to its file. It treats a
list as the set of its elements (`Elements`): a look at one registration file
adds, refreshes, supersedes or ignores one element (`UpdateNextAppLooks`), and
the purge keeps the elements present and replaces those superseded
(`PurgedElements`). With `ListInv`:

* `TidyAlways`, where every scan completes (`ScansComplete`: none of
  `StartFails`, `NextFails`, `SuccessorFails`, `PurgeFails`, `LoaderFails`,
  `RestartScan`): no element stays
  in the list that is not present, until a change is reported the backup holds
  what memory does, and `AppsList.bin` exists only when no one is at work and
  then holds the list (`Tidy`). This is why it is right to rename the backup back
  after a scan that found nothing new. To be inductive it needs that a scan which
  superseded an element has reported a change, for the purge replaces it.
* `StoredWhenAtRest`, if storing does not fail either: there is a file, or
  someone at work who will make one, or a scan due (`StoredOrWorking`).
* `ListCurrent`, `CacheCurrent`, `NothingPresentRemoved`, with changes of language
  noticed or not (one that is not is `rescanOwed`), if besides what is
  found can be read (no `NewFails`) and no card shadows a fixed drive
  (`NoCardShadows`: of the registrations of one application, one on a fixed drive
  is in an earlier directory than one on a card). A list current at rest is what
  a scan leaves, hence `ScanGood`, of a scan at work: what is marked present is
  as on the phone and found in the first directory that registers it, what is
  superseded has such a successor, and no file that the scan has passed
  (`Seen`) is of an application that is pending or not in the list. `FixedCurrent`
  says of the stored list, while there is no server, that its entries for the
  fixed drives are; a restored list then starts the scan of the cards well.
* `ChangesTold`, without `StartFails`, `PurgeFails`, `LoaderFails`,
  `RestartScan` and `Language`, whatever cannot be found, read or stored: a flag
  that says so, and someone at work with an observer or a scan due, until a
  change is told (`Told`); the removals at the end of a scan are flagged before
  they are made.

The conditions are where the code stops keeping the promise. A scan that does
not start is not retried; one that leaves has not looked at everything, and if
it was the restoring scan and the next one leaves as well before it finds
anything, the backup is renamed back as `AppsList.bin` while the list in memory
is empty (to see it, check `StoredAtRest` in `MCAppListIcons.cfg` with `Happens
= {"NextFails"}`); `RestartScanL` leaves a stale file and has no observer, nor
has a change of language (section 5). `NoCardShadows` is the finding
`applist_shadow`.

`UpdateLogProofs`, `NonNativeUpdatesProofs` and `AtomicUpdatesProofs`, for any
applications, any kinds of file, batches of any length, and any number of
crashes in each:

* `TypeCorrect`, with every event: a full log, crashes in the windows, records
  that name the wrong file. The replay never leaves the list it rebuilds,
  whatever the log says, because it stops at what it cannot read; that a log does
  not tell of more updates than there are needs to know which records have been
  written at which step (`LogFits`, `StepFits`). `Replay` is a recursive function
  over the prefixes of the log, so one record more is read after all before it
  (`ReplayAppend`), and no induction over logs is needed.
* `BasedCorrect`: `Spec => []LogBased`, under `Sound`: no `LogFull`, no crash in
  the five windows of section 5, and none of `Undeleted`, `Unrestored` and
  `Unreplayed`. All the theorems below assume it. `Shape` says which states the
  updates of a list have (the performed, one at work, those rolled back, those
  never begun), `FilesInv` that every file is where its details say and no two
  updates of a list have the same real file open, and `LogInv` that the log,
  replayed, is the list but for what a recovery finds out by looking for the
  files: a file moved and not yet recorded, a rollback not yet recorded. All
  three are stated of what memory holds while the server is up, and of what the
  replay would rebuild while it is down (`List`), so that a crash changes
  nothing in them.
* `ListInShape`, `LogFaithful`, `NoneLeftBehind`: what the run `updates` checks.
* `BatchCorrect`: `Spec => [](LogBased /\ PromiseInv)`, if besides no
  registration overwrites files (`NoOverwrite`). A real file is that of the last
  update that placed one, and what a deregistration moved away is what there
  was, once only (`FilesKnown`); so a rollback that can delete and rename files,
  in any order of crashes, restores what there was. While nothing has failed the
  files are what the updates so far install (`Forward`).
* `AtomicCorrect`: `Spec => KeepsPromise`, the refinement of `AtomicUpdates`.
  `Prepare` maps to its own, `Register` and `Deregister` to `Ask`, `Abort`, a
  refused commit and a crash before it to `Fail`, `CloseLog` to `Commit` or,
  after a rollback, to `Fail`, a crash once the log is gone to `Die`, everything
  else to a stutter.

The invariants were checked with TLC before they were proved, `LogBased` and
`PromiseInv` on the instance of `updates` and on one of three updates of one
application, those of the list on variants of the instances of `applist` and
`applist_icons`; they are not invariants of the runs.

`RecognitionProofs`, for any files, directories, sessions, limit of the cache,
and any number of requests and disturbances:

* `Invariance`: `Spec => []RecInv`. The bound of the cache is not inductive:
  cleaning up a directory frees room only if it has entries, so what is bounded
  is the number of entries and empty directories together, and each of the
  latter is paid for by an addition that failed (`Within`). `WaitersAreAnswered`
  needs that an active utility has its session's flag set and a client waiting,
  and that a session at work has a result to write to. `CacheFollowsPlugIns`
  needs that nothing is cached before the monitor starts.
* `TypeCorrect`, `LoadedWhenUsed`, `CacheFollows`, `CacheBounded`,
  `ResultsTrue`, `WaitersAnswered`: what the run `recognition` checks, all but
  `Settles`.

Each is proved one action at a time, one conjunct of the invariant at a time.
Model-checked only is liveness, which needs ENABLED under fairness:
`ChangeReachesCallBack`, `ComesToRest` and the three `Settles`. All the other
properties of the passing runs are theorems, under the conditions said; what the
events left out by a condition do is in section 5.

## 7. Plan

1. done: `FsMonitor`, `ChangeMonitor`, refinement checked and proved.
2. done: `AppList`, its invariants proved.
3. done: `NonNativeUpdates`, `AtomicUpdates`, the refinement checked and proved.
4. done: `AppListServer`, its invariant proved. Left: the requests of a session
   that hand over a list piece by piece.
5. done: `RecognitionCache`, `Recognition`, its invariant proved.
6. `NonNativeTypes`: the registry and its file over failures of saving; the file
   follows memory unless a write was cut short.
7. Proofs: done for every safety property the runs check. Left: that the list
   `AppListServer` abstracts is `AppList` (its `unseen` and `scan` as a refinement
   of `rescanOwed` and `iAppIdler`), and `NonNativeTypes` with its module.

## 8. Not modelled

The second list version (`APGAPLST.CPP`, not built); icons and captions as
data; the encoding of messages and streams; security policy checks; the ECom
plug-ins' own behaviour; process creation; the client library beyond the
requests it makes and the two cycles that enter the models (notification,
recognition); a session's walk of the list piece by piece; the registry of
non-native types (planned); the test suites, whose subjects are not in the
repository; and the build and reporting tools. Most of the repository's lines
are such tests. `PROJECT.json` gives the reason for each component, and notes
the hazards no property covers.
