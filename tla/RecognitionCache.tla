--------------------------- MODULE RecognitionCache ---------------------------
(***************************************************************************)
(* What all sessions share when the server recognizes data: the            *)
(* recognizers, loaded while used and unloaded by a timer                  *)
(* (apserv/APSSERV.CPP), the cache of results (apserv/APSRECCACHE.cpp) and *)
(* the monitor of plug-ins that renews both (CApaEComMonitor,              *)
(* apserv/APSSCAN.CPP).  A file's contents are known by the time they were *)
(* written, the set of installed plug-ins by a number that grows; 0 stands *)
(* for no file and for no recognizers.                                     *)
(***************************************************************************)
EXTENDS Naturals, FiniteSets, Sequences

CONSTANTS
    Files,
    Directories,
    DirectoryOf,            \* the directory of each file
    Volatile,               \* the files that change
    KMaxNumberOfEntries,    \* the cache is cleared by one directory when it holds more
    MaxRequests,            \* bound on the requests of clients
    MaxDisturbances         \* bound on writes, installations and failures

ASSUME CacheAssumption ==
    /\ DirectoryOf \in [Files -> Directories] /\ Volatile \subseteq Files
    /\ KMaxNumberOfEntries \in Nat /\ MaxRequests \in Nat /\ MaxDisturbances \in Nat

VARIABLES
    disk,           \* the time each file was last written
    plugIns,        \* the plug-ins now installed
    iLoadRecognizersOnDemand,   \* a constant of the ROM
    recognizers,    \* iDataRecognizer: loaded, with iRecognizerUsageCount and iRecognizerUnloadTimer
    cache,          \* iRecognitionCache: directories, the last used first, and their entries
    notifier,       \* CApaEComMonitor: "Unstarted", "Armed", "Changed", "Failed",
                    \* "Idle", or "Dead" after an error
    iEComHasChanged,
    iEComTimerOn,
    outdated,       \* history: old recognizers stay loaded, and no notification is to come
    addsLeft,       \* history: how often the cache could not add an entry
    clock,          \* history: the time of the last write
    requests, disturbances  \* history: counted for the bounds

recognizerVars == <<iLoadRecognizersOnDemand, recognizers>>
monitorVars == <<notifier, iEComHasChanged, iEComTimerOn>>
cacheVars == <<cache, addsLeft>>
diskVars == <<disk, clock>>
sharedVars == <<diskVars, plugIns, recognizerVars, cacheVars, monitorVars, outdated, requests, disturbances>>

(* A result: contents, as written to file then, recognized by plugIns, taken *)
(* for those of lastModified.  Contents 0 are what a client said they were.  *)
Entries == [file : Files, lastModified : Nat, contents : Nat, plugIns : Nat]

(* The variables' types.                                                     *)
CacheTypeOK ==
    /\ disk \in [Files -> Nat] /\ clock \in Nat /\ plugIns \in Nat \ {0}
    /\ iLoadRecognizersOnDemand \in BOOLEAN
    /\ recognizers \in [loaded : Nat, iRecognizerUsageCount : Nat, timerOn : BOOLEAN]
    /\ cache \in [directories : Seq(Directories), entries : SUBSET Entries, iNumberOfEntries : Nat]
    /\ notifier \in {"Unstarted", "Armed", "Changed", "Failed", "Idle", "Dead"}
    /\ iEComHasChanged \in BOOLEAN /\ iEComTimerOn \in BOOLEAN
    /\ outdated \in BOOLEAN /\ addsLeft \in Nat
    /\ requests \in 0 .. MaxRequests /\ disturbances \in 0 .. MaxDisturbances

Request == requests < MaxRequests /\ requests' = requests + 1
Disturb == disturbances < MaxDisturbances /\ disturbances' = disturbances + 1

Started == notifier # "Unstarted"

----------------------------------------------------------------------------
(* The recognizers.                                                          *)

(* Mutant: recognizers that wait to be unloaded are used uncounted.          *)
LoadRecognizersUncounted(r) ==
    IF r.timerOn THEN [r EXCEPT !.timerOn = FALSE]
    ELSE IF r.iRecognizerUsageCount = 0 THEN [r EXCEPT !.loaded = plugIns, !.iRecognizerUsageCount = 1]
    ELSE [r EXCEPT !.iRecognizerUsageCount = @ + 1]

LoadRecognizers(r) ==
    LET ready == IF r.timerOn THEN [r EXCEPT !.timerOn = FALSE]
                 ELSE IF r.iRecognizerUsageCount = 0 THEN [r EXCEPT !.loaded = plugIns] ELSE r
    IN [ready EXCEPT !.iRecognizerUsageCount = @ + 1]

UnloadRecognizers(r) ==
    LET left == [r EXCEPT !.iRecognizerUsageCount = @ - 1]
    IN IF left.iRecognizerUsageCount = 0 THEN [left EXCEPT !.timerOn = TRUE] ELSE left

(* The recognizers once used: what leaves in between unloads them all the same. *)
Used ==
    IF iLoadRecognizersOnDemand THEN UnloadRecognizers(LoadRecognizers(recognizers)) ELSE recognizers

LoadingMayLeave == iLoadRecognizersOnDemand /\ ~recognizers.timerOn

(* Mutant: the timer, which is periodic, goes on.                            *)
DoUnloadRecognizersPeriodic ==
    /\ Started /\ recognizers.timerOn
    /\ recognizers' = [recognizers EXCEPT !.loaded = 0]
    /\ UNCHANGED <<diskVars, plugIns, iLoadRecognizersOnDemand, cacheVars, monitorVars, outdated,
                   requests, disturbances>>

DoUnloadRecognizers ==
    /\ Started /\ recognizers.timerOn
    /\ recognizers' = [recognizers EXCEPT !.loaded = 0, !.timerOn = FALSE]
    /\ UNCHANGED <<diskVars, plugIns, iLoadRecognizersOnDemand, cacheVars, monitorVars, outdated,
                   requests, disturbances>>

----------------------------------------------------------------------------
(* The cache.                                                                *)

Listed(c, d) == \E i \in DOMAIN c.directories : c.directories[i] = d

(* d taken out of the list, where it is, and put first.                      *)
ToFront(c, d) ==
    LET n == Len(c.directories)
        place == IF Listed(c, d) THEN CHOOSE i \in 1 .. n : c.directories[i] = d ELSE n + 1
        last == IF Listed(c, d) THEN n ELSE n + 1
    IN [c EXCEPT !.directories =
          [i \in 1 .. last |-> IF i = 1 THEN d ELSE IF i <= place THEN @[i - 1] ELSE @[i]]]

(* Mutant: the directory goes, its entries are still counted.                *)
CleanupUncounted(c) ==
    LET last == c.directories[Len(c.directories)]
    IN [directories |-> SubSeq(c.directories, 1, Len(c.directories) - 1),
        entries |-> {e \in c.entries : DirectoryOf[e.file] # last},
        iNumberOfEntries |-> c.iNumberOfEntries]

Cleanup(c) ==
    LET last == c.directories[Len(c.directories)]
        kept == {e \in c.entries : DirectoryOf[e.file] # last}
    IN [directories |-> SubSeq(c.directories, 1, Len(c.directories) - 1),
        entries |-> kept,
        iNumberOfEntries |-> c.iNumberOfEntries - Cardinality(c.entries \ kept)]

Flushed == [directories |-> <<>>, entries |-> {}, iNumberOfEntries |-> 0]

Hits(f) == {e \in cache.entries : e.file = f /\ e.lastModified = disk[f]}

(* The cache once searched: the directory is likely to be used again soon.   *)
Searched(f) == IF Listed(cache, DirectoryOf[f]) THEN ToFront(cache, DirectoryOf[f]) ELSE cache

(* CRecognitionResultHashMap::AddL.                                          *)
AddToDirectory(c, e) ==
    LET old == {x \in c.entries : x.file = e.file}
    IN IF old = {}
       THEN [c EXCEPT !.entries = @ \cup {e}, !.iNumberOfEntries = @ + 1]
       ELSE IF \E x \in old : x.lastModified = e.lastModified THEN c
       ELSE [c EXCEPT !.entries = (@ \ old) \cup {e}]

Room(c) == IF c.iNumberOfEntries > KMaxNumberOfEntries THEN Cleanup(c) ELSE c

DoAdd(c, e) == AddToDirectory(ToFront(Room(c), DirectoryOf[e.file]), e)

(* DoAddL leaves for want of memory for the directory, or for the entry.     *)
DoAddLeaves(c, d) ==
    LET room == Room(c) IN {ToFront(room, d)} \cup (IF Listed(room, d) THEN {} ELSE {room})

----------------------------------------------------------------------------
(* One recognition of a file.                                                *)

(* The time of modification is read last.                                    *)
Result(f, contents) ==
    [file |-> f, lastModified |-> disk'[f], contents |-> contents, plugIns |-> Used.loaded]

(* The file is there; the cache answers, or e is what is recognized and added. *)
Recognize(f, e) ==
    /\ cache' = IF Hits(f) # {} THEN Searched(f) ELSE DoAdd(Searched(f), e)
    /\ UNCHANGED addsLeft

(* RecognizeL leaves, or what follows it, with nothing returned.             *)
RecognizeLeaves(f, e) ==
    /\ Hits(f) = {}
    /\ \/ cache' \in {Searched(f), DoAdd(Searched(f), e)} /\ UNCHANGED addsLeft
       \/ cache' \in DoAddLeaves(Searched(f), DirectoryOf[f]) /\ addsLeft' = addsLeft + 1

----------------------------------------------------------------------------
(* What happens to the files.                                                *)

WriteFile(f) ==
    /\ Disturb /\ f \in Volatile
    /\ clock' = clock + 1
    /\ disk' = [disk EXCEPT ![f] = clock + 1]

Write(f) ==
    /\ WriteFile(f)
    /\ UNCHANGED <<plugIns, recognizerVars, cacheVars, monitorVars, outdated, requests>>

Delete(f) ==
    /\ Disturb /\ f \in Volatile /\ disk[f] # 0
    /\ disk' = [disk EXCEPT ![f] = 0]
    /\ UNCHANGED <<clock, plugIns, recognizerVars, cacheVars, monitorVars, outdated, requests>>

----------------------------------------------------------------------------
(* Requests that are answered at once.  A name without a file, or another    *)
(* question to the recognizers, only uses them.                              *)

UseRecognizers ==
    /\ Started /\ Request
    /\ \/ recognizers' = Used /\ UNCHANGED disturbances
       \/ LoadingMayLeave /\ Disturb /\ UNCHANGED recognizers
    /\ UNCHANGED <<diskVars, plugIns, iLoadRecognizersOnDemand, cacheVars, monitorVars, outdated>>

RecognitionFails(f, e) ==
    /\ Disturb
    /\ \/ RecognizeLeaves(f, e) /\ recognizers' = Used
       \/ LoadingMayLeave /\ cache' = Searched(f) /\ UNCHANGED <<recognizers, addsLeft>>

(* A file's name and what the client read of it, perhaps some time ago.      *)
RecognizeData(f) ==
    /\ Started /\ Request /\ disk[f] # 0
    /\ UNCHANGED diskVars
    /\ \E e \in {Result(f, disk[f]), Result(f, 0)} :
         \/ /\ Recognize(f, e) /\ UNCHANGED disturbances
            /\ recognizers' = IF Hits(f) # {} THEN recognizers ELSE Used
         \/ RecognitionFails(f, e)
    /\ UNCHANGED <<plugIns, iLoadRecognizersOnDemand, monitorVars, outdated>>

(* A handle, which may share the file with a writer: it may be written after *)
(* it was recognized and before its time of modification is read.            *)
RecognizeDataPassedByFileHandle(f) ==
    /\ Started /\ Request /\ disk[f] # 0
    /\ \/ /\ UNCHANGED <<diskVars, disturbances>>
          /\ recognizers' = Used /\ Recognize(f, Result(f, disk[f]))
       \/ /\ WriteFile(f)
          /\ recognizers' = Used /\ Recognize(f, Result(f, 0))
       \/ UNCHANGED diskVars /\ RecognitionFails(f, Result(f, disk[f]))
    /\ UNCHANGED <<plugIns, iLoadRecognizersOnDemand, monitorVars, outdated>>

----------------------------------------------------------------------------
(* The plug-ins and their monitor.                                           *)

(* ECom tells who has a request with it, and forgets about the others.       *)
PlugInsChange ==
    /\ Disturb
    /\ plugIns' = plugIns + 1
    /\ notifier' = IF notifier = "Armed" THEN "Changed" ELSE notifier
    /\ outdated' = (outdated \/ (~Started /\ recognizers.loaded # 0))
    /\ UNCHANGED <<diskVars, recognizerVars, cacheVars, iEComHasChanged, iEComTimerOn, requests>>

EComFails ==
    /\ Disturb /\ notifier = "Armed"
    /\ notifier' = "Failed"
    /\ UNCHANGED <<diskVars, plugIns, recognizerVars, cacheVars, iEComHasChanged, iEComTimerOn,
                   outdated, requests>>

(* The server has been constructed and begins to serve.                      *)
Start ==
    /\ ~Started
    /\ notifier' = "Armed"
    /\ UNCHANGED <<diskVars, plugIns, recognizerVars, cacheVars, iEComHasChanged, iEComTimerOn,
                   outdated, requests, disturbances>>

(* An error is not looked at, and the request not made again.                *)
EComRunL ==
    /\ notifier \in {"Changed", "Failed"}
    /\ IF notifier = "Changed"
       THEN notifier' = "Idle" /\ iEComHasChanged' = TRUE /\ iEComTimerOn' = TRUE
       ELSE notifier' = "Dead" /\ UNCHANGED <<iEComHasChanged, iEComTimerOn>>
    /\ UNCHANGED <<diskVars, plugIns, recognizerVars, cacheVars, outdated, requests, disturbances>>

(* Mutant: recognizers that wait to be unloaded are left alone.              *)
RecognizersAreLoadedUnused == ~iLoadRecognizersOnDemand \/ recognizers.iRecognizerUsageCount > 0

RecognizersAreLoaded ==
    ~iLoadRecognizersOnDemand \/ recognizers.iRecognizerUsageCount > 0 \/ recognizers.timerOn

UpdatePlugIns ==
    /\ cache' = Flushed
    /\ \/ /\ recognizers' = [recognizers EXCEPT !.loaded = IF RecognizersAreLoaded THEN plugIns ELSE @]
          /\ outdated' = FALSE /\ UNCHANGED disturbances
       \/ /\ RecognizersAreLoaded /\ Disturb     \* LoadRecognizersL leaves, which is ignored
          /\ outdated' = TRUE /\ UNCHANGED recognizers

TimerCallBack ==
    /\ iEComTimerOn /\ iEComHasChanged
    /\ iEComHasChanged' = FALSE
    /\ notifier' = "Armed"
    /\ UpdatePlugIns
    /\ UNCHANGED <<diskVars, plugIns, iLoadRecognizersOnDemand, addsLeft, iEComTimerOn, requests>>

StopTimer ==
    /\ iEComTimerOn /\ ~iEComHasChanged
    /\ iEComTimerOn' = FALSE
    /\ UNCHANGED <<diskVars, plugIns, recognizerVars, cacheVars, notifier, iEComHasChanged, outdated,
                   requests, disturbances>>

----------------------------------------------------------------------------
(* ConstructL, up to the start of the monitor.                               *)
CacheInit ==
    /\ disk = [f \in Files |-> 1] /\ clock = 1
    /\ plugIns = 1
    /\ iLoadRecognizersOnDemand \in BOOLEAN
    /\ recognizers = [loaded |-> IF iLoadRecognizersOnDemand THEN 0 ELSE 1,
                      iRecognizerUsageCount |-> 0, timerOn |-> FALSE]
    /\ cache = Flushed /\ addsLeft = 0
    /\ notifier = "Unstarted" /\ iEComHasChanged = FALSE /\ iEComTimerOn = FALSE
    /\ outdated = FALSE /\ requests = 0 /\ disturbances = 0

(* What others do, at any time; what a client asks; and the handlers.        *)
Environment == (\E f \in Files : Write(f) \/ Delete(f)) \/ PlugInsChange \/ EComFails

Ask == UseRecognizers \/ \E f \in Files : RecognizeData(f) \/ RecognizeDataPassedByFileHandle(f)

Handle == Start \/ DoUnloadRecognizers \/ EComRunL \/ TimerCallBack \/ StopTimer

=============================================================================
