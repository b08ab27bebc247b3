------------------------------ MODULE Recognition ------------------------------
(***************************************************************************)
(* Recognition of all files of a directory, at once or in the background:  *)
(* the session's part (apserv/APSSES.CPP), its CFileRecognitionUtility     *)
(* (apserv/APSRECUTIL.CPP) and the client library that asks                *)
(* (apgrfx/APGCLI.CPP), over the recognizers and the cache all sessions    *)
(* share (module RecognitionCache).  The server has one thread; a request  *)
(* and its handling are one step.                                          *)
(***************************************************************************)
EXTENDS RecognitionCache

CONSTANTS
    Sessions,       \* each of one single-threaded client
    Null            \* no session, no result

(* What a result says: these contents, found in the file last modified then. *)
Findings == [file : Files, lastModified : Nat, contents : Nat]
Results == [iPath : Directories, iEntries : SUBSET Findings]

ASSUME SessionAssumption == Null \notin Sessions \cup Results

VARIABLES
    \* RApaLsSession
    client,         \* "Idle", "Calling", "Fetching", "Waiting" (CAsyncFileRecognition) or "Hung"
    answer,         \* what the message that client waits for was completed with
    \* CApaAppListServSession
    iAsyncRecognitionActive,    \* the sessions that have it set
    iRecognitionResult,         \* each session's result: iPath and iEntries, or Null
    \* CFileRecognitionUtility
    utility,        \* each session's iStep and iEntryList from iIndex on, and whether it is active
    serving,        \* the session whose directory the server recognizes in one go, or Null
    abandoned,      \* history: the sessions whose utility's RunL left
    unfetched       \* history: the sessions whose client had no memory to fetch a result

sessionVars == <<client, answer, iAsyncRecognitionActive, iRecognitionResult, utility, serving, abandoned, unfetched>>
vars == <<sharedVars, sessionVars>>

(* The variables' types.                                                     *)
SessionTypeOK ==
    /\ client \in [Sessions -> {"Idle", "Calling", "Fetching", "Waiting", "Hung"}]
    /\ answer \in [Sessions -> {"None", "Done", "Error"}]
    /\ iAsyncRecognitionActive \subseteq Sessions
    /\ iRecognitionResult \in [Sessions -> Results \cup {Null}]
    /\ utility \in [Sessions -> [iStep : 0 .. 2, active : BOOLEAN, iEntryList : SUBSET Files]]
    /\ serving \in Sessions \cup {Null}
    /\ abandoned \subseteq Sessions /\ unfetched \subseteq Sessions

TypeOK == CacheTypeOK /\ SessionTypeOK

(* The server's thread is free for its next handler.                         *)
Free == Started /\ serving = Null

Undisturbed == UNCHANGED disturbances

----------------------------------------------------------------------------
(* Recognition of one file of a session's directory.                         *)

(* Mutant: the file is opened for others to write.                           *)
OpenShared(f) ==
    /\ disk[f] # 0
    /\ UNCHANGED diskVars \/ (clock' = clock + 1 /\ disk' = [disk EXCEPT ![f] = clock + 1])

(* Opened for readers only: nobody writes until the file is closed.          *)
Open(f) == disk[f] # 0 /\ UNCHANGED diskVars

Found(s, e) ==
    iRecognitionResult' = [iRecognitionResult EXCEPT
        ![s].iEntries = @ \cup {[file |-> e.file, lastModified |-> disk'[e.file], contents |-> e.contents]}]

(* BufferSizeL has the recognizers loaded, whether the cache has an answer or not. *)
RecognizeFile(s, f) ==
    /\ Open(f)
    /\ \E e \in {Result(f, disk[f])} :
         \/ /\ Recognize(f, e) /\ recognizers' = Used /\ Undisturbed
            /\ \E x \in IF Hits(f) # {} THEN Hits(f) ELSE {e} : Found(s, x)
         \/ /\ Disturb /\ UNCHANGED iRecognitionResult     \* something leaves, and the file is skipped
            /\ \/ RecognizeLeaves(f, e) /\ recognizers' = Used
               \/ LoadingMayLeave /\ UNCHANGED <<recognizers, cacheVars>>
    /\ UNCHANGED <<plugIns, iLoadRecognizersOnDemand, monitorVars, outdated, requests>>

(* The file is gone or being written, or its result cannot be kept: the rest is not done. *)
RecognizeFileLeaves(s, f) ==
    /\ UNCHANGED diskVars
    /\ \/ /\ IF disk[f] = 0 THEN Undisturbed ELSE Disturb
          /\ UNCHANGED <<recognizers, cacheVars>>
       \/ /\ disk[f] # 0 /\ Disturb
          /\ recognizers' = Used /\ Recognize(f, Result(f, disk[f]))
    /\ UNCHANGED <<plugIns, iLoadRecognizersOnDemand, monitorVars, outdated, requests,
                   iRecognitionResult>>

FilesOf(d) == {f \in Files : DirectoryOf[f] = d /\ disk[f] # 0}

NoResultYet(d) == [iPath |-> d, iEntries |-> {}]

UnchangedButRequests ==
    UNCHANGED <<diskVars, plugIns, recognizerVars, cacheVars, monitorVars, outdated>>

----------------------------------------------------------------------------
(* At once.                                                                  *)

(* Memory or the directory may fail, before and after the old result is deleted. *)
RecognizeFiles(s, d) ==
    /\ Free /\ Request /\ client[s] = "Idle"
    /\ \/ /\ s \in iAsyncRecognitionActive          \* KErrInUse
          /\ Undisturbed
          /\ UNCHANGED <<client, iRecognitionResult, utility, serving>>
       \/ /\ s \notin iAsyncRecognitionActive
          /\ Undisturbed
          /\ client' = [client EXCEPT ![s] = "Calling"]
          /\ serving' = s
          /\ iRecognitionResult' = [iRecognitionResult EXCEPT ![s] = NoResultYet(d)]
          /\ utility' = [utility EXCEPT ![s].iEntryList = FilesOf(d)]
       \/ /\ s \notin iAsyncRecognitionActive
          /\ Disturb
          /\ \E r \in {iRecognitionResult[s], Null, NoResultYet(d)} :
               iRecognitionResult' = [iRecognitionResult EXCEPT ![s] = r]
          /\ UNCHANGED <<client, utility, serving>>
    /\ UNCHANGED <<answer, iAsyncRecognitionActive, abandoned, unfetched>>
    /\ UnchangedButRequests

RecognizeNext(s) ==
    /\ serving = s
    /\ \E f \in utility[s].iEntryList :
         /\ utility' = [utility EXCEPT ![s].iEntryList = @ \ {f}]
         /\ \/ RecognizeFile(s, f) /\ UNCHANGED <<client, serving>>
            \/ /\ RecognizeFileLeaves(s, f)
               /\ serving' = Null /\ client' = [client EXCEPT ![s] = "Idle"]
    /\ UNCHANGED <<answer, iAsyncRecognitionActive, abandoned, unfetched>>

RecognizedAll(s) ==
    /\ serving = s /\ utility[s].iEntryList = {}
    /\ serving' = Null /\ client' = [client EXCEPT ![s] = "Fetching"]
    /\ UNCHANGED <<sharedVars, answer, iAsyncRecognitionActive, iRecognitionResult, utility, abandoned, unfetched>>

----------------------------------------------------------------------------
(* In the background.                                                        *)

RecognizeFilesAsync(s, d) ==
    /\ Free /\ Request /\ client[s] = "Idle"
    /\ client' = [client EXCEPT ![s] = "Waiting"]
    /\ \/ /\ s \in iAsyncRecognitionActive          \* KErrInUse
          /\ Undisturbed
          /\ answer' = [answer EXCEPT ![s] = "Error"]
          /\ UNCHANGED <<iAsyncRecognitionActive, iRecognitionResult, utility, abandoned>>
       \/ /\ s \notin iAsyncRecognitionActive
          /\ Undisturbed
          /\ iAsyncRecognitionActive' = iAsyncRecognitionActive \cup {s}
          /\ iRecognitionResult' = [iRecognitionResult EXCEPT ![s] = NoResultYet(d)]
          /\ utility' = [utility EXCEPT ![s] = [iStep |-> 0, active |-> TRUE, iEntryList |-> {}]]
          /\ abandoned' = abandoned \ {s}
          /\ UNCHANGED answer
       \/ /\ s \notin iAsyncRecognitionActive
          /\ Disturb
          /\ answer' = [answer EXCEPT ![s] = "Error"]
          /\ \E r \in {iRecognitionResult[s], Null} :
               iRecognitionResult' = [iRecognitionResult EXCEPT ![s] = r]
          /\ UNCHANGED <<iAsyncRecognitionActive, utility, abandoned>>
    /\ UNCHANGED <<serving, unfetched>>
    /\ UnchangedButRequests

(* A leave out of RunL: the scheduler ignores it, nobody completes the message. *)
Abandon(s) ==
    /\ utility' = [utility EXCEPT ![s].active = FALSE]
    /\ abandoned' = abandoned \cup {s}

(* Mutant: the next step is not asked for.                                   *)
ReadDirectoryOnly(s) ==
    /\ Free /\ utility[s].active /\ utility[s].iStep = 0
    /\ Undisturbed /\ UNCHANGED abandoned
    /\ utility' = [utility EXCEPT ![s] =
          [iStep |-> 1, active |-> FALSE, iEntryList |-> FilesOf(iRecognitionResult[s].iPath)]]
    /\ UNCHANGED <<client, answer, iAsyncRecognitionActive, iRecognitionResult, serving, unfetched, requests>>
    /\ UnchangedButRequests

ReadDirectory(s) ==
    /\ Free /\ utility[s].active /\ utility[s].iStep = 0
    /\ \/ /\ Undisturbed /\ UNCHANGED abandoned
          /\ utility' = [utility EXCEPT ![s] =
                [iStep |-> 1, active |-> TRUE, iEntryList |-> FilesOf(iRecognitionResult[s].iPath)]]
       \/ Disturb /\ Abandon(s)
    /\ UNCHANGED <<client, answer, iAsyncRecognitionActive, iRecognitionResult, serving, unfetched, requests>>
    /\ UnchangedButRequests

RecognizeCurrent(s) ==
    /\ Free /\ utility[s].active /\ utility[s].iStep = 1
    /\ \E f \in utility[s].iEntryList :
         \/ /\ RecognizeFile(s, f) /\ UNCHANGED abandoned
            /\ utility' = [utility EXCEPT ![s].iEntryList = @ \ {f}]
         \/ RecognizeFileLeaves(s, f) /\ Abandon(s)
    /\ UNCHANGED <<client, answer, iAsyncRecognitionActive, serving, unfetched>>

(* Mutant: the step that shows the request is completed is not taken.        *)
FinishSameStep(s) ==
    /\ Free /\ utility[s].active /\ utility[s].iStep = 1 /\ utility[s].iEntryList = {}
    /\ answer' = [answer EXCEPT ![s] = "Done"]
    /\ utility' = [utility EXCEPT ![s].active = FALSE]
    /\ UNCHANGED <<sharedVars, client, iAsyncRecognitionActive, iRecognitionResult, serving, abandoned, unfetched>>

(* The size of the result may not be written to the client (iMessage.WriteL). *)
Finish(s) ==
    /\ Free /\ utility[s].active /\ utility[s].iStep = 1 /\ utility[s].iEntryList = {}
    /\ \/ /\ Undisturbed /\ UNCHANGED abandoned
          /\ answer' = [answer EXCEPT ![s] = "Done"]
          /\ utility' = [utility EXCEPT ![s].active = FALSE, ![s].iStep = 2]
       \/ Disturb /\ Abandon(s) /\ UNCHANGED answer
    /\ UNCHANGED <<client, iAsyncRecognitionActive, iRecognitionResult, serving, unfetched, requests>>
    /\ UnchangedButRequests

----------------------------------------------------------------------------
(* The client gets its result, or gives up.                                  *)

(* TransferRecognitionResultL, whose result stays if writing it fails.       *)
Transfer(s) ==
    /\ Free
    /\ iAsyncRecognitionActive' =
         IF iRecognitionResult[s] = Null THEN iAsyncRecognitionActive ELSE iAsyncRecognitionActive \ {s}
    /\ \/ Undisturbed /\ iRecognitionResult' = [iRecognitionResult EXCEPT ![s] = Null]
       \/ Disturb /\ UNCHANGED iRecognitionResult
    /\ UNCHANGED unfetched

(* The client has no memory for the result, and does not say so.             *)
DoNotTransfer(s) ==
    /\ Disturb
    /\ unfetched' = unfetched \cup (iAsyncRecognitionActive \cap {s})
    /\ UNCHANGED <<iAsyncRecognitionActive, iRecognitionResult>>

Fetch(s) ==
    /\ client[s] = "Fetching"
    /\ Transfer(s) \/ DoNotTransfer(s)
    /\ client' = [client EXCEPT ![s] = "Idle"]
    /\ UNCHANGED <<answer, utility, serving, abandoned, requests>> /\ UnchangedButRequests

FilesRecognized(s) ==
    /\ client[s] = "Waiting" /\ answer[s] # "None"
    /\ IF answer[s] = "Done" THEN Transfer(s) \/ DoNotTransfer(s)
       ELSE Undisturbed /\ UNCHANGED <<iAsyncRecognitionActive, iRecognitionResult, unfetched>>
    /\ client' = [client EXCEPT ![s] = "Idle"]
    /\ answer' = [answer EXCEPT ![s] = "None"]
    /\ UNCHANGED <<utility, serving, abandoned, requests>> /\ UnchangedButRequests

CancelRecognitionRequest(s) ==
    IF utility[s].iStep <= 1
    THEN utility' = IF utility[s].active THEN [utility EXCEPT ![s].active = FALSE, ![s].iStep = 0] ELSE utility
    ELSE UNCHANGED utility

Completes(s) == s \in iAsyncRecognitionActive /\ utility[s].iStep <= 1

(* CActive::Cancel tells the server and then waits for the message, which    *)
(* must have been completed by then.                                         *)
CancelRecognizeFiles(s) ==
    /\ Free /\ client[s] = "Waiting"
    /\ IF s \in iAsyncRecognitionActive THEN CancelRecognitionRequest(s) ELSE UNCHANGED utility
    /\ iAsyncRecognitionActive' = iAsyncRecognitionActive \ {s}
    /\ client' = [client EXCEPT ![s] = IF answer[s] # "None" \/ Completes(s) THEN "Idle" ELSE "Hung"]
    /\ answer' = [answer EXCEPT ![s] = "None"]
    /\ UNCHANGED <<iRecognitionResult, serving, abandoned, unfetched, requests, disturbances>>
    /\ UnchangedButRequests

(* The client dies, and connects again.                                      *)
Disconnect(s) ==
    /\ Disturb /\ Started /\ serving # s
    /\ client' = [client EXCEPT ![s] = "Idle"]
    /\ answer' = [answer EXCEPT ![s] = "None"]
    /\ iAsyncRecognitionActive' = iAsyncRecognitionActive \ {s}
    /\ iRecognitionResult' = [iRecognitionResult EXCEPT ![s] = Null]
    /\ utility' = [utility EXCEPT ![s] = [iStep |-> 0, active |-> FALSE, iEntryList |-> {}]]
    /\ abandoned' = abandoned \ {s} /\ unfetched' = unfetched \ {s}
    /\ UNCHANGED <<serving, requests>> /\ UnchangedButRequests

----------------------------------------------------------------------------

Init ==
    /\ CacheInit
    /\ client = [s \in Sessions |-> "Idle"] /\ answer = [s \in Sessions |-> "None"]
    /\ iAsyncRecognitionActive = {} /\ iRecognitionResult = [s \in Sessions |-> Null]
    /\ utility = [s \in Sessions |-> [iStep |-> 0, active |-> FALSE, iEntryList |-> {}]]
    /\ serving = Null /\ abandoned = {} /\ unfetched = {}

(* The utility's RunL.                                                       *)
UtilityRunL(s) == ReadDirectory(s) \/ RecognizeCurrent(s) \/ Finish(s)

SessionNext(s) ==
    \/ \E d \in Directories : RecognizeFiles(s, d) \/ RecognizeFilesAsync(s, d)
    \/ RecognizeNext(s) \/ RecognizedAll(s) \/ Fetch(s)
    \/ UtilityRunL(s) \/ FilesRecognized(s) \/ CancelRecognizeFiles(s) \/ Disconnect(s)

SharedNext ==
    /\ Environment \/ (serving = Null /\ (Ask \/ Handle))
    /\ UNCHANGED sessionVars

Next == SharedNext \/ \E s \in Sessions : SessionNext(s)

Spec == Init /\ [][Next]_vars

(* The server's handlers run in turn, requests being bounded, and clients    *)
(* run theirs.                                                               *)
Fairness ==
    /\ WF_vars(serving = Null /\ Start /\ UNCHANGED sessionVars)
    /\ WF_vars(serving = Null /\ DoUnloadRecognizers /\ UNCHANGED sessionVars)
    /\ WF_vars(serving = Null /\ EComRunL /\ UNCHANGED sessionVars)
    /\ WF_vars(serving = Null /\ TimerCallBack /\ UNCHANGED sessionVars)
    /\ WF_vars(serving = Null /\ StopTimer /\ UNCHANGED sessionVars)
    /\ \A s \in Sessions :
         WF_vars(RecognizeNext(s) \/ RecognizedAll(s)) /\ WF_vars(UtilityRunL(s))
         /\ WF_vars(Fetch(s)) /\ WF_vars(FilesRecognized(s))

FairSpec == Spec /\ Fairness

----------------------------------------------------------------------------
(* Properties.                                                               *)

(* The server names a file by what it held when it was recognized, cached or *)
(* not, unless a client named it first: from what it had read before         *)
(* (RecognizeDataL), or by a handle it shared with a writer (AddL reads the  *)
(* time of modification when the file has been recognized).                  *)
ResultsAreTrue ==
    \A s \in Sessions : iRecognitionResult[s] # Null =>
        \A x \in iRecognitionResult[s].iEntries : x.contents \in {0, x.lastModified}

(* Once the monitor waits for the next change, nothing older than the last   *)
(* is at work: neither recognizers nor cached results; unless reloading them *)
(* failed (UpdatePlugIns ignores it), or the change came before the monitor  *)
(* was started (ConstructL).                                                 *)
CacheFollowsPlugIns ==
    notifier = "Armed" /\ ~outdated =>
        /\ recognizers.loaded \in {0, plugIns}
        /\ \A e \in cache.entries : e.plugIns = plugIns

(* Between two handlers the recognizers are not in use; if loaded on demand, *)
(* they are loaded as long as the timer is to unload them, and nothing was   *)
(* ever recognized without them (LoadRecognizersL, UnloadRecognizers).       *)
LoadedWhileUsed ==
    /\ recognizers.iRecognizerUsageCount = 0
    /\ recognizers.timerOn <=> iLoadRecognizersOnDemand /\ recognizers.loaded # 0
    /\ iLoadRecognizersOnDemand \/ recognizers.loaded # 0
    /\ \A e \in cache.entries : e.plugIns # 0

(* The cache counts its entries right, one for a file and each in a          *)
(* directory of its list, and holds one more than its limit at most (DoAddL, *)
(* Cleanup): one more still for every time an entry could not be added,      *)
(* which may leave an empty directory to be cleaned up for nothing.          *)
CacheIsBounded ==
    /\ cache.iNumberOfEntries = Cardinality(cache.entries)
    /\ \A e \in cache.entries : Listed(cache, DirectoryOf[e.file])
    /\ \A e, x \in cache.entries : e.file = x.file => e = x
    /\ cache.iNumberOfEntries <= KMaxNumberOfEntries + 1 + addsLeft

(* A client waits for what the session has in hand: its utility is active,   *)
(* or its RunL left, and then cancelling still completes the message         *)
(* (CancelRecognitionRequest); so no client hangs when it cancels.  And a    *)
(* session refuses a request only while its client waits, or because the     *)
(* client had no memory to fetch the last result (TransferAndInternalizeDataL). *)
WaitersAreAnswered ==
    \A s \in Sessions :
        /\ client[s] # "Hung"
        /\ client[s] = "Waiting" /\ answer[s] = "None" <=>
             s \in iAsyncRecognitionActive /\ utility[s].iStep <= 1
        /\ client[s] = "Waiting" /\ answer[s] = "None" => utility[s].active \/ s \in abandoned
        /\ s \in iAsyncRecognitionActive => client[s] = "Waiting" \/ s \in unfetched

(* Requests and disturbances over, all clients have their answer, but for    *)
(* those whose recognition was abandoned; recognizers loaded on demand are   *)
(* unloaded, and the monitor waits for plug-ins, unless ECom failed.         *)
Settles ==
    <>[](/\ \A s \in Sessions : client[s] = "Idle" \/ (client[s] = "Waiting" /\ s \in abandoned)
         /\ serving = Null
         /\ iLoadRecognizersOnDemand => recognizers.loaded = 0
         /\ notifier \in {"Armed", "Dead"} /\ ~iEComTimerOn)

=============================================================================
