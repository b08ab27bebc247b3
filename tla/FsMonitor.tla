------------------------------- MODULE FsMonitor -------------------------------
(***************************************************************************)
(* CApaFsMonitor (apserv/APSSCAN.CPP): one active object per monitored     *)
(* location asks the file server for one change notification; a completed  *)
(* request starts a periodic timer at idle priority, and the timer's tick  *)
(* re-arms the notifiers and calls the owner back.  The owner may block    *)
(* callbacks.  Everything runs on the server's one thread, so a RunL or a  *)
(* tick is one step; file changes and time come from outside.              *)
(***************************************************************************)
EXTENDS Naturals

CONSTANTS
    Locs,     \* locations monitored (NewL, AddLocationL)
    Pause,    \* KApaFsMonitorPause, in clock units
    Period,   \* KApaFsMonitorPeriod, in clock units
    Flaky     \* locations whose notification request may complete with an error

ASSUME LocsAssumption  == Flaky \subseteq Locs
ASSUME DelayAssumption == Pause \in Nat /\ Period \in Nat

VARIABLES
    notifier,       \* notifier[l]: state of the active object of location l
    iFsHasChanged,  \* a change was notified and no callback has been made since
    iIsBlocked,     \* SetBlocked: callbacks are held back
    timerOn,        \* iFsTimer->IsActive()
    left,           \* clock units until the timer's next tick is due
    owed,           \* history: owed[l] = l changed and no callback has been made since
    since           \* history: clock units since the last callback, up to Period

fsVars == <<notifier, iFsHasChanged, iIsBlocked, timerOn, left, owed, since>>

(* Idle: not active.  Armed: RFs::NotifyChange outstanding.  Changed and     *)
(* Failed: completed with KErrNone or an error, RunL still to run.           *)
NotifierState == {"Idle", "Armed", "Changed", "Failed"}

LongestDelay == IF Pause > Period THEN Pause ELSE Period

TypeOK ==
    /\ notifier \in [Locs -> NotifierState]
    /\ iFsHasChanged \in BOOLEAN
    /\ iIsBlocked \in BOOLEAN
    /\ timerOn \in BOOLEAN
    /\ left \in 0 .. LongestDelay
    /\ owed \in [Locs -> BOOLEAN]
    /\ since \in 0 .. Period

----------------------------------------------------------------------------
(* Mutants: a re-arm that forgets the first location; a timer start that     *)
(* postpones a running timer, or cuts it short.                              *)
DoStartSkipsOne ==
    [l \in Locs |-> IF notifier[l] = "Idle" /\ l # CHOOSE k \in Locs \ Flaky : TRUE
                    THEN "Armed" ELSE notifier[l]]
StartTimerPostpones == timerOn' = TRUE /\ left' = left + Pause
StartTimerRestarts  == timerOn' = TRUE /\ left' = Pause

(* DoStart arms every notifier that is not active.  A notifier whose request *)
(* has completed is still active until its RunL runs.                        *)
DoStart == [l \in Locs |-> IF notifier[l] = "Idle" THEN "Armed" ELSE notifier[l]]

StartTimerIfOff ==
    /\ timerOn' = TRUE
    /\ left' = IF timerOn THEN left ELSE Pause

(* The owner's ConstructL: Start(ENotifyFile); the server blocks right after. *)
Init ==
    /\ notifier = [l \in Locs |-> "Armed"]
    /\ iFsHasChanged = FALSE
    /\ iIsBlocked \in BOOLEAN
    /\ timerOn = FALSE
    /\ left = 0
    /\ owed = [l \in Locs |-> FALSE]
    /\ since = Period

(* A file under location l is created, deleted or renamed: the file server   *)
(* completes the request if one is outstanding.                              *)
FsChange(l) ==
    /\ notifier' = [notifier EXCEPT ![l] = IF @ = "Armed" THEN "Changed" ELSE @]
    /\ owed' = [owed EXCEPT ![l] = TRUE]
    /\ UNCHANGED <<iFsHasChanged, iIsBlocked, timerOn, left, since>>

RequestFails(l) ==
    /\ l \in Flaky
    /\ notifier[l] = "Armed"
    /\ notifier' = [notifier EXCEPT ![l] = "Failed"]
    /\ UNCHANGED <<iFsHasChanged, iIsBlocked, timerOn, left, owed, since>>

(* CApaFsNotifier::RunL with KErrNone, and the monitor's FsChanged. The      *)
(* notifier is not re-armed here.                                            *)
NotifierRunL(l) ==
    /\ notifier[l] = "Changed"
    /\ notifier' = [notifier EXCEPT ![l] = "Idle"]
    /\ iFsHasChanged' = TRUE
    /\ IF iIsBlocked THEN UNCHANGED <<timerOn, left>> ELSE StartTimerIfOff
    /\ UNCHANGED <<iIsBlocked, owed, since>>

(* CApaFsNotifier::RunL with an error: nothing, not even a new request.      *)
NotifierRunLError(l) ==
    /\ notifier[l] = "Failed"
    /\ notifier' = [notifier EXCEPT ![l] = "Idle"]
    /\ UNCHANGED <<iFsHasChanged, iIsBlocked, timerOn, left, owed, since>>

(* Mutants: unblocking that does not look at what happened meanwhile.        *)
SetBlockedForgets(b) ==
    /\ iIsBlocked' = b
    /\ UNCHANGED <<notifier, iFsHasChanged, timerOn, left, owed, since>>

SetBlocked(b) ==
    /\ iIsBlocked' = b
    /\ IF ~b /\ iFsHasChanged THEN StartTimerIfOff ELSE UNCHANGED <<timerOn, left>>
    /\ UNCHANGED <<notifier, iFsHasChanged, owed, since>>

(* Cancel() and Start(), one after the other as Cancel's comment has them:   *)
(* what a completed request had to tell is dropped, the flag and the timer   *)
(* are not touched.                                                          *)
Restart ==
    /\ notifier' = [l \in Locs |-> "Armed"]
    /\ owed' = [l \in Locs |-> owed[l] /\ iFsHasChanged]
    /\ UNCHANGED <<iFsHasChanged, iIsBlocked, timerOn, left, since>>

(* Notifiers have EPriorityLow and the timer EPriorityIdle, so the tick runs *)
(* only when no notifier has a RunL to run.                                  *)
TickRuns ==
    /\ timerOn
    /\ left = 0
    /\ \A l \in Locs : notifier[l] \notin {"Changed", "Failed"}

(* TimerCallBack with a change to report: the flag is cleared and the        *)
(* notifiers re-armed before the owner is called.                            *)
CallBack ==
    /\ TickRuns
    /\ iFsHasChanged /\ ~iIsBlocked
    /\ iFsHasChanged' = FALSE
    /\ notifier' = DoStart
    /\ left' = Period
    /\ owed' = [l \in Locs |-> FALSE]
    /\ since' = 0
    /\ UNCHANGED <<iIsBlocked, timerOn>>

(* TimerCallBack with nothing to report, or blocked: the timer is cancelled. *)
StopTimer ==
    /\ TickRuns
    /\ ~iFsHasChanged \/ iIsBlocked
    /\ timerOn' = FALSE
    /\ left' = 0
    /\ UNCHANGED <<notifier, iFsHasChanged, iIsBlocked, owed, since>>

(* One clock unit passes.  A due tick may run late.                          *)
Elapse ==
    /\ left' = IF timerOn /\ left > 0 THEN left - 1 ELSE left
    /\ since' = IF since < Period THEN since + 1 ELSE since
    /\ <<left', since'>> # <<left, since>>
    /\ UNCHANGED <<notifier, iFsHasChanged, iIsBlocked, timerOn, owed>>

Next ==
    \/ \E l \in Locs : \/ FsChange(l)
                       \/ RequestFails(l)
                       \/ NotifierRunL(l)
                       \/ NotifierRunLError(l)
    \/ \E b \in BOOLEAN : SetBlocked(b)
    \/ Restart
    \/ CallBack
    \/ StopTimer
    \/ Elapse

Spec == Init /\ [][Next]_fsVars

(* The scheduler runs every ready active object, and clocks advance.  The    *)
(* owner promises no fairness for its unblocking.                            *)
Fairness ==
    /\ \A l \in Locs : WF_fsVars(NotifierRunL(l)) /\ WF_fsVars(NotifierRunLError(l))
    /\ WF_fsVars(CallBack)
    /\ WF_fsVars(StopTimer)
    /\ WF_fsVars(Elapse)

FairSpec == Spec /\ Fairness

----------------------------------------------------------------------------
(* A change is never forgotten.  Between a notifier's RunL and the next tick *)
(* the location has no request outstanding, so a change in that window is    *)
(* not notified at all; it is safe only because the flag is then still set   *)
(* and the callback still to come.                                           *)
NoLostChange ==
    \A l \in Locs \ Flaky : owed[l] => notifier[l] = "Changed" \/ iFsHasChanged

(* A detected change keeps the timer alive: a set flag with callbacks not    *)
(* blocked and the timer off would wait for the next, unrelated change.      *)
TimerArmed == iFsHasChanged /\ ~iIsBlocked => timerOn

(* The monitor keeps the promise ChangeMonitor states: no callback while     *)
(* blocked ("While in a blocked state, the callback never gets called"), two *)
(* callbacks are Period apart ("the CallBack is not called again until after *)
(* 3 secs"), and a callback is made only if a location did change since the  *)
(* last one.                                                                 *)
Promise == INSTANCE ChangeMonitor
           WITH blocked <- iIsBlocked
KeepsPromise == Promise!Spec

(* Once callbacks stay unblocked, and monitoring is not started again for    *)
(* ever, every change of a sound location reaches a callback, whatever the   *)
(* interleaving with blocking before that.                                   *)
ChangeReachesCallBack ==
    (<>[]~iIsBlocked /\ <>[][~Restart]_fsVars) =>
        \A l \in Locs \ Flaky : owed[l] ~> ~owed[l]

(* A sound location is deaf (its notifier inactive) only while a callback,   *)
(* which re-arms it, is due.                                                 *)
DeafOnlyIfDue ==
    \A l \in Locs \ Flaky : /\ notifier[l] # "Failed"
                            /\ notifier[l] = "Idle" => iFsHasChanged

(* The flag, and a notification about to set it, tell of a change the owner  *)
(* has not been called back for.                                             *)
NothingSpurious ==
    /\ \A l \in Locs : notifier[l] = "Changed" => owed[l]
    /\ iFsHasChanged => \E l \in Locs : owed[l]

(* The time still to wait for a tick makes up what is missing to Period.     *)
WaitCoversPeriod == IF timerOn THEN since + left >= Period ELSE since = Period

IInv == TypeOK /\ DeafOnlyIfDue /\ NoLostChange /\ TimerArmed /\ NothingSpurious
        /\ WaitCoversPeriod

=============================================================================
