---------------------------- MODULE FsMonitorProofs ----------------------------
(***************************************************************************)
(* Safety of the file-system monitor for every set of locations and every  *)
(* pair of delays.                                                         *)
(***************************************************************************)
EXTENDS FsMonitor, TLAPS

(* The fresh monitor satisfies the inductive invariant: every notifier is    *)
(* armed, nothing is owed and the timer is off.                              *)
LEMMA InitIInv == Init => IInv
<1> SUFFICES ASSUME Init PROVE IInv
  OBVIOUS
<1> USE DelayAssumption DEF Init
<1>1. TypeOK
  <2>1. notifier \in [Locs -> NotifierState] /\ owed \in [Locs -> BOOLEAN]
    BY DEF NotifierState
  <2>2. iFsHasChanged \in BOOLEAN /\ iIsBlocked \in BOOLEAN /\ timerOn \in BOOLEAN
    BY Zenon
  <2>3. left \in 0 .. LongestDelay /\ since \in 0 .. Period
    BY DEF LongestDelay
  <2> QED
    BY <2>1, <2>2, <2>3 DEF TypeOK
<1>2. DeafOnlyIfDue
  BY DEF DeafOnlyIfDue
<1>3. NoLostChange
  BY DEF NoLostChange
<1>4. TimerArmed
  BY Zenon DEF TimerArmed
<1>5. WaitCoversPeriod
  BY DEF WaitCoversPeriod
<1>6. NothingSpurious
  BY DEF NothingSpurious
<1> QED
  BY <1>1, <1>2, <1>3, <1>4, <1>5, <1>6 DEF IInv

(* Every RunL, tick, block and outside event preserves the inductive         *)
(* invariant.                                                                *)
LEMMA NextIInv == IInv /\ [Next]_fsVars => IInv'
<1> SUFFICES ASSUME IInv, [Next]_fsVars PROVE IInv'
  OBVIOUS
<1> USE DelayAssumption, LocsAssumption DEF IInv, NotifierState
<1>1. ASSUME NEW l \in Locs, FsChange(l) PROVE IInv'
  BY <1>1 DEF FsChange, TypeOK, DeafOnlyIfDue, NoLostChange, TimerArmed,
        NothingSpurious, WaitCoversPeriod
<1>2. ASSUME NEW l \in Locs, RequestFails(l) PROVE IInv'
  BY <1>2 DEF RequestFails, TypeOK, DeafOnlyIfDue, NoLostChange, TimerArmed,
        NothingSpurious, WaitCoversPeriod
<1>3. ASSUME NEW l \in Locs, NotifierRunL(l) PROVE IInv'
  <2>1. TypeOK'
    <3>1. notifier' \in [Locs -> NotifierState] /\ owed' \in [Locs -> BOOLEAN]
      BY <1>3 DEF NotifierRunL, TypeOK
    <3>2. iFsHasChanged' \in BOOLEAN /\ iIsBlocked' \in BOOLEAN
      BY <1>3, Zenon DEF NotifierRunL, TypeOK
    <3>3. timerOn' \in BOOLEAN
      BY <1>3 DEF NotifierRunL, StartTimerIfOff, TypeOK
    <3>4. left' \in 0 .. LongestDelay /\ since' \in 0 .. Period
      BY <1>3 DEF NotifierRunL, StartTimerIfOff, TypeOK, LongestDelay
    <3> QED
      BY <3>1, <3>2, <3>3, <3>4 DEF TypeOK
  <2>2. DeafOnlyIfDue'
    BY <1>3 DEF NotifierRunL, StartTimerIfOff, DeafOnlyIfDue, TypeOK
  <2>3. NoLostChange'
    BY <1>3 DEF NotifierRunL, StartTimerIfOff, NoLostChange, TypeOK
  <2>4. TimerArmed'
    BY <1>3 DEF NotifierRunL, StartTimerIfOff, TimerArmed, TypeOK
  <2>5. WaitCoversPeriod'
    BY <1>3 DEF NotifierRunL, StartTimerIfOff, WaitCoversPeriod, TypeOK
  <2>6. NothingSpurious'
    BY <1>3 DEF NotifierRunL, StartTimerIfOff, NothingSpurious, TypeOK
  <2> QED
    BY <2>1, <2>2, <2>3, <2>4, <2>5, <2>6
<1>4. ASSUME NEW l \in Locs, NotifierRunLError(l) PROVE IInv'
  BY <1>4 DEF NotifierRunLError, TypeOK, DeafOnlyIfDue, NoLostChange, TimerArmed,
        NothingSpurious, WaitCoversPeriod
<1>5. ASSUME NEW b \in BOOLEAN, SetBlocked(b) PROVE IInv'
  <2>1. TypeOK'
    <3>1. notifier' \in [Locs -> NotifierState] /\ owed' \in [Locs -> BOOLEAN]
      BY <1>5 DEF SetBlocked, TypeOK
    <3>2. iFsHasChanged' \in BOOLEAN /\ iIsBlocked' \in BOOLEAN
      BY <1>5, Zenon DEF SetBlocked, TypeOK
    <3>3. timerOn' \in BOOLEAN
      BY <1>5 DEF SetBlocked, StartTimerIfOff, TypeOK
    <3>4. left' \in 0 .. LongestDelay /\ since' \in 0 .. Period
      BY <1>5 DEF SetBlocked, StartTimerIfOff, TypeOK, LongestDelay
    <3> QED
      BY <3>1, <3>2, <3>3, <3>4 DEF TypeOK
  <2>2. DeafOnlyIfDue'
    BY <1>5 DEF SetBlocked, StartTimerIfOff, DeafOnlyIfDue, TypeOK
  <2>3. NoLostChange'
    BY <1>5 DEF SetBlocked, StartTimerIfOff, NoLostChange, TypeOK
  <2>4. TimerArmed'
    BY <1>5 DEF SetBlocked, StartTimerIfOff, TimerArmed, TypeOK
  <2>5. WaitCoversPeriod'
    BY <1>5 DEF SetBlocked, StartTimerIfOff, WaitCoversPeriod, TypeOK
  <2>6. NothingSpurious'
    BY <1>5 DEF SetBlocked, StartTimerIfOff, NothingSpurious, TypeOK
  <2> QED
    BY <2>1, <2>2, <2>3, <2>4, <2>5, <2>6
<1>10. CASE Restart
  <2>1. TypeOK'
    <3>1. notifier' \in [Locs -> NotifierState] /\ owed' \in [Locs -> BOOLEAN]
      BY <1>10 DEF Restart, TypeOK
    <3> QED
      BY <1>10, <3>1 DEF Restart, TypeOK
  <2>2. DeafOnlyIfDue' /\ NoLostChange'
    BY <1>10 DEF Restart, DeafOnlyIfDue, NoLostChange, TypeOK
  <2>3. TimerArmed' /\ WaitCoversPeriod'
    BY <1>10 DEF Restart, TimerArmed, WaitCoversPeriod
  <2>4. NothingSpurious'
    BY <1>10 DEF Restart, NothingSpurious, TypeOK
  <2> QED
    BY <2>1, <2>2, <2>3, <2>4
<1>6. CASE CallBack
  <2>1. TypeOK'
    <3>1. notifier' \in [Locs -> NotifierState] /\ owed' \in [Locs -> BOOLEAN]
      BY <1>6 DEF CallBack, DoStart, TypeOK
    <3>2. iFsHasChanged' \in BOOLEAN /\ iIsBlocked' \in BOOLEAN /\ timerOn' \in BOOLEAN
      BY <1>6, Zenon DEF CallBack, TypeOK
    <3>3. left' \in 0 .. LongestDelay /\ since' \in 0 .. Period
      BY <1>6 DEF CallBack, LongestDelay
    <3> QED
      BY <3>1, <3>2, <3>3 DEF TypeOK
  <2>2. DeafOnlyIfDue'
    BY <1>6 DEF CallBack, TickRuns, DoStart, DeafOnlyIfDue, TypeOK
  <2>3. NoLostChange'
    BY <1>6 DEF CallBack, TickRuns, DoStart, NoLostChange, TypeOK
  <2>4. TimerArmed'
    BY <1>6 DEF CallBack, TickRuns, DoStart, TimerArmed, TypeOK
  <2>5. WaitCoversPeriod'
    BY <1>6 DEF CallBack, TickRuns, DoStart, WaitCoversPeriod, TypeOK
  <2>6. NothingSpurious'
    BY <1>6 DEF CallBack, TickRuns, DoStart, NothingSpurious, TypeOK
  <2> QED
    BY <2>1, <2>2, <2>3, <2>4, <2>5, <2>6
<1>7. CASE StopTimer
  <2>1. TypeOK'
    BY <1>7 DEF StopTimer, TickRuns, TypeOK
  <2>2. DeafOnlyIfDue'
    BY <1>7 DEF StopTimer, TickRuns, DeafOnlyIfDue, TypeOK
  <2>3. NoLostChange'
    BY <1>7 DEF StopTimer, TickRuns, NoLostChange, TypeOK
  <2>4. TimerArmed'
    BY <1>7 DEF StopTimer, TickRuns, TimerArmed, TypeOK
  <2>5. WaitCoversPeriod'
    BY <1>7 DEF StopTimer, TickRuns, WaitCoversPeriod, TypeOK
  <2>6. NothingSpurious'
    BY <1>7 DEF StopTimer, TickRuns, NothingSpurious, TypeOK
  <2> QED
    BY <2>1, <2>2, <2>3, <2>4, <2>5, <2>6
<1>8. CASE Elapse
  <2>1. left' \in 0 .. LongestDelay /\ since' \in 0 .. Period
    BY <1>8 DEF Elapse, TypeOK, LongestDelay
  <2>2. TypeOK'
    BY <1>8, <2>1 DEF Elapse, TypeOK
  <2>3. DeafOnlyIfDue' /\ NoLostChange' /\ TimerArmed' /\ NothingSpurious'
    BY <1>8 DEF Elapse, DeafOnlyIfDue, NoLostChange, TimerArmed, NothingSpurious
  <2>4. WaitCoversPeriod'
    BY <1>8 DEF Elapse, TypeOK, LongestDelay, WaitCoversPeriod
  <2> QED
    BY <2>2, <2>3, <2>4
<1>9. CASE UNCHANGED fsVars
  BY <1>9 DEF fsVars, TypeOK, DeafOnlyIfDue, NoLostChange, TimerArmed,
        NothingSpurious, WaitCoversPeriod
<1> QED
  BY <1>1, <1>2, <1>3, <1>4, <1>5, <1>6, <1>7, <1>8, <1>9, <1>10 DEF Next

(* The inductive invariant holds in every reachable state of the monitor.    *)
THEOREM Invariance == Spec => []IInv
BY InitIInv, NextIInv, PTL DEF Spec

(* The monitor's variables keep their types.                                 *)
THEOREM TypeCorrect == Spec => []TypeOK
BY Invariance, PTL DEF IInv

(* A change under a location whose requests do not fail is always either     *)
(* about to be noticed or about to be called back: the window in which the   *)
(* notifier is not re-armed loses nothing.                                   *)
THEOREM NoChangeIsLost == Spec => []NoLostChange
BY Invariance, PTL DEF IInv

(* A detected change with callbacks allowed always has the timer running.    *)
THEOREM TimerStaysArmed == Spec => []TimerArmed
BY Invariance, PTL DEF IInv

(* The fresh monitor owes nothing: an initial state of ChangeMonitor.        *)
LEMMA InitPromise == Init => Promise!Init
BY DEF Init, Promise!Init

(* Every step of the monitor is a step of ChangeMonitor, or changes nothing  *)
(* that the owner can tell.                                                  *)
LEMMA StepPromise == IInv /\ [Next]_fsVars => [Promise!Next]_Promise!cmVars
<1> SUFFICES ASSUME IInv, [Next]_fsVars PROVE Promise!Next \/ UNCHANGED Promise!cmVars
  OBVIOUS
<1> USE DelayAssumption DEF IInv, Promise!Next, Promise!cmVars
<1>1. ASSUME NEW l \in Locs, FsChange(l) PROVE Promise!Change(l)
  BY <1>1 DEF FsChange, Promise!Change
<1>2. ASSUME NEW b \in BOOLEAN, SetBlocked(b) PROVE Promise!SetBlocked(b)
  BY <1>2 DEF SetBlocked, Promise!SetBlocked
<1>3. CASE CallBack
  <2>1. since >= Period
    BY <1>3 DEF CallBack, TickRuns, WaitCoversPeriod, TypeOK
  <2>2. \E l \in Locs : owed[l]
    BY <1>3 DEF CallBack, NothingSpurious
  <2> QED
    BY <1>3, <2>1, <2>2 DEF CallBack, Promise!CallBack
<1>4. CASE Restart
  BY <1>4 DEF Restart, TypeOK, Promise!Restart
<1>5. CASE Elapse
  BY <1>5 DEF Elapse, TypeOK, Promise!Elapse
<1>6. CASE StopTimer
  BY <1>6 DEF StopTimer
<1>7. ASSUME NEW l \in Locs, RequestFails(l) \/ NotifierRunL(l) \/ NotifierRunLError(l)
      PROVE  UNCHANGED Promise!cmVars
  BY <1>7 DEF RequestFails, NotifierRunL, NotifierRunLError
<1>8. CASE UNCHANGED fsVars
  BY <1>8 DEF fsVars
<1> QED
  BY <1>1, <1>2, <1>3, <1>4, <1>5, <1>6, <1>7, <1>8 DEF Next

(* The monitor implements ChangeMonitor: for any locations and delays it     *)
(* never calls back while blocked, too soon, or for nothing, and never       *)
(* forgets what it owes.                                                     *)
THEOREM Implements == Spec => KeepsPromise
BY InitPromise, StepPromise, Invariance, PTL DEF Spec, KeepsPromise, Promise!Spec

=============================================================================
