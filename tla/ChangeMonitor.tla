----------------------------- MODULE ChangeMonitor -----------------------------
(***************************************************************************)
(* What CApaFsMonitor (apserv/APSSCAN.CPP) promises its owner, the abstract *)
(* specification that FsMonitor implements: the owner is called back when, *)
(* and only when, something changed; not while it blocks callbacks; never  *)
(* twice within Period; and a change stays owed until a callback tells it. *)
(***************************************************************************)
EXTENDS Naturals

CONSTANTS
    Locs,     \* locations monitored
    Period    \* the least time between two callbacks

VARIABLES
    owed,     \* owed[l]: l changed and no callback has been made since
    blocked,  \* the owner blocks callbacks
    since     \* time since the last callback, up to Period

cmVars == <<owed, blocked, since>>

Init ==
    /\ owed = [l \in Locs |-> FALSE]
    /\ blocked \in BOOLEAN
    /\ since = Period

Change(l) ==
    /\ owed' = [owed EXCEPT ![l] = TRUE]
    /\ UNCHANGED <<blocked, since>>

SetBlocked(b) ==
    /\ blocked' = b
    /\ UNCHANGED <<owed, since>>

(* One callback stands for all the changes before it.                        *)
CallBack ==
    /\ ~blocked
    /\ since >= Period
    /\ \E l \in Locs : owed[l]
    /\ owed' = [l \in Locs |-> FALSE]
    /\ since' = 0
    /\ UNCHANGED blocked

Elapse ==
    /\ since < Period
    /\ since' = since + 1
    /\ UNCHANGED <<owed, blocked>>

(* Monitoring is cancelled and started again: what was noticed is still      *)
(* told, what was not may be given up.                                       *)
Restart ==
    /\ \A l \in Locs : owed'[l] => owed[l]
    /\ owed' \in [Locs -> BOOLEAN]
    /\ UNCHANGED <<blocked, since>>

Next ==
    \/ \E l \in Locs : Change(l)
    \/ \E b \in BOOLEAN : SetBlocked(b)
    \/ CallBack
    \/ Elapse
    \/ Restart

Spec == Init /\ [][Next]_cmVars

=============================================================================
