--------------------------- MODULE NonNativeUpdatesProofs ---------------------------
(***************************************************************************)
(* Safety of a batch of non-native application updates, as long as every   *)
(* record can be committed, no crash comes in a window in which the log is *)
(* behind the files, and nothing fails of what the code takes to succeed:  *)
(* for any applications and kinds of file, any number of updates and       *)
(* crashes, and any leave of an update.                                    *)
(***************************************************************************)
EXTENDS UpdateLogProofs

-------------------------------------------------------------------------------
(* No record is lost for want of space, no crash in a window in which the    *)
(* log is behind the files; a file can be deleted, a rollback can restore    *)
(* one, and a recovery has the memory to read the log.                       *)
Sound == Happens \cap (Windows \cup Ignored \cup {"LogFull"}) = {}

Recovering == phase = "down" /\ logFile

(* The list in memory, or what the recovery will rebuild of it; and the      *)
(* update at work.                                                           *)
List == IF Recovering THEN Reopened(Replay(log).list) ELSE updates
Current == IF Recovering THEN Replay(log).cur ELSE at

(* The files of the update at work that are not where they belong yet.       *)
Pending == IF step = "note" THEN left \ {Kind} ELSE left

StatePerforming ==
    IF step \in {"new", "section", "Performing"} THEN "New"
    ELSE IF step = "end" THEN "Performed" ELSE "Performing"

StatesRollingBack ==
    IF step \in {"none", "section", "RollingBack"} THEN {"Performing", "Performed", "RollingBack"}
    ELSE IF step = "end" THEN {"RolledBack"} ELSE {"RollingBack"}

AllPerformed == \A i \in DOMAIN updates : updates[i].state = "Performed"

(* What is after the i-th update was rolled back, or never begun: that only  *)
(* if the batch has failed while the server was up.                          *)
UndoneAfter(list, i) ==
    \A j \in DOMAIN list : j > i =>
        /\ list[j].state \in {"RolledBack", "New"}
        /\ list[j].state = "New" => result = "error"
        /\ list[j].state = "RolledBack" =>
             \A l \in DOMAIN list : i < l /\ l < j => list[l].state = "RolledBack"

RollingBack(list, i) ==
    /\ i \in 0..Len(list)
    /\ \A j \in DOMAIN list : j < i => list[j].state = "Performed"
    /\ i # 0 => list[i].state \in StatesRollingBack
    /\ UndoneAfter(list, i)

Shape ==
    /\ full = FALSE
    /\ phase = "idle" => updates = <<>> /\ at = 0 /\ result # "open"
    /\ phase = "down" => updates = <<>> /\ at = 0 /\ result = "died"
    /\ phase = "prepared" =>
         /\ at = 0 /\ result = "open"
         /\ \A i \in DOMAIN updates : updates[i].state = "New"
    /\ phase = "performing" =>
         /\ result = "open"
         /\ \A i \in DOMAIN updates :
              updates[i].state = IF i < at THEN "Performed"
                                 ELSE IF i > at THEN "New" ELSE StatePerforming
    /\ phase = "rollingBack" =>
         /\ result \in {"error", "died"}
         /\ RollingBack(updates, at)
    /\ phase \in {"closing", "destroying"} =>
         /\ result \in {"ok", "error", "died"}
         /\ result = "ok" => AllPerformed /\ (phase = "closing" => at = Len(updates) + 1)
         /\ result # "ok" => at = 0 /\ UndoneAfter(updates, 0)
    /\ Recovering => RollingBack(List, Current)

(* How far each of the files of an update is, by the state of the update.    *)
FitDetail(u, k) ==
    LET d == u.det[k]
    IN  /\ d = NoDetails \/ (d.state \in {"Temporary", "Real"} /\ d.path = <<u.app, k>>)
        /\ u.state = "New" =>
             IF u.type = "Register" THEN d.state # "Real" ELSE d = NoDetails
        /\ u.state = "Performed" =>
             IF u.type = "Register" THEN d.state # "Temporary" ELSE d.state # "Real"
        /\ u.state = "RolledBack" => d = NoDetails

FitDetails(list) == \A i \in DOMAIN list, k \in AllKinds : FitDetail(list[i], k)

(* Every file is where its details say.                                      *)
AreThere(list) ==
    \A i \in DOMAIN list, k \in AllKinds :
        LET d == list[i].det[k]
        IN  /\ d.state = "Temporary" => temp[<<i, k>>] # Nothing
            /\ d.state = "Real" => real[d.path] # Nothing

(* A file that a deregistration has moved away was there before any that has *)
(* its name now.                                                             *)
InOrder(list) ==
    \A i, j \in DOMAIN list, k, l \in AllKinds :
        /\ list[i].type = "Deregister" /\ list[i].det[k].state = "Temporary"
        /\ list[j].det[l].state = "Real" /\ list[j].det[l].path = list[i].det[k].path
        => i < j

(* The files of a list, no two of which have one real name.                  *)
FilesFit(list) == FitDetails(list) /\ AreThere(list) /\ Openable(list) /\ InOrder(list)

DetailsAtWork ==
    /\ step = "find" => \A k \in AllKinds : cur.det[k] = NoDetails
    /\ phase = "performing" /\ step \in {"move", "note", "Performed", "end"} =>
         \A k \in AllKinds :
            IF cur.type = "Register"
            THEN cur.det[k].state = "Temporary" <=> k \in Pending
            ELSE cur.det[k].state = "Real" <=> k \in Pending
    /\ phase = "performing" /\ step = "note" =>
         cur.det[Kind].state = IF cur.type = "Register" THEN "Real" ELSE "Temporary"
    /\ phase = "rollingBack" /\ step \in {"undo", "note", "RolledBack", "end"} =>
         \A k \in AllKinds \ Pending : cur.det[k] = NoDetails

TemporariesKnown ==
    crashes = 0 =>
        \A s \in Slots : temp[s] # Nothing =>
            s[1] \in DOMAIN updates /\ updates[s[1]].det[s[2]].state = "Temporary"

FilesInv == FilesFit(List) /\ DetailsAtWork /\ TemporariesKnown

-------------------------------------------------------------------------------
(* The log, as long as the batch has not failed. *)

(* A log never has the details of a file that a deregistration has opened    *)
(* and not moved.                                                            *)
RealLogged(u) ==
    \A k \in AllKinds : u.det[k].state = "Real" => u.type = "Register" /\ u.det[k].path \in Names

Logged(p, i) ==
    /\ p.list[i].type = updates[i].type /\ p.list[i].app = updates[i].app
    /\ p.list[i].state = updates[i].state
    /\ RealLogged(p.list[i])

(* The log has all that was done, but for a file just moved, those a         *)
(* deregistration is to move, and the second and later files of a            *)
(* registration.                                                             *)
DonePerforming(i, k, d, l) ==
    \/ l = d
    \/ updates[i].type = "Deregister" /\ d.state = "Real" /\ l = NoDetails
    \/ i = at /\ step = "note" /\ k = Kind
    \/ updates[i].type = "Register" /\ d.state = "Real" /\ k # Resource

LoggedPerforming(p) ==
    \A i \in DOMAIN p.list :
        Logged(p, i) /\ \A k \in AllKinds : DonePerforming(i, k, updates[i].det[k], p.list[i].det[k])

DoneRollingBack(i, k, d, l) ==
    \/ l = d
    \/ /\ i = at /\ d = NoDetails /\ Found(i, k, l) = NoDetails
       /\ step \in {"undo", "note", "RolledBack", "end"} => k \in left

LoggedRollingBack(p) ==
    \A i \in DOMAIN p.list :
        Logged(p, i) /\ \A k \in AllKinds : DoneRollingBack(i, k, updates[i].det[k], p.list[i].det[k])

InSection(p, section) ==
    /\ p.section = section
    /\ p.fix <=> section # "none"

LogPerforming(p) ==
    /\ Len(p.list) = IF step = "new" THEN at - 1 ELSE at
    /\ p.cur = Len(p.list)
    /\ InSection(p, IF step \in {"new", "section"} THEN "none" ELSE "perform")
    /\ LoggedPerforming(p)

LogRollingBack(p) ==
    /\ Len(p.list) = Len(updates)
    /\ p.cur = at
    /\ InSection(p, IF step = "section" THEN "none" ELSE "rollback")
    /\ LoggedRollingBack(p)

LogClosing(p) ==
    /\ Len(p.list) = Len(updates)
    /\ p.cur = IF result = "ok" THEN Len(updates) ELSE 0
    /\ InSection(p, "none")
    /\ LoggedPerforming(p)

LogDown(p) ==
    /\ p.fix <=> p.section # "none"
    /\ \A i \in DOMAIN p.list :
         /\ RealLogged(p.list[i])
         /\ i # p.cur => \A k \in AllKinds : Found(i, k, p.list[i].det[k]) = p.list[i].det[k]

LogReads(p) ==
    /\ p.reading = TRUE /\ p.length = Len(log)
    /\ phase = "performing" => LogPerforming(p)
    /\ phase = "rollingBack" => LogRollingBack(p)
    /\ phase = "closing" => LogClosing(p)
    /\ phase = "down" => LogDown(p)

LogInv == logFile /\ result # "error" => LogReads(Replay(log))

LogBased == TypeInv /\ Shape /\ FilesInv /\ LogInv

(* The details of one file of the update at work become d.                   *)
Notes(kind, d) == updates' = [updates EXCEPT ![at].det[kind] = d]

(* The file at work is dealt with, and its details become d.                 *)
Dealing(d) ==
    /\ Working /\ step \in {"move", "undo"}
    /\ Goes("note")
    /\ \/ updates' = [updates EXCEPT ![at].det[Kind] = d]
       \/ \E s \in {"Temporary", "Real"} :
            /\ d = [state |-> s, path |-> cur.det[Kind].path]
            /\ updates' = [updates EXCEPT ![at].det[Kind].state = s]

Other(i, k) == i # at \/ k # Kind

(* The files afterwards: that file is where d says, and those that other     *)
(* details tell of are still where they were.                                *)
Moves(d) ==
    /\ d.state = "Temporary" => temp'[<<at, Kind>>] # Nothing
    /\ d.state # "Temporary" /\ crashes = 0 => temp'[<<at, Kind>>] = Nothing
    /\ \A s \in Slots : s # <<at, Kind>> => temp'[s] = temp[s]
    /\ d.state = "Real" => real'[d.path] # Nothing
    /\ \A i \in DOMAIN updates, k \in AllKinds :
          Other(i, k) /\ updates[i].det[k].state = "Real" =>
            /\ updates[i].det[k] # d
            /\ real'[updates[i].det[k].path] # Nothing
            /\ cur.type = "Deregister" /\ d.state = "Temporary" => updates[i].det[k].path # d.path
    /\ \A i \in DOMAIN updates, k \in AllKinds :
          /\ Other(i, k) /\ d.state = "Real"
          /\ updates[i].type = "Deregister" /\ updates[i].det[k].state = "Temporary"
          => i < at


-------------------------------------------------------------------------------
(* What Sound excludes. *)

(* The drive does not fill up, no crash comes in a window, and none of the   *)
(* failures comes that the code ignores.                                     *)
LEMMA SoundExcludes ==
    ASSUME Sound
    PROVE  /\ ~FillUp
           /\ Crash => \A w \in Windows : ~Window(w)
           /\ ~DeleteFails /\ ~RestoreRealFails /\ ~RecoverFails
BY DEF Sound, Ignored, FillUp, Crash, DeleteFails, RestoreRealFails, RecoverFails

(* What a crash outside the windows cannot find.                             *)
LEMMA WindowsAre ==
    ASSUME \A w \in Windows : ~Window(w)
    PROVE  /\ logFile => result # "error"
           /\ logFile => \A i \in 1..Len(updates), k \in AllKinds \ {Resource} :
                ~(updates[i].type = "Register" /\ updates[i].det[k].state = "Real")
           /\ phase = "performing" => step \notin {"note", "section", "Performing"}
           /\ phase = "rollingBack" => step # "end"
<1>1. ~Window("Misnoted") /\ ~Window("Unlogged") /\ ~Window("Unperformed") /\ ~Window("Failed") /\ ~Window("Unended")
  BY DEF Windows
<1> QED
  BY <1>1 DEF Window

(* Every record can be committed.                                            *)
LEMMA NotFull == Shape => ~LogWriteFails
BY DEF Shape, LogWriteFails

(* While the server is up the list is the one in memory.                     *)
LEMMA ListIs == ~Recovering => List = updates /\ Current = at
BY DEF List, Current

(* The list is a sequence of updates.                                        *)
LEMMA UpdatesTyped == TypeInv => updates \in Seq(Updates) /\ Len(updates) \in Nat /\ DOMAIN updates = 1..Len(updates)
BY DEF TypeInv, TypeOK, Updates, Types

(* While an update is at work it is one of the list.                         *)
LEMMA AtWork ==
    ASSUME TypeInv, Working
    PROVE  /\ at \in DOMAIN updates /\ at \in 1..Len(updates) /\ DOMAIN updates = 1..Len(updates) /\ Len(updates) \in Nat
           /\ \A i \in DOMAIN updates : i \in Nat /\ updates[i] \in Updates
           /\ ~Recovering /\ List = updates /\ Current = at
<1>1. ~Recovering
  BY DEF Working, Recovering
<1>2. at \in 1..Len(updates) /\ updates \in Seq(Updates) /\ DOMAIN updates = 1..Len(updates) /\ Len(updates) \in Nat
  BY UpdatesTyped, WorkingTypes
<1>3. \A i \in DOMAIN updates : i \in Nat /\ updates[i] \in Updates
  BY <1>2
<1> QED
  BY <1>1, <1>2, <1>3, ListIs

(* A change of the state of the update at work.                              *)
LEMMA StateSet ==
    ASSUME TypeInv, Working, NEW s \in States, updates' = InState(s)
    PROVE  /\ DOMAIN updates' = DOMAIN updates /\ Len(updates') = Len(updates)
           /\ \A i \in DOMAIN updates :
                /\ updates'[i].type = updates[i].type /\ updates'[i].app = updates[i].app
                /\ updates'[i].det = updates[i].det
                /\ updates'[i].state = IF i = at THEN s ELSE updates[i].state
<1>1. at \in 1..Len(updates) /\ updates \in Seq(Updates) /\ DOMAIN updates = 1..Len(updates)
      /\ \A i \in DOMAIN updates : updates[i] \in Updates
  BY AtWork, UpdatesTyped
<1>2. DOMAIN updates' = DOMAIN updates /\ Len(updates') = Len(updates)
  BY <1>1, UpdateChanges DEF InState
<1>3. \A i \in DOMAIN updates : updates'[i] = IF i = at THEN [updates[i] EXCEPT !.state = s] ELSE updates[i]
  BY <1>1 DEF InState
<1> QED
  BY <1>1, <1>2, <1>3 DEF Updates

(* A change of the details of one file of the update at work.                *)
LEMMA DetailSet ==
    ASSUME TypeInv, Working, NEW kind \in AllKinds, NEW d, Notes(kind, d)
    PROVE  /\ DOMAIN updates' = DOMAIN updates
           /\ \A i \in DOMAIN updates :
                /\ updates'[i].type = updates[i].type /\ updates'[i].app = updates[i].app
                /\ updates'[i].state = updates[i].state
                /\ \A k \in AllKinds :
                     updates'[i].det[k] = IF i = at /\ k = kind THEN d ELSE updates[i].det[k]
<1>1. at \in 1..Len(updates) /\ updates \in Seq(Updates) /\ DOMAIN updates = 1..Len(updates)
      /\ \A i \in DOMAIN updates : updates[i] \in Updates
  BY AtWork, UpdatesTyped
<1>2. DOMAIN updates' = DOMAIN updates
  BY DEF Notes
<1>3. \A i \in DOMAIN updates :
        updates'[i] = IF i = at THEN [updates[i] EXCEPT !.det = [updates[i].det EXCEPT ![kind] = d]] ELSE updates[i]
  BY <1>1 DEF Notes
<1>4. \A i \in DOMAIN updates : DOMAIN updates[i].det = AllKinds
  BY <1>1 DEF Updates
<1> QED
  BY <1>1, <1>2, <1>3, <1>4 DEF Updates

(* A change of a file's state alone is a change of its details.              *)
LEMMA DetailStateSet ==
    ASSUME TypeInv, Working, NEW kind \in AllKinds, NEW s, updates' = [updates EXCEPT ![at].det[kind].state = s]
    PROVE  /\ updates' = [updates EXCEPT ![at].det[kind] = [state |-> s, path |-> updates[at].det[kind].path]]
<1>1. updates[at].det[kind] \in Details
  BY WorkingTypes DEF cur
<1>2. [updates[at].det[kind] EXCEPT !.state = s] = [state |-> s, path |-> updates[at].det[kind].path]
  BY <1>1 DEF Details
<1> QED
  BY <1>2

(* The file at work is the same as long as the phase, the update and what is *)
(* left of it are.                                                           *)
LEMMA KindKept ==
    ASSUME UNCHANGED <<phase, at, left>>, updates'[at].type = updates[at].type
    PROVE  Kind' = Kind
BY DEF Kind, cur

-------------------------------------------------------------------------------
(* The states of the updates. *)

(* The states of the list's updates while one is performed.                  *)
LEMMA ShapePerforming ==
    ASSUME TypeInv, Shape, phase = "performing"
    PROVE  /\ Working /\ ~Recovering /\ full = FALSE /\ result = "open"
           /\ \A i \in DOMAIN updates :
                updates[i].state = IF i < at THEN "Performed" ELSE IF i > at THEN "New" ELSE StatePerforming
BY DEF Shape, Working, Recovering

(* The states of the list's updates while one is rolled back.                *)
LEMMA ShapeRollingBack ==
    ASSUME TypeInv, Shape, phase = "rollingBack"
    PROVE  /\ Working /\ ~Recovering /\ full = FALSE /\ result \in {"error", "died"}
           /\ at \in 1..Len(updates)
           /\ \A i \in DOMAIN updates :
                /\ i < at => updates[i].state = "Performed"
                /\ i = at => updates[i].state \in StatesRollingBack
                /\ i > at => updates[i].state \in {"RolledBack", "New"}
                /\ i > at /\ updates[i].state = "New" => result = "error"
           /\ UndoneAfter(updates, at)
<1>1. Working /\ ~Recovering
  BY DEF Working, Recovering
<1>2. at \in DOMAIN updates /\ at \in 1..Len(updates)
  BY <1>1, AtWork
<1>3. RollingBack(updates, at) /\ full = FALSE /\ result \in {"error", "died"}
  BY DEF Shape
<1> QED
  BY <1>1, <1>2, <1>3 DEF RollingBack, UndoneAfter

(* A step that leaves the states of the updates alone. *)
LEMMA ShapeSameStates ==
    ASSUME TypeInv, Shape, Working, UNCHANGED <<full, phase, at, result>>,
           DOMAIN updates' = DOMAIN updates, Len(updates') = Len(updates),
           \A i \in DOMAIN updates : updates'[i].state = updates[i].state,
           phase = "performing" => StatePerforming' = StatePerforming,
           phase = "rollingBack" => StatesRollingBack' = StatesRollingBack
    PROVE  Shape'
<1>1. at \in DOMAIN updates /\ at \in Nat
  BY AtWork
<1>2. CASE phase = "performing"
  <2>1. /\ result' = "open" /\ full' = FALSE /\ phase' = "performing" /\ ~Recovering'
        /\ \A i \in DOMAIN updates' :
                updates'[i].state = IF i < at' THEN "Performed" ELSE IF i > at' THEN "New" ELSE StatePerforming'
    BY <1>2, ShapePerforming DEF Recovering
  <2> QED
    BY <2>1 DEF Shape
<1>3. CASE phase = "rollingBack"
  <2>1. UndoneAfter(updates, at) /\ RollingBack(updates, at)
    BY <1>3 DEF Shape, RollingBack
  <2>2. UndoneAfter(updates, at)'
    BY <2>1 DEF UndoneAfter
  <2>3. RollingBack(updates, at)'
    BY <1>1, <1>3, <2>1, <2>2 DEF RollingBack
  <2>4. full' = FALSE /\ result' \in {"error", "died"} /\ phase' = "rollingBack" /\ ~Recovering'
    BY <1>3 DEF Shape, Recovering
  <2> QED
    BY <2>3, <2>4 DEF Shape
<1> QED
  BY <1>2, <1>3 DEF Working

(* An update that leaves is the first to be rolled back.                     *)
LEMMA ShapeFails ==
    ASSUME TypeInv, Shape, phase = "performing", step \in {"find", "move", "Performed"}, Fails, UNCHANGED <<updates, full>>
    PROVE  Shape'
<1>1. /\ at \in 1..Len(updates) /\ DOMAIN updates = 1..Len(updates) /\ Len(updates) \in Nat
      /\ \A i \in DOMAIN updates :
           updates[i].state = IF i < at THEN "Performed" ELSE IF i > at THEN "New" ELSE "Performing"
  BY AtWork, ShapePerforming DEF StatePerforming, Working
<1>2. phase' = "rollingBack" /\ step' = "section" /\ at' = at /\ result' = "error" /\ full' = FALSE
  BY <1>1 DEF Fails, RollBackFrom, Shape
<1>3. UndoneAfter(updates, at)'
  BY <1>1, <1>2 DEF UndoneAfter
<1>4. StatesRollingBack' = {"Performing", "Performed", "RollingBack"}
  BY <1>2 DEF StatesRollingBack
<1>5. RollingBack(updates, at)'
  BY <1>1, <1>2, <1>3, <1>4 DEF RollingBack
<1> QED
  BY <1>2, <1>5 DEF Shape, Recovering

(* Shape, step by step: StateChange.                                         *)
LEMMA ShapeStateChange == TypeInv /\ Shape /\ StateChange => Shape'
<1> SUFFICES ASSUME TypeInv, Shape, StateChange PROVE Shape'
  OBVIOUS
<1>1. /\ Working /\ step \in States /\ updates' = InState(step) /\ at \in 1..Len(updates) /\ DOMAIN updates = 1..Len(updates)
      /\ UNCHANGED <<full, phase, at, result, logFile>>
  BY AtWork DEF StateChange, Logs, Begin, Goes, Handle
<1>2. /\ DOMAIN updates' = DOMAIN updates /\ Len(updates') = Len(updates)
      /\ \A i \in DOMAIN updates : updates'[i].state = IF i = at THEN step ELSE updates[i].state
  BY <1>1, StateSet
<1>3. CASE phase = "performing"
  <2>1. step \in {"Performing", "Performed"}
    BY <1>1, <1>3 DEF TypeInv, StepFits, States
  <2>2. step' = IF step = "Performed" THEN "end" ELSE step'
    BY <2>1 DEF StateChange, Begin, Goes
  <2>3. step = "Performing" => step' \in {"find", "move", "Performed"}
    BY <1>3 DEF StateChange, Begin, Goes, Handle
  <2>4. StatePerforming' = step
    BY <2>1, <2>2, <2>3 DEF StatePerforming
  <2>5. /\ result' = "open" /\ full' = FALSE /\ phase' = "performing" /\ ~Recovering'
        /\ \A i \in DOMAIN updates' :
                updates'[i].state = IF i < at' THEN "Performed" ELSE IF i > at' THEN "New" ELSE StatePerforming'
    BY <1>1, <1>2, <1>3, <2>4, ShapePerforming DEF Recovering
  <2> QED
    BY <2>5 DEF Shape
<1>4. CASE phase = "rollingBack"
  <2>1. step \in {"RollingBack", "RolledBack"}
    BY <1>1, <1>4 DEF TypeInv, StepFits, States
  <2>2. step = "RolledBack" => step' = "end"
    BY DEF StateChange, Begin, Goes
  <2>3. step = "RollingBack" => step' \in {"undo", "RolledBack"}
    BY <1>4 DEF StateChange, Begin, Goes, Handle
  <2>4. step \in StatesRollingBack'
    BY <2>1, <2>2, <2>3 DEF StatesRollingBack
  <2>5. UndoneAfter(updates, at) /\ RollingBack(updates, at)
    BY <1>4 DEF Shape, RollingBack
  <2>6. UndoneAfter(updates, at)'
    BY <1>1, <1>2, <2>5 DEF UndoneAfter
  <2>7. RollingBack(updates, at)'
    BY <1>1, <1>2, <2>4, <2>5, <2>6 DEF RollingBack
  <2>8. full' = FALSE /\ result' \in {"error", "died"} /\ phase' = "rollingBack" /\ ~Recovering'
    BY <1>1, <1>4 DEF Shape, Recovering
  <2> QED
    BY <2>7, <2>8 DEF Shape
<1> QED
  BY <1>1, <1>3, <1>4 DEF Working

(* Shape, step by step: EndOfUpdate.                                         *)
LEMMA ShapeEndOfUpdate == TypeInv /\ Shape /\ EndOfUpdate => Shape'
<1> SUFFICES ASSUME TypeInv, Shape, EndOfUpdate PROVE Shape'
  OBVIOUS
<1>1. /\ Working /\ step = "end" /\ at \in 1..Len(updates) /\ DOMAIN updates = 1..Len(updates) /\ Len(updates) \in Nat
      /\ UNCHANGED <<full, logFile, updates>>
  BY AtWork DEF EndOfUpdate, Logs
<1>2. CASE phase = "performing" /\ PerformFrom(at + 1)
  <2>1. /\ full' = FALSE
        /\ \A i \in DOMAIN updates : updates[i].state = IF i < at + 1 THEN "Performed" ELSE "New"
    BY <1>1, <1>2, ShapePerforming DEF StatePerforming
  <2>2. CASE at + 1 > Len(updates)
    <3>1. phase' = "closing" /\ result' = "ok" /\ at' = Len(updates) + 1
      BY <1>1, <1>2, <2>2 DEF PerformFrom
    <3>2. AllPerformed'
      BY <1>1, <2>1, <2>2 DEF AllPerformed
    <3> QED
      BY <1>1, <2>1, <3>1, <3>2 DEF Shape, Recovering
  <2>3. CASE ~(at + 1 > Len(updates))
    <3>1. phase' = "performing" /\ result' = "open" /\ at' = at + 1 /\ step' = "new"
      BY <1>1, <1>2, <2>3 DEF PerformFrom
    <3>2. StatePerforming' = "New"
      BY <3>1 DEF StatePerforming
    <3>3. \A i \in DOMAIN updates' :
             updates'[i].state = IF i < at' THEN "Performed" ELSE IF i > at' THEN "New" ELSE StatePerforming'
      BY <1>1, <2>1, <3>1, <3>2
    <3> QED
      BY <2>1, <3>1, <3>3 DEF Shape, Recovering
  <2> QED
    BY <2>2, <2>3
<1>3. CASE phase = "rollingBack" /\ RollBackFrom(at - 1) /\ UNCHANGED result
  <2>1. /\ full' = FALSE /\ result \in {"error", "died"}
        /\ \A i \in DOMAIN updates :
                /\ i < at => updates[i].state = "Performed"
                /\ i = at => updates[i].state = "RolledBack"
        /\ UndoneAfter(updates, at)
    BY <1>1, <1>3, ShapeRollingBack DEF StatesRollingBack
  <2>a. at' = at - 1
    BY <1>3 DEF RollBackFrom
  <2>2. UndoneAfter(updates, at)'
    BY <1>1, <1>3, <2>1, <2>a DEF UndoneAfter
  <2>3. CASE at - 1 = 0
    <3>1. phase' = "closing" /\ at' = 0 /\ result' = result
      BY <1>3, <2>3 DEF RollBackFrom
    <3> QED
      BY <2>1, <2>2, <2>3, <3>1 DEF Shape, Recovering
  <2>4. CASE at - 1 # 0
    <3>1. phase' = "rollingBack" /\ at' = at - 1 /\ step' = "section" /\ result' = result
      BY <1>3, <2>4 DEF RollBackFrom
    <3>2. StatesRollingBack' = {"Performing", "Performed", "RollingBack"}
      BY <3>1 DEF StatesRollingBack
    <3>3. RollingBack(updates, at)'
      BY <1>1, <2>1, <2>2, <2>4, <3>1, <3>2 DEF RollingBack
    <3> QED
      BY <2>1, <3>1, <3>3 DEF Shape, Recovering
  <2> QED
    BY <2>3, <2>4
<1> QED
  BY <1>2, <1>3 DEF EndOfUpdate

(* The steps that leave every state alone: those that write a record other   *)
(* than a change of state, and those that move a file.                       *)
LEMMA ShapeLogStep ==
    ASSUME TypeInv, Shape, WriteNew \/ WriteSection \/ Continuation
    PROVE  Shape'
<1>1. Working /\ UNCHANGED <<full, phase, at, result, updates>>
  BY DEF WriteNew, WriteSection, Continuation, Logs, Goes
<1>2. CASE WriteNew
  <2>1. phase # "rollingBack" /\ step' = "section" /\ step = "new"
    BY <1>2 DEF WriteNew, Goes, TypeInv, StepFits
  <2>2. StatePerforming' = StatePerforming
    BY <2>1 DEF StatePerforming
  <2> QED
    BY <1>1, <2>1, <2>2, ShapeSameStates
<1>3. CASE WriteSection
  <2>1. step = "section" /\ step' = IF phase = "performing" THEN "Performing" ELSE "RollingBack"
    BY <1>3 DEF WriteSection, Goes
  <2>2. /\ phase = "performing" => StatePerforming' = StatePerforming
        /\ phase = "rollingBack" => StatesRollingBack' = StatesRollingBack
    BY <2>1 DEF StatePerforming, StatesRollingBack
  <2> QED
    BY <1>1, <2>2, ShapeSameStates
<1>4. CASE Continuation
  <2>1. step = "note" /\ step' \in {"move", "Performed", "undo", "RolledBack"}
        /\ (phase = "performing" => step' \in {"move", "Performed"})
        /\ (phase = "rollingBack" => step' \in {"undo", "RolledBack"})
    BY <1>4 DEF Continuation, Handle
  <2>2. /\ phase = "performing" => StatePerforming' = StatePerforming
        /\ phase = "rollingBack" => StatesRollingBack' = StatesRollingBack
    BY <2>1 DEF StatePerforming, StatesRollingBack
  <2> QED
    BY <1>1, <2>2, ShapeSameStates
<1> QED
  BY <1>2, <1>3, <1>4

(* The file at work is there.                                                *)
LEMMA SomeLeft ==
    ASSUME TypeInv, Working, step \in {"move", "undo", "note"}
    PROVE  left # {} /\ Kind \in AllKinds /\ Kind \in left /\ <<at, Kind>> \in Slots /\ cur.det[Kind] \in Details
BY WorkingTypes DEF TypeInv, StepFits

(* What a step that deals with the file at work does to the list.            *)
LEMMA Dealt ==
    ASSUME TypeInv, NEW d, Dealing(d)
    PROVE  /\ UNCHANGED <<phase, at, left, result>> /\ step' = "note" /\ Kind' = Kind
           /\ DOMAIN updates' = DOMAIN updates
           /\ \A i \in DOMAIN updates :
                /\ updates'[i].type = updates[i].type /\ updates'[i].app = updates[i].app
                /\ updates'[i].state = updates[i].state
                /\ \A k \in AllKinds :
                     updates'[i].det[k] = IF i = at /\ k = Kind THEN d ELSE updates[i].det[k]
           /\ Len(updates') = Len(updates)
<1>0. Working /\ Goes("note")
  BY DEF Dealing
<1>1. Kind \in AllKinds
  BY SomeLeft DEF Dealing
<1>2. updates' = [updates EXCEPT ![at].det[Kind] = d]
  BY <1>1, DetailStateSet DEF cur, Dealing
<1> DEFINE kind == Kind
<1> HIDE DEF kind
<1>k. kind \in AllKinds /\ Notes(kind, d)
  BY <1>1, <1>2 DEF kind, Notes
<1>3. /\ DOMAIN updates' = DOMAIN updates
      /\ \A i \in DOMAIN updates :
                /\ updates'[i].type = updates[i].type /\ updates'[i].app = updates[i].app
                /\ updates'[i].state = updates[i].state
                /\ \A k \in AllKinds :
                     updates'[i].det[k] = IF i = at /\ k = kind THEN d ELSE updates[i].det[k]
  BY <1>0, <1>k, DetailSet
<1>4. UNCHANGED <<phase, at, left, result>> /\ step' = "note"
  BY <1>0 DEF Goes
<1>5. Kind' = Kind
  BY <1>0, <1>3, <1>4, AtWork, KindKept
<1>6. Len(updates') = Len(updates)
  BY <1>2, UpdatesTyped
<1> QED
  BY <1>3, <1>4, <1>5, <1>6 DEF kind

(* Dealing with a file changes no state.                                     *)
LEMMA ShapeDealt ==
    ASSUME TypeInv, Shape, NEW d, Dealing(d), UNCHANGED full
    PROVE  Shape'
<1>1. /\ UNCHANGED <<phase, at, left, result>> /\ step' = "note"
      /\ DOMAIN updates' = DOMAIN updates /\ Len(updates') = Len(updates)
      /\ \A i \in DOMAIN updates : updates'[i].state = updates[i].state
      /\ Working /\ step \in {"move", "undo"}
  BY Dealt DEF Dealing
<1>2. /\ phase = "performing" => StatePerforming' = StatePerforming
      /\ phase = "rollingBack" => StatesRollingBack' = StatesRollingBack
  BY <1>1 DEF StatePerforming, StatesRollingBack
<1> QED
  BY <1>1, <1>2, ShapeSameStates

(* Each of the moves, as dealing with the file at work. *)
LEMMA Renaming ==
    ASSUME RenameToReal, ~(Fails /\ UNCHANGED <<diskVars, updates>>)
    PROVE  Dealing([state |-> "Real", path |-> cur.det[Kind].path]) /\ UNCHANGED full
BY DEF RenameToReal, Dealing, Working

(* A deregistration deals with its file by moving it to its temporary name.  *)
LEMMA RenamingAway ==
    ASSUME RenameToTemporary
    PROVE  Dealing([state |-> "Temporary", path |-> cur.det[Kind].path]) /\ UNCHANGED full
BY DEF RenameToTemporary, Dealing, Working

(* A rollback deals with every file by clearing its details.                 *)
LEMMA Undoing ==
    ASSUME Delete \/ RestoreReal
    PROVE  Dealing(NoDetails) /\ UNCHANGED full
BY DEF Delete, RestoreReal, Dealing, Working

(* No file operation changes a state.                                        *)
LEMMA ShapeFileStep ==
    ASSUME TypeInv, Shape, RenameToReal \/ RenameToTemporary \/ Delete \/ RestoreReal
    PROVE  Shape'
<1>1. CASE RenameToReal /\ Fails /\ UNCHANGED <<diskVars, updates>>
  <2>1. phase = "performing" /\ step = "move" /\ UNCHANGED full
    BY <1>1 DEF RenameToReal
  <2> QED
    BY <1>1, <2>1, ShapeFails
<1>2. CASE RenameToReal /\ ~(Fails /\ UNCHANGED <<diskVars, updates>>)
  BY <1>2, Renaming, ShapeDealt
<1>3. CASE RenameToTemporary
  BY <1>3, RenamingAway, ShapeDealt
<1>4. CASE Delete \/ RestoreReal
  BY <1>4, Undoing, ShapeDealt
<1> QED
  BY <1>1, <1>2, <1>3, <1>4

(* What Find does when it finds all it needs.                                *)
FilesFound == [k \in AllKinds |-> IF k \in FilesOf(cur.app)
                                  THEN [state |-> "Real", path |-> <<cur.app, k>>]
                                  ELSE NoDetails]

(* The opening of the files of a deregistered application: it leaves, or all *)
(* of them are there.                                                        *)
LEMMA FindIs ==
    ASSUME TypeInv, Find
    PROVE  /\ Working /\ phase = "performing" /\ step = "find" /\ cur.type = "Deregister" /\ cur.app \in Apps
           /\ UNCHANGED <<real, temp, logFile, log, full, batch, before, crashes>>
           /\ \/ Fails /\ UNCHANGED updates
              \/ /\ \A k \in FilesOf(cur.app) : ~Open(<<cur.app, k>>)
                 /\ UNCHANGED <<phase, at, result>>
                 /\ left' = FilesOf(cur.app) /\ left' \in SUBSET AllKinds
                 /\ step' = IF left' = {} THEN "Performed" ELSE "move"
                 /\ DOMAIN updates' = DOMAIN updates /\ Len(updates') = Len(updates)
                 /\ \A i \in DOMAIN updates :
                      /\ updates'[i].type = updates[i].type /\ updates'[i].app = updates[i].app
                      /\ updates'[i].state = updates[i].state
                      /\ \A k \in AllKinds :
                           updates'[i].det[k] = IF i = at THEN FilesFound[k] ELSE updates[i].det[k]
<1>1. Working /\ phase = "performing" /\ step = "find"
  BY DEF Find, Working
<1>2. cur.type = "Deregister" /\ cur.app \in Apps
  BY <1>1, WorkingTypes DEF TypeInv, StepFits
<1>3. UNCHANGED <<real, temp, logFile, log, full, batch, before, crashes>>
  BY DEF Find, diskVars, logVars, ghostVars
<1>4. CASE Fails /\ UNCHANGED updates
  BY <1>1, <1>2, <1>3, <1>4
<1>5. CASE ~(Fails /\ UNCHANGED updates)
  <2>1. /\ \A k \in FilesOf(cur.app) : ~Open(<<cur.app, k>>)
        /\ updates' = [updates EXCEPT ![at].det = FilesFound]
        /\ Handle(FilesOf(cur.app))
        /\ UNCHANGED <<phase, at, result>>
    BY <1>5 DEF Find, FilesFound
  <2>2. FilesOf(cur.app) \in SUBSET AllKinds
    BY DEF FilesOf
  <2>3. left' = FilesOf(cur.app) /\ step' = IF left' = {} THEN "Performed" ELSE "move"
    BY <1>1, <2>1 DEF Handle
  <2>4. /\ updates \in Seq(Updates) /\ at \in 1..Len(updates) /\ DOMAIN updates = 1..Len(updates)
        /\ \A i \in DOMAIN updates : updates[i] \in Updates
    BY <1>1, AtWork, UpdatesTyped
  <2>5. DOMAIN updates' = DOMAIN updates /\ Len(updates') = Len(updates)
    BY <2>1, <2>4
  <2>6. \A i \in DOMAIN updates :
          updates'[i] = IF i = at THEN [updates[i] EXCEPT !.det = FilesFound] ELSE updates[i]
    BY <2>1, <2>4
  <2>7. \A i \in DOMAIN updates :
                      /\ updates'[i].type = updates[i].type /\ updates'[i].app = updates[i].app
                      /\ updates'[i].state = updates[i].state
                      /\ updates'[i].det = IF i = at THEN FilesFound ELSE updates[i].det
    BY <2>4, <2>6 DEF Updates
  <2> QED
    BY <1>1, <1>2, <1>3, <2>1, <2>2, <2>3, <2>5, <2>7
<1> QED
  BY <1>4, <1>5

(* Shape, step by step: Find.                                                *)
LEMMA ShapeFind == TypeInv /\ Shape /\ Find => Shape'
<1> SUFFICES ASSUME TypeInv, Shape, Find PROVE Shape'
  OBVIOUS
<1>1. Working /\ phase = "performing" /\ step = "find" /\ UNCHANGED full
  BY FindIs
<1>2. CASE Fails /\ UNCHANGED updates
  BY <1>1, <1>2, ShapeFails
<1>3. CASE ~(Fails /\ UNCHANGED updates)
  <2>1. /\ UNCHANGED <<phase, at, result>> /\ step' \in {"Performed", "move"}
        /\ DOMAIN updates' = DOMAIN updates /\ Len(updates') = Len(updates)
        /\ \A i \in DOMAIN updates : updates'[i].state = updates[i].state
    BY <1>3, FindIs
  <2>2. StatePerforming' = StatePerforming /\ phase # "rollingBack"
    BY <1>1, <2>1 DEF StatePerforming
  <2> QED
    BY <1>1, <2>1, <2>2, ShapeSameStates
<1> QED
  BY <1>2, <1>3

(* Shape, step by step: PerformLeaves.                                       *)
LEMMA ShapePerformLeaves == TypeInv /\ Shape /\ PerformLeaves => Shape'
BY ShapeFails DEF PerformLeaves

(* The client, and the end of a batch. *)
LEMMA NewUpdateParts ==
    ASSUME TypeInv, NEW type \in Types, NEW a \in Apps, NEW kinds, Asked(type, a, kinds)
    PROVE  LET u == NewUpdate(type, a, IF type = "Register" THEN kinds ELSE {}) IN
           /\ phase = "prepared" /\ ~Recovering /\ ~Recovering'
           /\ UNCHANGED <<real, logFile, log, full, phase, at, step, left, result, before, crashes>>
           /\ updates' = Append(updates, u)
           /\ DOMAIN updates' = DOMAIN updates \cup {Len(updates) + 1}
           /\ Len(updates') = Len(updates) + 1
           /\ \A i \in DOMAIN updates : updates'[i] = updates[i]
           /\ updates'[Len(updates) + 1] = u
           /\ u.type = type /\ u.app = a /\ u.state = "New"
           /\ \A k \in AllKinds : u.det[k] = IF type = "Register" /\ k \in kinds
                                             THEN [state |-> "Temporary", path |-> <<a, k>>]
                                             ELSE NoDetails
<1> DEFINE u == NewUpdate(type, a, IF type = "Register" THEN kinds ELSE {})
<1>1. /\ u.type = type /\ u.app = a /\ u.state = "New"
      /\ \A k \in AllKinds : u.det[k] = IF type = "Register" /\ k \in kinds
                                        THEN [state |-> "Temporary", path |-> <<a, k>>]
                                        ELSE NoDetails
  BY DEF NewUpdate
<1>2. /\ phase = "prepared" /\ ~Recovering /\ ~Recovering' /\ updates' = Append(updates, u)
      /\ UNCHANGED <<real, logFile, log, full, phase, at, step, left, result, before, crashes>>
  BY DEF Asked, Recovering, logVars
<1> HIDE DEF u
<1>3. updates \in Seq(Updates) /\ DOMAIN updates = 1..Len(updates) /\ Len(updates) \in Nat
  BY UpdatesTyped
<1>4. /\ DOMAIN updates' = DOMAIN updates \cup {Len(updates) + 1}
      /\ Len(updates') = Len(updates) + 1
      /\ \A i \in DOMAIN updates : updates'[i] = updates[i]
      /\ updates'[Len(updates) + 1] = u
  BY <1>2, <1>3
<1> QED
  BY <1>1, <1>2, <1>4 DEF u

(* A request adds a new update.                                              *)
LEMMA ShapeAsked ==
    ASSUME TypeInv, Shape, NEW type \in Types, NEW a \in Apps, NEW kinds, Asked(type, a, kinds)
    PROVE  Shape'
<1>1. /\ phase' = "prepared" /\ ~Recovering' /\ UNCHANGED <<full, at, result>>
      /\ \A i \in DOMAIN updates' : updates'[i].state = "New"
  BY NewUpdateParts DEF Shape
<1> QED
  BY <1>1, NewUpdateParts DEF Shape

(* Shape, step by step: the client's.                                        *)
LEMMA ShapeClient ==
    ASSUME TypeInv, Shape, Prepare \/ Abort \/ Commit \/ CommitRefused
    PROVE  Shape'
<1>1. CASE Prepare
  BY <1>1 DEF Shape, Prepare, Recovering
<1>2. CASE Abort
  BY <1>2 DEF Shape, Abort, DestroyList, Recovering
<1>3. CASE Commit
  <2>1. /\ at' = 1 /\ UNCHANGED <<updates, full>> /\ full = FALSE
        /\ \A i \in DOMAIN updates : updates[i].state = "New"
        /\ DOMAIN updates = 1..Len(updates) /\ Len(updates) \in Nat
    BY <1>3, UpdatesTyped DEF Commit, PerformFrom, Shape
  <2>2. CASE 1 > Len(updates)
    <3>1. phase' = "closing" /\ result' = "ok"
      BY <1>3, <2>2 DEF Commit, PerformFrom
    <3>2. Len(updates) = 0 /\ DOMAIN updates = {}
      BY <2>1, <2>2
    <3> QED
      BY <2>1, <3>1, <3>2 DEF Shape, Recovering, AllPerformed
  <2>3. CASE ~(1 > Len(updates))
    <3>1. phase' = "performing" /\ result' = "open" /\ step' = "new"
      BY <1>3, <2>3 DEF Commit, PerformFrom
    <3>2. StatePerforming' = "New"
      BY <3>1 DEF StatePerforming
    <3> QED
      BY <2>1, <3>1, <3>2 DEF Shape, Recovering
  <2> QED
    BY <2>2, <2>3
<1>4. CASE CommitRefused
  <2>1. \A i \in DOMAIN updates : updates[i].state = "New"
    BY <1>4 DEF Shape, CommitRefused
  <2>2. UndoneAfter(updates, 0)'
    BY <1>4, <2>1 DEF UndoneAfter, CommitRefused
  <2> QED
    BY <1>4, <2>2 DEF Shape, CommitRefused, Recovering
<1> QED
  BY <1>1, <1>2, <1>3, <1>4

(* Shape, step by step: those after the last update.                         *)
LEMMA ShapeFinish ==
    ASSUME TypeInv, Shape, CloseLog \/ Destroy \/ StartUp
    PROVE  Shape'
<1>1. CASE CloseLog
  <2>1. UndoneAfter(updates, 0) => UndoneAfter(updates, 0)'
    BY <1>1 DEF UndoneAfter, CloseLog
  <2>2. AllPerformed => AllPerformed'
    BY <1>1 DEF AllPerformed, CloseLog
  <2> QED
    BY <1>1, <2>1, <2>2 DEF Shape, CloseLog, Recovering
<1>2. CASE Destroy
  BY <1>2 DEF Shape, Destroy, DestroyList, Recovering
<1>3. CASE StartUp
  BY <1>3 DEF Shape, StartUp, Recovering
<1> QED
  BY <1>1, <1>2, <1>3

-------------------------------------------------------------------------------
(* The files of the updates. *)

(* Files that nobody touches still fit.                                      *)
LEMMA FilesFitSame ==
    ASSUME FilesFit(updates), UNCHANGED <<updates, real, temp>>
    PROVE  FilesFit(updates)'
<1>1. FitDetails(updates)'
  BY DEF FilesFit, FitDetails, FitDetail
<1>2. AreThere(updates)'
  BY DEF FilesFit, AreThere
<1>3. Openable(updates)'
  BY DEF FilesFit, Openable
<1>4. InOrder(updates)'
  BY DEF FilesFit, InOrder
<1> QED
  BY <1>1, <1>2, <1>3, <1>4 DEF FilesFit

(* An empty list fits any files.                                             *)
LEMMA FilesFitNone == ASSUME updates' = <<>> PROVE FilesFit(updates)'
BY DEF FilesFit, FitDetails, AreThere, Openable, InOrder

(* A step that touches no file and no details.                               *)
LEMMA FilesQuiet ==
    ASSUME FilesInv, ~Recovering, ~Recovering', UNCHANGED <<updates, real, temp, crashes>>, DetailsAtWork'
    PROVE  FilesInv'
<1>1. FilesFit(updates)'
  BY FilesFitSame, ListIs DEF FilesInv
<1>2. FilesFit(List)'
  BY <1>1 DEF List
<1>3. TemporariesKnown'
  BY DEF FilesInv, TemporariesKnown
<1> QED
  BY <1>2, <1>3 DEF FilesInv

(* Between two updates no file is at work.                                   *)
LEMMA NothingAtWork ==
    ASSUME step' \notin {"find", "move", "note", "Performed", "undo", "RolledBack", "end"}
    PROVE  DetailsAtWork'
BY DEF DetailsAtWork

(* An update that leaves touches no file.                                    *)
LEMMA FilesFails ==
    ASSUME TypeInv, FilesInv, phase = "performing", Fails, UNCHANGED <<updates, real, temp, crashes>>
    PROVE  FilesInv'
<1>1. at \in 1..Len(updates) /\ ~Recovering
  BY AtWork DEF Working
<1>2. phase' = "rollingBack" /\ step' = "section"
  BY <1>1 DEF Fails, RollBackFrom
<1>3. ~Recovering'
  BY <1>2 DEF Recovering
<1> QED
  BY <1>1, <1>2, <1>3, NothingAtWork, FilesQuiet

(* FilesInv, step by step: Continuation.                                     *)
LEMMA FilesContinuation == TypeInv /\ FilesInv /\ Continuation => FilesInv'
<1> SUFFICES ASSUME TypeInv, FilesInv, Continuation PROVE FilesInv'
  OBVIOUS
<1>1. /\ Working /\ ~Recovering /\ step = "note" /\ UNCHANGED <<phase, updates, at, real, temp, crashes>>
      /\ left' = left \ {Kind} /\ step' \in {"move", "Performed", "undo", "RolledBack"}
      /\ (phase = "performing" => step' \in {"move", "Performed"})
      /\ (phase = "rollingBack" => step' \in {"undo", "RolledBack"})
  BY AtWork DEF Continuation, Logs, Handle, diskVars, ghostVars
<1>2. Pending' = Pending /\ cur' = cur
  BY <1>1 DEF Pending, cur
<1>3. DetailsAtWork'
  BY <1>1, <1>2 DEF FilesInv, DetailsAtWork, Working
<1>4. ~Recovering'
  BY <1>1 DEF Working, Recovering
<1> QED
  BY <1>1, <1>3, <1>4, FilesQuiet

(* A record that notes no file touches none.                                 *)
LEMMA FilesLogStep ==
    ASSUME TypeInv, FilesInv, WriteNew \/ WriteSection \/ EndOfUpdate
    PROVE  FilesInv'
<1>1. Working /\ ~Recovering /\ UNCHANGED <<updates, real, temp, crashes>>
  BY AtWork DEF WriteNew, WriteSection, EndOfUpdate, Logs, diskVars, ghostVars
<1>2. /\ step' \in {"section", "Performing", "RollingBack", "new", "none"}
      /\ phase' \in {"performing", "rollingBack", "closing"}
  BY <1>1 DEF WriteNew, WriteSection, EndOfUpdate, Goes, PerformFrom, RollBackFrom, Working
<1>3. ~Recovering'
  BY <1>2 DEF Recovering
<1> QED
  BY <1>1, <1>2, <1>3, NothingAtWork, FilesQuiet

(* Nor does the commit, nor the closing of the log.                          *)
LEMMA FilesUntouched ==
    ASSUME TypeInv, FilesInv, Commit \/ CommitRefused \/ CloseLog \/ StartUp
    PROVE  FilesInv'
<1>1. UNCHANGED <<updates, real, temp, crashes>> /\ ~Recovering
  BY DEF Commit, CommitRefused, CloseLog, StartUp, diskVars, ghostVars, Recovering
<1>2. step' \in {"none", "new"} /\ phase' \in {"performing", "closing", "destroying", "idle"}
  BY DEF Commit, CommitRefused, CloseLog, StartUp, PerformFrom, TypeInv, StepFits, Working
<1>3. ~Recovering'
  BY <1>2 DEF Recovering
<1> QED
  BY <1>1, <1>2, <1>3, NothingAtWork, FilesQuiet

(* FilesInv, step by step: Prepare.                                          *)
LEMMA FilesPrepare == TypeInv /\ Shape /\ Prepare => FilesInv'
<1> SUFFICES ASSUME TypeInv, Shape, Prepare PROVE FilesInv'
  OBVIOUS
<1>1. updates' = <<>> /\ phase' = "prepared" /\ step' = "none"
  BY DEF Prepare, Shape, TypeInv, StepFits, Working
<1>2. FilesFit(List)'
  BY <1>1, FilesFitNone DEF List, Recovering
<1>3. TemporariesKnown'
  BY DEF Prepare, TemporariesKnown
<1> QED
  BY <1>1, <1>2, <1>3, NothingAtWork DEF FilesInv

(* FilesInv, step by step: StateChange.                                      *)
LEMMA FilesStateChange == TypeInv /\ Shape /\ FilesInv /\ StateChange => FilesInv'
<1> SUFFICES ASSUME TypeInv, Shape, FilesInv, StateChange PROVE FilesInv'
  OBVIOUS
<1>1. /\ Working /\ step \in States /\ updates' = InState(step) /\ ~Recovering
      /\ UNCHANGED <<phase, at, result, logFile, real, temp, crashes>>
      /\ at \in DOMAIN updates /\ DOMAIN updates = 1..Len(updates) /\ Len(updates) \in Nat
  BY AtWork DEF StateChange, Logs, Begin, Goes, Handle, diskVars, ghostVars
<1>2. /\ DOMAIN updates' = DOMAIN updates /\ Len(updates') = Len(updates)
      /\ \A i \in DOMAIN updates :
            /\ updates'[i].type = updates[i].type /\ updates'[i].app = updates[i].app
            /\ updates'[i].det = updates[i].det
            /\ updates'[i].state = IF i = at THEN step ELSE updates[i].state
  BY <1>1, StateSet
<1>3. FilesFit(updates) /\ DetailsAtWork /\ TemporariesKnown
  BY <1>1, ListIs DEF FilesInv
<1>4. step \in {"Performing", "RollingBack", "Performed", "RolledBack"} /\ left = {} /\ Pending = {}
      /\ (phase = "performing" <=> step \in {"Performing", "Performed"})
  BY <1>1 DEF TypeInv, StepFits, Working, States, Pending
<1>5. FitDetails(updates)'
  <2>1. ASSUME NEW k \in AllKinds PROVE FitDetail(updates[at], k)'
    <3>1. FitDetail(updates[at], k)
      BY <1>1, <1>3, <2>1 DEF FilesFit, FitDetails
    <3>2. step = "RolledBack" => updates[at].det[k] = NoDetails
      BY <1>1, <1>3, <1>4 DEF DetailsAtWork, cur, Working
    <3>3. step = "Performed" =>
            IF updates[at].type = "Register" THEN updates[at].det[k].state # "Temporary"
            ELSE updates[at].det[k].state # "Real"
      BY <1>1, <1>3, <1>4 DEF DetailsAtWork, cur
    <3> QED
      BY <1>1, <1>2, <1>4, <3>1, <3>2, <3>3 DEF FitDetail
  <2>2. ASSUME NEW i \in DOMAIN updates, i # at, NEW k \in AllKinds PROVE FitDetail(updates[i], k)'
    <3>1. FitDetail(updates[i], k)
      BY <1>3 DEF FilesFit, FitDetails
    <3> QED
      BY <1>2, <2>2, <3>1 DEF FitDetail
  <2> QED
    BY <1>1, <1>2, <2>1, <2>2 DEF FitDetails
<1>6. AreThere(updates)' /\ Openable(updates)' /\ InOrder(updates)'
  <2>1. AreThere(updates)'
    <3>1. \A i \in DOMAIN updates : updates'[i].det = updates[i].det
      BY <1>2
    <3>2. DOMAIN updates' = DOMAIN updates /\ temp' = temp /\ real' = real
      BY <1>1, <1>2
    <3> QED
      BY <1>3, <3>1, <3>2 DEF FilesFit, AreThere
  <2>2. Openable(updates)'
    BY <1>1, <1>2, <1>3 DEF FilesFit, Openable
  <2>3. InOrder(updates)'
    BY <1>1, <1>2, <1>3 DEF FilesFit, InOrder
  <2> QED
    BY <2>1, <2>2, <2>3
<1>7. TemporariesKnown'
  BY <1>1, <1>2, <1>3 DEF TemporariesKnown
<1>8. DetailsAtWork'
  <2>1. cur'.det = cur.det /\ cur'.type = cur.type /\ cur'.app = cur.app
    BY <1>1, <1>2 DEF cur
  <2>2. \A k \in AllKinds : FitDetail(cur, k)
    BY <1>1, <1>3 DEF FilesFit, FitDetails, cur
  <2>3. CASE step = "Performing"
    <3>1. phase = "performing" /\ cur.state = "New"
      BY <1>1, <1>4, <2>3, ShapePerforming, AtWork DEF StatePerforming, cur
    <3>2. CASE cur.type = "Deregister"
      <4>1. step' = "find"
        BY <2>3, <3>2 DEF StateChange, Begin, Goes
      <4>2. \A k \in AllKinds : cur.det[k] = NoDetails
        BY <2>2, <3>1, <3>2 DEF FitDetail
      <4> QED
        BY <2>1, <4>1, <4>2 DEF DetailsAtWork
    <3>3. CASE cur.type # "Deregister"
      <4>0. cur.type = "Register"
        BY <1>1, <3>3, WorkingTypes DEF Types
      <4>1. left' = {k \in AllKinds : cur.det[k].path # NoName} /\ step' \in {"Performed", "move"}
        BY <2>3, <3>1, <3>3 DEF StateChange, Begin, Handle
      <4>2. \A k \in AllKinds : cur.det[k].state = "Temporary" <=> cur.det[k].path # NoName
        <5> SUFFICES ASSUME NEW k \in AllKinds
                     PROVE  cur.det[k].state = "Temporary" <=> cur.det[k].path # NoName
          OBVIOUS
        <5> DEFINE d == cur.det[k]
        <5>1. /\ d = NoDetails \/ (d.state \in {"Temporary", "Real"} /\ d.path = <<cur.app, k>>)
              /\ d.state # "Real"
          BY <2>2, <3>1, <4>0 DEF FitDetail
        <5>2. <<cur.app, k>> # NoName
          BY NamesNotEmpty
        <5> HIDE DEF d
        <5>3. d.state = "Temporary" <=> d.path # NoName
          BY <5>1, <5>2 DEF NoDetails
        <5> QED
          BY <5>3 DEF d
      <4>3. Pending' = left'
        BY <4>1 DEF Pending
      <4> QED
        BY <1>1, <2>1, <3>1, <4>0, <4>1, <4>2, <4>3 DEF DetailsAtWork
    <3> QED
      BY <3>2, <3>3
  <2>4. CASE step = "RollingBack"
    <3>1. phase = "rollingBack" /\ left' = AllKinds /\ step' \in {"undo", "RolledBack"}
      BY <1>1, <1>4, <2>4 DEF StateChange, Begin, Handle, Working
    <3>2. Pending' = AllKinds
      BY <3>1 DEF Pending
    <3> QED
      BY <1>1, <3>1, <3>2 DEF DetailsAtWork
  <2>5. CASE step \in {"Performed", "RolledBack"}
    <3>1. step' = "end" /\ UNCHANGED left
      BY <2>5 DEF StateChange, Begin, Goes
    <3>2. Pending' = {}
      BY <1>4, <3>1 DEF Pending
    <3> QED
      BY <1>1, <1>3, <1>4, <2>1, <2>5, <3>1, <3>2 DEF DetailsAtWork, Working
  <2> QED
    BY <1>4, <2>3, <2>4, <2>5
<1>9. ~Recovering'
  BY <1>1 DEF Working, Recovering
<1> QED
  BY <1>3, <1>5, <1>6, <1>7, <1>8, <1>9 DEF FilesInv, FilesFit, List

-------------------------------------------------------------------------------
(* Moving files. *)

(* Dealing with the file at work leaves the files as they should be if its   *)
(* new details d are right and the other files that are open stay.           *)
LEMMA FilesDealt ==
    ASSUME TypeInv, FilesInv, NEW d, Dealing(d), UNCHANGED crashes,
           FitDetail([cur EXCEPT !.det = [cur.det EXCEPT ![Kind] = d]], Kind),
           IF phase = "rollingBack" THEN d = NoDetails
           ELSE d.state = IF cur.type = "Register" THEN "Real" ELSE "Temporary",
           Moves(d)
    PROVE  FilesInv'
<1> DEFINE kind == Kind
<1> HIDE DEF kind
<1>0. /\ at \in DOMAIN updates /\ DOMAIN updates = 1..Len(updates) /\ Len(updates) \in Nat
      /\ kind \in AllKinds /\ ~Recovering /\ kind \in left /\ cur \in Updates
      /\ Len(updates) <= MaxUpdates
  BY AtWork, SomeLeft, WorkingTypes DEF kind, TypeInv, TypeOK, Dealing
<1>1. FilesFit(updates) /\ DetailsAtWork /\ TemporariesKnown
  BY <1>0, ListIs DEF FilesInv
<1>2. UNCHANGED <<phase, at, left, result>> /\ step' = "note" /\ Kind' = kind
  BY Dealt DEF kind
<1>3. /\ DOMAIN updates' = DOMAIN updates /\ Len(updates') = Len(updates)
      /\ \A i \in DOMAIN updates :
            /\ updates'[i].type = updates[i].type /\ updates'[i].app = updates[i].app
            /\ updates'[i].state = updates[i].state
            /\ \A k \in AllKinds :
                  updates'[i].det[k] = IF i = at /\ k = kind THEN d ELSE updates[i].det[k]
  BY Dealt DEF kind
<1>4. FitDetails(updates)'
  <2> SUFFICES ASSUME NEW i \in DOMAIN updates, NEW k \in AllKinds PROVE FitDetail(updates[i], k)'
    BY <1>3 DEF FitDetails
  <2>1. CASE i = at /\ k = kind
    <3> DEFINE new == [cur EXCEPT !.det = [cur.det EXCEPT ![kind] = d]]
    <3>1. FitDetail(new, kind)
      BY DEF kind
    <3>2. new.type = cur.type /\ new.app = cur.app /\ new.state = cur.state /\ new.det[kind] = d
      BY <1>0 DEF Updates
    <3>3. updates'[at].type = cur.type /\ updates'[at].app = cur.app /\ updates'[at].state = cur.state
          /\ updates'[at].det[kind] = d
      BY <1>0, <1>3 DEF cur
    <3> HIDE DEF new
    <3> QED
      BY <1>2, <2>1, <3>1, <3>2, <3>3 DEF FitDetail
  <2>2. CASE i # at \/ k # kind
    <3>1. FitDetail(updates[i], k)
      BY <1>1 DEF FilesFit, FitDetails
    <3> QED
      BY <1>3, <2>2, <3>1 DEF FitDetail
  <2> QED
    BY <2>1, <2>2
<1>5. AreThere(updates)'
  <2> SUFFICES ASSUME NEW i \in DOMAIN updates, NEW k \in AllKinds
               PROVE  /\ updates'[i].det[k].state = "Temporary" => temp'[<<i, k>>] # Nothing
                      /\ updates'[i].det[k].state = "Real" => real'[updates'[i].det[k].path] # Nothing
    BY <1>3 DEF AreThere
  <2>1. CASE i = at /\ k = kind
    BY <1>3, <2>1 DEF kind, Moves
  <2>2. CASE i # at \/ k # kind
    <3>1. updates'[i].det[k] = updates[i].det[k]
      BY <1>3, <2>2
    <3>2. <<i, k>> \in Slots /\ <<i, k>> # <<at, Kind>>
      BY <1>0, <2>2, BoundsAssumption DEF Slots, kind
    <3>3. updates[i].det[k].state = "Real" => real'[updates[i].det[k].path] # Nothing
      BY <2>2 DEF kind, Moves, Other
    <3>4. updates[i].det[k].state = "Temporary" => temp[<<i, k>>] # Nothing
      BY <1>1 DEF FilesFit, AreThere
    <3>5. temp'[<<i, k>>] = temp[<<i, k>>]
      BY <3>2 DEF Moves
    <3> QED
      BY <3>1, <3>3, <3>4, <3>5
  <2> QED
    BY <2>1, <2>2
<1>6. Openable(updates)'
  <2> SUFFICES ASSUME NEW i \in DOMAIN updates, NEW j \in DOMAIN updates, NEW k \in AllKinds, NEW l \in AllKinds,
                      updates'[i].det[k].state = "Real", updates'[i].det[k] = updates'[j].det[l]
               PROVE  i = j /\ k = l
    BY <1>0, <1>3 DEF Openable
  <2>1. CASE (i # at \/ k # kind) /\ (j # at \/ l # kind)
    <3>1. updates'[i].det[k] = updates[i].det[k] /\ updates'[j].det[l] = updates[j].det[l]
      BY <1>3, <2>1
    <3>2. updates[i].det[k].state = "Real" /\ updates[i].det[k] = updates[j].det[l]
      BY <3>1
    <3>3. i \in 1..Len(updates) /\ j \in 1..Len(updates) /\ Openable(updates)
      BY <1>0, <1>1 DEF FilesFit
    <3> QED
      BY <3>2, <3>3 DEF Openable
  <2>2. CASE (i = at /\ k = kind) /\ (j # at \/ l # kind)
    <3>1. updates'[i].det[k] = d /\ updates'[j].det[l] = updates[j].det[l]
      BY <1>3, <2>2
    <3>2. updates[j].det[l].state = "Real" => updates[j].det[l] # d
      BY <2>2 DEF kind, Moves, Other
    <3> QED
      BY <3>1, <3>2
  <2>3. CASE (i # at \/ k # kind) /\ (j = at /\ l = kind)
    <3>1. updates'[j].det[l] = d /\ updates'[i].det[k] = updates[i].det[k]
      BY <1>3, <2>3
    <3>2. updates[i].det[k].state = "Real" => updates[i].det[k] # d
      BY <2>3 DEF kind, Moves, Other
    <3> QED
      BY <3>1, <3>2
  <2> QED
    BY <2>1, <2>2, <2>3
<1>7. InOrder(updates)'
  <2> SUFFICES ASSUME NEW i \in DOMAIN updates, NEW j \in DOMAIN updates, NEW k \in AllKinds, NEW l \in AllKinds,
                      updates'[i].type = "Deregister", updates'[i].det[k].state = "Temporary",
                      updates'[j].det[l].state = "Real", updates'[j].det[l].path = updates'[i].det[k].path
               PROVE  i < j
    BY <1>3 DEF InOrder
  <2>0. updates[i].type = "Deregister"
    BY <1>3
  <2>1. CASE (i # at \/ k # kind) /\ (j # at \/ l # kind)
    <3>1. updates'[i].det[k] = updates[i].det[k] /\ updates'[j].det[l] = updates[j].det[l]
      BY <1>3, <2>1
    <3> QED
      BY <1>1, <2>0, <3>1 DEF FilesFit, InOrder
  <2>2. CASE (i = at /\ k = kind) /\ (j # at \/ l # kind)
    <3>1. updates'[i].det[k] = d /\ updates'[j].det[l] = updates[j].det[l] /\ cur.type = "Deregister"
      BY <1>3, <2>0, <2>2 DEF cur
    <3>2. updates[j].det[l].state = "Real" /\ updates[j].det[l].path = d.path /\ d.state = "Temporary" => FALSE
      BY <2>2, <3>1 DEF kind, Moves, Other
    <3> QED
      BY <2>2, <3>1, <3>2
  <2>3. CASE (i # at \/ k # kind) /\ (j = at /\ l = kind)
    <3>1. updates'[j].det[l] = d /\ updates'[i].det[k] = updates[i].det[k]
      BY <1>3, <2>3
    <3>2. updates[i].det[k].state = "Temporary" /\ d.state = "Real" /\ d.path = updates[i].det[k].path => i < at
      BY <2>0, <2>3 DEF kind, Moves, Other
    <3> QED
      BY <2>3, <3>1, <3>2
  <2>4. CASE (i = at /\ k = kind) /\ (j = at /\ l = kind)
    BY <2>4
  <2> QED
    BY <2>1, <2>2, <2>3, <2>4
<1>8. TemporariesKnown'
  <2> SUFFICES ASSUME crashes' = 0, NEW s \in Slots, temp'[s] # Nothing
               PROVE  s[1] \in DOMAIN updates' /\ updates'[s[1]].det[s[2]].state = "Temporary"
    BY DEF TemporariesKnown
  <2>1. CASE s = <<at, kind>>
    <3>1. d.state = "Temporary"
      BY <2>1 DEF kind, Moves
    <3>2. s[1] = at /\ s[2] = kind
      BY <2>1
    <3> QED
      BY <1>0, <1>3, <3>1, <3>2
  <2>2. CASE s # <<at, kind>>
    <3>1. temp[s] # Nothing
      BY <2>2 DEF kind, Moves, Other
    <3>2. s[1] \in DOMAIN updates /\ updates[s[1]].det[s[2]].state = "Temporary"
      BY <1>1, <3>1 DEF TemporariesKnown
    <3>3. s[2] \in AllKinds /\ (s[1] # at \/ s[2] # kind)
      BY <2>2 DEF Slots
    <3> QED
      BY <1>3, <3>2, <3>3
  <2> QED
    BY <2>1, <2>2
<1>9. DetailsAtWork'
  <2>1. Pending' = left \ {kind} /\ Pending = left
    BY <1>2 DEF Pending, Dealing
  <2>2. cur'.type = cur.type /\ \A k \in AllKinds : cur'.det[k] = IF k = kind THEN d ELSE cur.det[k]
    BY <1>0, <1>2, <1>3 DEF cur
  <2>3. CASE phase = "performing"
    <3>1. step = "move"
      BY <2>3 DEF TypeInv, StepFits, Dealing
    <3>2. \A k \in AllKinds :
            IF cur.type = "Register" THEN cur.det[k].state = "Temporary" <=> k \in left
            ELSE cur.det[k].state = "Real" <=> k \in left
      BY <1>1, <2>1, <2>3, <3>1 DEF DetailsAtWork
    <3>3. d.state = IF cur.type = "Register" THEN "Real" ELSE "Temporary"
      BY <2>3
    <3>4. cur'.det[Kind'].state = IF cur'.type = "Register" THEN "Real" ELSE "Temporary"
      BY <1>0, <1>2, <2>2, <3>3
    <3> QED
      BY <1>0, <1>2, <2>1, <2>2, <2>3, <3>2, <3>3, <3>4 DEF DetailsAtWork
  <2>4. CASE phase = "rollingBack"
    <3>1. step = "undo" /\ d = NoDetails
      BY <2>4 DEF TypeInv, StepFits, Dealing
    <3>2. \A k \in AllKinds \ left : cur.det[k] = NoDetails
      BY <1>1, <2>1, <2>4, <3>1 DEF DetailsAtWork
    <3> QED
      BY <1>2, <2>1, <2>2, <2>4, <3>1, <3>2 DEF DetailsAtWork
  <2> QED
    BY <1>0, <2>3, <2>4 DEF Working, Dealing
<1>10. ~Recovering'
  BY <1>2 DEF Dealing, Working, Recovering
<1> QED
  BY <1>4, <1>5, <1>6, <1>7, <1>8, <1>9, <1>10 DEF FilesInv, FilesFit, List

(* The file at work, before it is dealt with.                                *)
LEMMA FileAtWork ==
    ASSUME TypeInv, Shape, FilesInv, Working, step \in {"move", "undo"}
    PROVE  /\ Kind \in AllKinds /\ Kind \in left /\ <<at, Kind>> \in Slots
           /\ at \in DOMAIN updates /\ DOMAIN updates = 1..Len(updates) /\ Len(updates) \in Nat
           /\ \A i \in DOMAIN updates : updates[i] \in Updates
           /\ cur \in Updates /\ cur.type \in Types /\ cur.app \in Apps /\ cur.det[Kind] \in Details
           /\ FilesFit(updates) /\ FitDetail(cur, Kind) /\ DetailsAtWork /\ TemporariesKnown /\ ~Recovering
           /\ cur.state \in {"Performing", "RollingBack"}
           /\ phase = "performing" => cur.det[Kind].state = IF cur.type = "Register" THEN "Temporary" ELSE "Real"
           /\ cur.det[Kind].state # "Null" => cur.det[Kind].path = <<cur.app, Kind>> /\ cur.det[Kind].path \in Names
           /\ cur.det[Kind].state = "Null" => cur.det[Kind] = NoDetails
           /\ \A i \in DOMAIN updates, k \in AllKinds : i > at => 
                 ~(updates[i].det[k].state = "Real") /\ ~(updates[i].type = "Deregister" /\ updates[i].det[k].state = "Temporary")
<1>1. /\ Kind \in AllKinds /\ Kind \in left /\ <<at, Kind>> \in Slots
      /\ at \in DOMAIN updates /\ DOMAIN updates = 1..Len(updates) /\ Len(updates) \in Nat
      /\ \A i \in DOMAIN updates : updates[i] \in Updates
      /\ cur \in Updates /\ cur.type \in Types /\ cur.app \in Apps /\ cur.det[Kind] \in Details
      /\ ~Recovering
  BY AtWork, SomeLeft, WorkingTypes
<1>2. FilesFit(updates) /\ DetailsAtWork /\ TemporariesKnown
  BY <1>1, ListIs DEF FilesInv
<1>3. FitDetail(cur, Kind)
  BY <1>1, <1>2 DEF FilesFit, FitDetails, cur
<1>4. ASSUME phase = "performing" PROVE step = "move" /\ cur.state = "Performing"
  <2>1. step = "move"
    BY <1>4 DEF TypeInv, StepFits
  <2>2. cur.state = StatePerforming
    BY <1>1, <1>4, ShapePerforming DEF cur
  <2> QED
    BY <2>1, <2>2 DEF StatePerforming
<1>5. ASSUME phase = "rollingBack" PROVE step = "undo" /\ cur.state = "RollingBack"
  <2>1. step = "undo"
    BY <1>5 DEF TypeInv, StepFits
  <2>2. cur.state \in StatesRollingBack
    BY <1>1, <1>5, ShapeRollingBack DEF cur
  <2> QED
    BY <2>1, <2>2 DEF StatesRollingBack
<1>6. Pending = left
  BY DEF Pending
<1>7. phase = "performing" => cur.det[Kind].state = IF cur.type = "Register" THEN "Temporary" ELSE "Real"
  BY <1>1, <1>2, <1>4, <1>6 DEF DetailsAtWork
<1>8. /\ cur.det[Kind].state # "Null" => cur.det[Kind].path = <<cur.app, Kind>>
      /\ cur.det[Kind].state = "Null" => cur.det[Kind] = NoDetails
  BY <1>3 DEF FitDetail, NoDetails
<1>9. \A i \in DOMAIN updates, k \in AllKinds : i > at => 
                 ~(updates[i].det[k].state = "Real") /\ ~(updates[i].type = "Deregister" /\ updates[i].det[k].state = "Temporary")
  <2> SUFFICES ASSUME NEW i \in DOMAIN updates, NEW k \in AllKinds, i > at
               PROVE  ~(updates[i].det[k].state = "Real") /\ ~(updates[i].type = "Deregister" /\ updates[i].det[k].state = "Temporary")
    OBVIOUS
  <2>1. updates[i].state \in {"New", "RolledBack"}
    <3>1. ~(i < at) /\ i # at
      BY <1>1
    <3>2. phase = "performing" => updates[i].state = "New"
      BY <3>1, ShapePerforming
    <3>3. phase = "rollingBack" => updates[i].state \in {"RolledBack", "New"}
      BY ShapeRollingBack
    <3> QED
      BY <3>2, <3>3 DEF Working
  <2>2. FitDetail(updates[i], k) /\ updates[i].type \in Types
    BY <1>1, <1>2 DEF FilesFit, FitDetails, Updates
  <2> QED
    BY <2>1, <2>2 DEF FitDetail, NoDetails, Types
<1> QED
  BY <1>1, <1>2, <1>3, <1>4, <1>5, <1>7, <1>8, <1>9 DEF Working, Names

(* The record of an update with one file dealt with. *)
LEMMA FitDealt ==
    ASSUME NEW u \in Updates, NEW k \in AllKinds, NEW d, u.state \in {"Performing", "RollingBack"},
           d = NoDetails \/ (d.state \in {"Temporary", "Real"} /\ d.path = <<u.app, k>>)
    PROVE  FitDetail([u EXCEPT !.det = [u.det EXCEPT ![k] = d]], k)
<1> DEFINE v == [u EXCEPT !.det = [u.det EXCEPT ![k] = d]]
<1>1. v.state = u.state /\ v.app = u.app /\ v.det[k] = d
  BY DEF Updates
<1> HIDE DEF v
<1>2. v.state # "New" /\ v.state # "Performed" /\ v.state # "RolledBack"
  BY <1>1
<1>3. d = NoDetails \/ (d.state \in {"Temporary", "Real"} /\ d.path = <<v.app, k>>)
  BY <1>1
<1>4. FitDetail(v, k)
  BY <1>1, <1>2, <1>3 DEF FitDetail
<1> QED
  BY <1>4 DEF v

(* An open file that other details tell of is one of the real names.         *)
LEMMA OpenFiles ==
    ASSUME TypeInv, FilesFit(updates), NEW i \in DOMAIN updates, NEW k \in AllKinds, updates[i].det[k].state = "Real"
    PROVE  real[updates[i].det[k].path] # Nothing /\ updates[i].det[k].path \in Names
<1>1. updates[i].app \in Apps
  BY UpdatesTyped, UpdateParts
<1>2. FitDetail(updates[i], k) /\ real[updates[i].det[k].path] # Nothing
  BY DEF FilesFit, FitDetails, AreThere
<1>3. updates[i].det[k] # NoDetails
  BY DEF NoDetails
<1>4. updates[i].det[k].path = <<updates[i].app, k>>
  BY <1>2, <1>3 DEF FitDetail
<1> QED
  BY <1>1, <1>2, <1>4 DEF Names

(* FilesInv, step by step: RenameToReal.                                     *)
LEMMA FilesRenameToReal == TypeInv /\ Shape /\ FilesInv /\ RenameToReal => FilesInv'
<1> SUFFICES ASSUME TypeInv, Shape, FilesInv, RenameToReal PROVE FilesInv'
  OBVIOUS
<1> DEFINE kind == Kind
           n == cur.det[Kind].path
           d == [state |-> "Real", path |-> n]
<1>1. Working /\ step \in {"move", "undo"} /\ phase = "performing" /\ cur.type = "Register" /\ UNCHANGED crashes
  BY DEF RenameToReal, Working, ghostVars
<1>2. CASE Fails /\ UNCHANGED <<diskVars, updates>>
  BY <1>1, <1>2, FilesFails DEF diskVars
<1>3. CASE ~(Fails /\ UNCHANGED <<diskVars, updates>>)
  <2>1. /\ ~Open(n)
        /\ real' = [real EXCEPT ![n] = temp[<<at, kind>>]]
        /\ temp' = [temp EXCEPT ![<<at, kind>>] = Nothing]
    BY <1>3 DEF RenameToReal
  <2>2. /\ kind \in AllKinds /\ <<at, kind>> \in Slots
        /\ at \in DOMAIN updates /\ DOMAIN updates = 1..Len(updates) /\ Len(updates) \in Nat
        /\ \A i \in DOMAIN updates : updates[i] \in Updates
        /\ cur \in Updates /\ FilesFit(updates) /\ cur.state \in {"Performing", "RollingBack"}
        /\ cur.det[kind].state = "Temporary" /\ n = <<cur.app, kind>> /\ n \in Names
        /\ \A i \in DOMAIN updates, k \in AllKinds :
              i > at => ~(updates[i].type = "Deregister" /\ updates[i].det[k].state = "Temporary")
    BY <1>1, FileAtWork
  <2>3. real \in [Names -> Contents] /\ temp \in [Slots -> Contents]
    BY DEF TypeInv, TypeOK
  <2>5. temp[<<at, kind>>] # Nothing
    BY <2>2 DEF FilesFit, AreThere, cur
  <2>6. /\ real'[n] # Nothing /\ temp'[<<at, kind>>] = Nothing
        /\ \A s \in Slots : s # <<at, kind>> => temp'[s] = temp[s]
        /\ \A m \in Names : real[m] # Nothing => real'[m] # Nothing
    BY <2>1, <2>2, <2>3, <2>5
  <2>10. d.state = "Real" /\ d.path = n
    OBVIOUS
  <2>7. FitDetail([cur EXCEPT !.det = [cur.det EXCEPT ![Kind] = d]], Kind)
    <3> HIDE DEF d
    <3> QED
      BY <2>2, <2>10, FitDealt
  <2>8. \A i \in DOMAIN updates, k \in AllKinds :
              updates[i].det[k].state = "Real" => updates[i].det[k] # d /\ real'[updates[i].det[k].path] # Nothing
    <3> SUFFICES ASSUME NEW i \in DOMAIN updates, NEW k \in AllKinds, updates[i].det[k].state = "Real"
                 PROVE  updates[i].det[k] # d /\ real'[updates[i].det[k].path] # Nothing
      OBVIOUS
    <3>1. updates[i].det[k] # d
      BY <2>1, <2>2 DEF Open
    <3> QED
      BY <2>2, <2>6, <3>1, OpenFiles
  <2>9. \A i \in DOMAIN updates, k \in AllKinds :
              updates[i].type = "Deregister" /\ updates[i].det[k].state = "Temporary" => i < at
    <3>1. \A i \in DOMAIN updates : i = at => updates[i].type # "Deregister"
      BY <1>1 DEF cur
    <3>2. \A i \in DOMAIN updates : i < at \/ i = at \/ i > at
      BY <2>2
    <3> QED
      BY <2>2, <3>1, <3>2
  <2>11. Dealing(d)
    BY <1>3, Renaming
  <2> HIDE DEF d, n
  <2>12. Moves(d)
    BY <1>1, <2>6, <2>8, <2>9, <2>10 DEF Moves
  <2> QED
    BY <1>1, <2>7, <2>10, <2>11, <2>12, FilesDealt
<1> QED
  BY <1>2, <1>3

(* FilesInv, step by step: RenameToTemporary.                                *)
LEMMA FilesRenameToTemporary == TypeInv /\ Shape /\ FilesInv /\ RenameToTemporary => FilesInv'
<1> SUFFICES ASSUME TypeInv, Shape, FilesInv, RenameToTemporary PROVE FilesInv'
  OBVIOUS
<1> DEFINE kind == Kind
           n == cur.det[Kind].path
           d == [state |-> "Temporary", path |-> n]
<1>1. Working /\ step \in {"move", "undo"} /\ phase = "performing" /\ cur.type = "Deregister" /\ UNCHANGED crashes
  BY DEF RenameToTemporary, Working, ghostVars
<1>2. /\ real' = [real EXCEPT ![n] = Nothing]
      /\ temp' = [temp EXCEPT ![<<at, kind>>] = real[n]]
  BY DEF RenameToTemporary
<1>3. /\ kind \in AllKinds /\ <<at, kind>> \in Slots
      /\ at \in DOMAIN updates /\ DOMAIN updates = 1..Len(updates) /\ Len(updates) \in Nat
      /\ \A i \in DOMAIN updates : updates[i] \in Updates
      /\ cur \in Updates /\ FilesFit(updates) /\ cur.state \in {"Performing", "RollingBack"}
      /\ cur.det[kind].state = "Real" /\ n = <<cur.app, kind>> /\ n \in Names /\ cur.det[kind] \in Details
  BY <1>1, FileAtWork
<1>4. real \in [Names -> Contents] /\ temp \in [Slots -> Contents]
  BY DEF TypeInv, TypeOK
<1>5. real[n] # Nothing
  BY <1>3 DEF FilesFit, AreThere, cur
<1>6. /\ temp'[<<at, kind>>] # Nothing
      /\ \A s \in Slots : s # <<at, kind>> => temp'[s] = temp[s]
      /\ \A m \in Names : m # n => real'[m] = real[m]
  BY <1>2, <1>3, <1>4, <1>5
<1>7. d.state = "Temporary" /\ d.path = n
  OBVIOUS
<1>8. FitDetail([cur EXCEPT !.det = [cur.det EXCEPT ![Kind] = d]], Kind)
  <2> HIDE DEF d
  <2> QED
    BY <1>3, <1>7, FitDealt
<1>9. \A i \in DOMAIN updates, k \in AllKinds :
          Other(i, k) /\ updates[i].det[k].state = "Real" =>
            updates[i].det[k] # d /\ updates[i].det[k].path # n /\ real'[updates[i].det[k].path] # Nothing
  <2> SUFFICES ASSUME NEW i \in DOMAIN updates, NEW k \in AllKinds, Other(i, k), updates[i].det[k].state = "Real"
               PROVE  updates[i].det[k] # d /\ updates[i].det[k].path # n /\ real'[updates[i].det[k].path] # Nothing
    OBVIOUS
  <2>1. real[updates[i].det[k].path] # Nothing /\ updates[i].det[k].path \in Names
    BY <1>3, OpenFiles
  <2>2. updates[i].det[k].path # n
    <3>1. updates[i].det[k] \in Details
      BY <1>3 DEF Updates
    <3>2. updates[i].det[k].path = n => updates[i].det[k] = cur.det[kind]
      BY <1>3, <3>1 DEF Details
    <3>3. updates[at].det[kind] = cur.det[kind] /\ Openable(updates)
      BY <1>3 DEF cur, FilesFit
    <3>4. updates[i].det[k] = updates[at].det[kind] => i = at /\ k = kind
      BY <1>3, <3>3 DEF Openable
    <3> QED
      BY <3>2, <3>3, <3>4 DEF Other
  <2>3. updates[i].det[k] # d
    BY <1>7
  <2> QED
    BY <1>6, <2>1, <2>2, <2>3
<1>10. Dealing(d)
  BY RenamingAway
<1> HIDE DEF d, n
<1>11. Moves(d)
  BY <1>6, <1>7, <1>9 DEF Moves
<1> QED
  BY <1>1, <1>7, <1>8, <1>10, <1>11, FilesDealt

(* Cleared details fit an update that is rolled back.                        *)
LEMMA FitUndone ==
    ASSUME cur \in Updates, Kind \in AllKinds, cur.state \in {"Performing", "RollingBack"}
    PROVE  FitDetail([cur EXCEPT !.det = [cur.det EXCEPT ![Kind] = NoDetails]], Kind)
<1>1. NoDetails = NoDetails \/ (NoDetails.state \in {"Temporary", "Real"} /\ NoDetails.path = <<cur.app, Kind>>)
  OBVIOUS
<1> DEFINE d == NoDetails
<1> HIDE DEF d
<1>2. d = NoDetails \/ (d.state \in {"Temporary", "Real"} /\ d.path = <<cur.app, Kind>>)
  BY DEF d
<1>3. FitDetail([cur EXCEPT !.det = [cur.det EXCEPT ![Kind] = d]], Kind)
  BY <1>2, FitDealt
<1> QED
  BY <1>3 DEF d

(* FilesInv, step by step: Delete.                                           *)
LEMMA FilesDelete == TypeInv /\ Shape /\ FilesInv /\ Delete => FilesInv'
<1> SUFFICES ASSUME TypeInv, Shape, FilesInv, Delete PROVE FilesInv'
  OBVIOUS
<1> DEFINE kind == Kind
           d == cur.det[Kind]
<1>1. Working /\ step \in {"move", "undo"} /\ phase = "rollingBack" /\ cur.type = "Register" /\ UNCHANGED crashes
  BY DEF Delete, Working, ghostVars
<1>2. /\ real' = IF d.state = "Real" THEN [real EXCEPT ![d.path] = Nothing] ELSE real
      /\ temp' = IF d.state = "Temporary" THEN [temp EXCEPT ![<<at, kind>>] = Nothing] ELSE temp
  BY DEF Delete
<1>3. /\ kind \in AllKinds /\ <<at, kind>> \in Slots
      /\ at \in DOMAIN updates /\ DOMAIN updates = 1..Len(updates) /\ Len(updates) \in Nat
      /\ \A i \in DOMAIN updates : updates[i] \in Updates
      /\ cur \in Updates /\ FilesFit(updates) /\ TemporariesKnown /\ cur.state \in {"Performing", "RollingBack"}
      /\ d.state # "Null" => d.path \in Names
      /\ d \in Details
  BY <1>1, FileAtWork
<1>4. real \in [Names -> Contents] /\ temp \in [Slots -> Contents]
  BY DEF TypeInv, TypeOK
<1>5. /\ \A s \in Slots : s # <<at, kind>> => temp'[s] = temp[s]
      /\ \A m \in Names : m # d.path \/ d.state # "Real" => real'[m] = real[m]
      /\ d.state = "Temporary" => temp'[<<at, kind>>] = Nothing
      /\ d.state # "Temporary" => temp' = temp
  BY <1>2, <1>3, <1>4
<1>6. crashes = 0 => temp'[<<at, kind>>] = Nothing
  <2>1. crashes = 0 /\ d.state # "Temporary" => temp[<<at, kind>>] = Nothing
    BY <1>3 DEF TemporariesKnown, cur
  <2> QED
    BY <1>5, <2>1
<1>7. NoDetails.state = "Null"
  BY DEF NoDetails
<1>8. FitDetail([cur EXCEPT !.det = [cur.det EXCEPT ![Kind] = NoDetails]], Kind)
  BY <1>3, FitUndone
<1>9. \A i \in DOMAIN updates, k \in AllKinds :
          Other(i, k) /\ updates[i].det[k].state = "Real" =>
            updates[i].det[k] # NoDetails /\ real'[updates[i].det[k].path] # Nothing
  <2> SUFFICES ASSUME NEW i \in DOMAIN updates, NEW k \in AllKinds, Other(i, k), updates[i].det[k].state = "Real"
               PROVE  updates[i].det[k] # NoDetails /\ real'[updates[i].det[k].path] # Nothing
    OBVIOUS
  <2>1. real[updates[i].det[k].path] # Nothing /\ updates[i].det[k].path \in Names
    BY <1>3, OpenFiles
  <2>2. d.state = "Real" => updates[i].det[k].path # d.path
    <3>1. updates[i].det[k] \in Details
      BY <1>3 DEF Updates
    <3>2. d.state = "Real" /\ updates[i].det[k].path = d.path => updates[i].det[k] = d
      BY <1>3, <3>1 DEF Details
    <3>3. updates[at].det[kind] = d /\ Openable(updates)
      BY <1>3 DEF cur, FilesFit
    <3>4. updates[i].det[k] = updates[at].det[kind] => i = at /\ k = kind
      BY <1>3, <3>3 DEF Openable
    <3> QED
      BY <3>2, <3>3, <3>4 DEF Other
  <2> QED
    BY <1>5, <1>7, <2>1, <2>2
<1>10. Dealing(NoDetails)
  BY Undoing
<1>11. Moves(NoDetails)
  BY <1>5, <1>6, <1>7, <1>9 DEF Moves
<1> QED
  BY <1>1, <1>8, <1>10, <1>11, FilesDealt

(* A file moved away is never kept from coming back: every later one that    *)
(* took its name is gone by then.                                            *)
LEMMA ComesBack ==
    ASSUME TypeInv, Shape, FilesInv, RestoreReal
    PROVE  cur.det[Kind].state = "Temporary" => ~Open(cur.det[Kind].path)
<1> SUFFICES ASSUME cur.det[Kind].state = "Temporary", Open(cur.det[Kind].path) PROVE FALSE
  OBVIOUS
<1>1. Working /\ step \in {"move", "undo"} /\ cur.type = "Deregister"
  BY DEF RestoreReal, Working
<1>2. /\ Kind \in AllKinds /\ at \in DOMAIN updates /\ DOMAIN updates = 1..Len(updates) /\ FilesFit(updates)
      /\ \A i \in DOMAIN updates, k \in AllKinds : i > at => ~(updates[i].det[k].state = "Real")
  BY <1>1, FileAtWork
<1>3. PICK i \in 1..Len(updates), k \in AllKinds : updates[i].det[k] = [state |-> "Real", path |-> cur.det[Kind].path]
  BY DEF Open
<1>4. updates[i].det[k].state = "Real" /\ updates[i].det[k].path = cur.det[Kind].path
  BY <1>3
<1>5. at < i
  BY <1>1, <1>2, <1>4 DEF FilesFit, InOrder, cur
<1> QED
  BY <1>2, <1>3, <1>4, <1>5

(* FilesInv, step by step: RestoreReal.                                      *)
LEMMA FilesRestoreReal == TypeInv /\ Shape /\ FilesInv /\ RestoreReal => FilesInv'
<1> SUFFICES ASSUME TypeInv, Shape, FilesInv, RestoreReal PROVE FilesInv'
  OBVIOUS
<1> DEFINE kind == Kind
           d == cur.det[Kind]
<1>1. Working /\ step \in {"move", "undo"} /\ phase = "rollingBack" /\ cur.type = "Deregister" /\ UNCHANGED crashes
  BY DEF RestoreReal, Working, ghostVars
<1>2. /\ real' = IF d.state = "Temporary" THEN [real EXCEPT ![d.path] = temp[<<at, kind>>]] ELSE real
      /\ temp' = IF d.state = "Temporary" THEN [temp EXCEPT ![<<at, kind>>] = Nothing] ELSE temp
  BY ComesBack DEF RestoreReal
<1>3. /\ kind \in AllKinds /\ <<at, kind>> \in Slots
      /\ at \in DOMAIN updates /\ DOMAIN updates = 1..Len(updates) /\ Len(updates) \in Nat
      /\ \A i \in DOMAIN updates : updates[i] \in Updates
      /\ cur \in Updates /\ FilesFit(updates) /\ TemporariesKnown /\ cur.state \in {"Performing", "RollingBack"}
      /\ d.state # "Null" => d.path \in Names
      /\ d \in Details
  BY <1>1, FileAtWork
<1>4. real \in [Names -> Contents] /\ temp \in [Slots -> Contents]
  BY DEF TypeInv, TypeOK
<1>5. d.state = "Temporary" => temp[<<at, kind>>] # Nothing
  BY <1>3 DEF FilesFit, AreThere, cur
<1>6. /\ \A s \in Slots : s # <<at, kind>> => temp'[s] = temp[s]
      /\ \A m \in Names : real[m] # Nothing => real'[m] # Nothing
      /\ d.state = "Temporary" => temp'[<<at, kind>>] = Nothing
      /\ d.state # "Temporary" => temp' = temp
  BY <1>2, <1>3, <1>4, <1>5
<1>7. crashes = 0 => temp'[<<at, kind>>] = Nothing
  <2>1. crashes = 0 /\ d.state # "Temporary" => temp[<<at, kind>>] = Nothing
    BY <1>3 DEF TemporariesKnown, cur
  <2> QED
    BY <1>6, <2>1
<1>8. NoDetails.state = "Null"
  BY DEF NoDetails
<1>9. FitDetail([cur EXCEPT !.det = [cur.det EXCEPT ![Kind] = NoDetails]], Kind)
  BY <1>3, FitUndone
<1>10. \A i \in DOMAIN updates, k \in AllKinds :
          updates[i].det[k].state = "Real" =>
            updates[i].det[k] # NoDetails /\ real'[updates[i].det[k].path] # Nothing
  BY <1>3, <1>6, <1>8, OpenFiles
<1>11. Dealing(NoDetails)
  BY Undoing
<1>12. Moves(NoDetails)
  BY <1>6, <1>7, <1>8, <1>10 DEF Moves
<1> QED
  BY <1>1, <1>9, <1>11, <1>12, FilesDealt

(* The details of the files found.                                           *)
LEMMA FilesFoundAre ==
    \A k \in AllKinds :
       /\ k \in FilesOf(cur.app) => FilesFound[k] = [state |-> "Real", path |-> <<cur.app, k>>]
       /\ k \notin FilesOf(cur.app) => FilesFound[k] = NoDetails
       /\ FilesFound[k].state = "Real" <=> k \in FilesOf(cur.app)
       /\ FilesFound[k].state # "Temporary"
       /\ FilesFound[k].state = "Real" => FilesFound[k].path = <<cur.app, k>>
       /\ FilesFound[k] = NoDetails \/ (FilesFound[k].state = "Real" /\ FilesFound[k].path = <<cur.app, k>>)
BY DEF FilesFound, NoDetails

(* FilesInv, step by step: Find.                                             *)
LEMMA FilesFind == TypeInv /\ Shape /\ FilesInv /\ Find => FilesInv'
<1> SUFFICES ASSUME TypeInv, Shape, FilesInv, Find PROVE FilesInv'
  OBVIOUS
<1>1. /\ Working /\ phase = "performing" /\ step = "find" /\ cur.type = "Deregister" /\ cur.app \in Apps
      /\ UNCHANGED <<real, temp, logFile, log, full, batch, before, crashes>>
  BY FindIs
<1>2. CASE Fails /\ UNCHANGED updates
  BY <1>1, <1>2, FilesFails
<1>3. CASE ~(Fails /\ UNCHANGED updates)
  <2>1. /\ \A k \in FilesOf(cur.app) : ~Open(<<cur.app, k>>)
        /\ UNCHANGED <<phase, at, result>>
        /\ left' = FilesOf(cur.app) /\ step' = IF left' = {} THEN "Performed" ELSE "move"
        /\ DOMAIN updates' = DOMAIN updates /\ Len(updates') = Len(updates)
        /\ \A i \in DOMAIN updates :
             /\ updates'[i].type = updates[i].type /\ updates'[i].app = updates[i].app
             /\ updates'[i].state = updates[i].state
             /\ \A k \in AllKinds :
                  updates'[i].det[k] = IF i = at THEN FilesFound[k] ELSE updates[i].det[k]
    BY <1>3, FindIs
  <2>2. /\ at \in DOMAIN updates /\ DOMAIN updates = 1..Len(updates) /\ Len(updates) \in Nat
        /\ \A i \in DOMAIN updates : updates[i] \in Updates
        /\ ~Recovering
    BY <1>1, AtWork
  <2>3. FilesFit(updates) /\ DetailsAtWork /\ TemporariesKnown
    BY <2>2, ListIs DEF FilesInv
  <2>4. \A k \in AllKinds :
           /\ k \in FilesOf(cur.app) => FilesFound[k] = [state |-> "Real", path |-> <<cur.app, k>>]
           /\ k \notin FilesOf(cur.app) => FilesFound[k] = NoDetails
    BY FilesFoundAre
  <2>5. \A k \in AllKinds :
           /\ FilesFound[k].state = "Real" <=> k \in FilesOf(cur.app)
           /\ FilesFound[k].state # "Temporary"
           /\ FilesFound[k].state = "Real" => FilesFound[k].path = <<cur.app, k>>
           /\ FilesFound[k] = NoDetails \/ (FilesFound[k].state = "Real" /\ FilesFound[k].path = <<cur.app, k>>)
    BY FilesFoundAre
  <2>6. cur.state = "Performing" /\ \A i \in DOMAIN updates : i > at => updates[i].state = "New"
    <3>1. StatePerforming = "Performing"
      BY <1>1 DEF StatePerforming
    <3> QED
      BY <1>1, <2>2, <3>1, ShapePerforming DEF cur
  <2>7. FitDetails(updates)'
    <3> SUFFICES ASSUME NEW i \in DOMAIN updates, NEW k \in AllKinds PROVE FitDetail(updates[i], k)'
      BY <2>1 DEF FitDetails
    <3>1. CASE i = at
      BY <2>1, <2>2, <2>5, <2>6, <3>1 DEF FitDetail, cur
    <3>2. CASE i # at
      <4>1. FitDetail(updates[i], k)
        BY <2>3 DEF FilesFit, FitDetails
      <4> QED
        BY <2>1, <3>2, <4>1 DEF FitDetail
    <3> QED
      BY <3>1, <3>2
  <2>8. AreThere(updates)'
    <3> SUFFICES ASSUME NEW i \in DOMAIN updates, NEW k \in AllKinds
                 PROVE  /\ updates'[i].det[k].state = "Temporary" => temp[<<i, k>>] # Nothing
                        /\ updates'[i].det[k].state = "Real" => real[updates'[i].det[k].path] # Nothing
      BY <1>1, <2>1 DEF AreThere
    <3>1. CASE i = at
      <4>1. updates'[i].det[k] = FilesFound[k]
        BY <2>1, <3>1
      <4>2. k \in FilesOf(cur.app) => real[<<cur.app, k>>] # Nothing
        BY DEF FilesOf
      <4> HIDE DEF FilesFound
      <4>3. FilesFound[k].state # "Temporary" /\ (FilesFound[k].state = "Real" => k \in FilesOf(cur.app) /\ FilesFound[k].path = <<cur.app, k>>)
        BY <2>5
      <4>4. FilesFound[k].state = "Real" => real[FilesFound[k].path] # Nothing
        BY <4>2, <4>3
      <4> QED
        BY <4>1, <4>3, <4>4
    <3>2. CASE i # at
      BY <2>1, <2>3, <3>2 DEF FilesFit, AreThere
    <3> QED
      BY <3>1, <3>2
  <2>9. Openable(updates)'
    <3> SUFFICES ASSUME NEW i \in DOMAIN updates, NEW j \in DOMAIN updates, NEW k \in AllKinds, NEW l \in AllKinds,
                        updates'[i].det[k].state = "Real", updates'[i].det[k] = updates'[j].det[l]
                 PROVE  i = j /\ k = l
      BY <2>1, <2>2 DEF Openable
    <3>1. CASE i # at /\ j # at
      <4>1. updates[i].det[k].state = "Real" /\ updates[i].det[k] = updates[j].det[l]
        BY <2>1, <3>1
      <4>2. i \in 1..Len(updates) /\ j \in 1..Len(updates) /\ Openable(updates)
        BY <2>2, <2>3 DEF FilesFit
      <4> QED
        BY <4>1, <4>2 DEF Openable
    <3>2. CASE i = at /\ j = at
      <4>1. FilesFound[k].state = "Real" /\ FilesFound[l].state = "Real" /\ FilesFound[k] = FilesFound[l]
        BY <2>1, <3>2
      <4>2. <<cur.app, k>> = <<cur.app, l>>
        BY <2>5, <4>1
      <4> QED
        BY <3>2, <4>2
    <3>3. CASE i = at /\ j # at
      <4>1. FilesFound[k].state = "Real" /\ updates[j].det[l] = FilesFound[k]
        BY <2>1, <3>3
      <4>2. k \in FilesOf(cur.app) /\ updates[j].det[l] = [state |-> "Real", path |-> <<cur.app, k>>]
        BY <2>4, <2>5, <4>1
      <4> QED
        BY <2>1, <2>2, <4>2 DEF Open
    <3>4. CASE i # at /\ j = at
      <4>1. FilesFound[l].state = "Real" /\ updates[i].det[k] = FilesFound[l]
        BY <2>1, <3>4
      <4>2. l \in FilesOf(cur.app) /\ updates[i].det[k] = [state |-> "Real", path |-> <<cur.app, l>>]
        BY <2>4, <2>5, <4>1
      <4> QED
        BY <2>1, <2>2, <4>2 DEF Open
    <3> QED
      BY <3>1, <3>2, <3>3, <3>4
  <2>10. InOrder(updates)'
    <3> SUFFICES ASSUME NEW i \in DOMAIN updates, NEW j \in DOMAIN updates, NEW k \in AllKinds, NEW l \in AllKinds,
                        updates'[i].type = "Deregister", updates'[i].det[k].state = "Temporary",
                        updates'[j].det[l].state = "Real", updates'[j].det[l].path = updates'[i].det[k].path
                 PROVE  i < j
      BY <2>1 DEF InOrder
    <3>1. i # at
      BY <2>1, <2>5
    <3>2. updates[i].type = "Deregister" /\ updates'[i].det[k] = updates[i].det[k]
      BY <2>1, <3>1
    <3>3. CASE j # at
      <4>1. updates'[j].det[l] = updates[j].det[l]
        BY <2>1, <3>3
      <4> QED
        BY <2>3, <3>2, <4>1 DEF FilesFit, InOrder
    <3>4. CASE j = at
      <4>1. FitDetail(updates[i], k)
        BY <2>3 DEF FilesFit, FitDetails
      <4>2. updates[i].state # "New"
        BY <3>2, <4>1 DEF FitDetail, NoDetails
      <4>3. ~(i > at)
        BY <2>6, <4>2
      <4> QED
        BY <2>2, <3>1, <3>4, <4>3
    <3> QED
      BY <3>3, <3>4
  <2>11. TemporariesKnown'
    <3> SUFFICES ASSUME crashes = 0, NEW s \in Slots, temp[s] # Nothing
                 PROVE  s[1] \in DOMAIN updates' /\ updates'[s[1]].det[s[2]].state = "Temporary"
      BY <1>1 DEF TemporariesKnown
    <3>1. s[1] \in DOMAIN updates /\ updates[s[1]].det[s[2]].state = "Temporary" /\ s[2] \in AllKinds
      BY <2>3 DEF TemporariesKnown, Slots
    <3>2. s[1] # at
      BY <1>1, <2>3, <3>1 DEF DetailsAtWork, NoDetails, cur
    <3> QED
      BY <2>1, <3>1, <3>2
  <2>12. DetailsAtWork'
    <3>1. Pending' = left' /\ step' \in {"Performed", "move"}
      BY <2>1 DEF Pending
    <3>2. cur'.type = "Deregister" /\ \A k \in AllKinds : cur'.det[k] = FilesFound[k]
      BY <1>1, <2>1, <2>2 DEF cur
    <3> QED
      BY <1>1, <2>1, <2>5, <3>1, <3>2 DEF DetailsAtWork
  <2>13. ~Recovering'
    BY <1>1, <2>1 DEF Recovering
  <2> QED
    BY <2>7, <2>8, <2>9, <2>10, <2>11, <2>12, <2>13 DEF FilesInv, FilesFit, List
<1> QED
  BY <1>2, <1>3

(* The client, and the end of a batch. *)
LEMMA FilesAsked ==
    ASSUME TypeInv, Shape, FilesInv, NEW type \in Types, NEW a \in Apps, NEW kinds, Asked(type, a, kinds),
           IF type = "Register"
           THEN temp' = [s \in Slots |-> IF s[1] = Len(updates) + 1 /\ s[2] \in kinds
                                         THEN Len(updates) + 1 ELSE temp[s]]
           ELSE temp' = temp
    PROVE  FilesInv'
<1> DEFINE m == Len(updates) + 1
           new(k) == IF type = "Register" /\ k \in kinds
                     THEN [state |-> "Temporary", path |-> <<a, k>>] ELSE NoDetails
<1>1. /\ phase = "prepared" /\ ~Recovering /\ ~Recovering' /\ UNCHANGED <<real, step, crashes>>
      /\ DOMAIN updates' = DOMAIN updates \cup {m} /\ Len(updates') = m
      /\ \A i \in DOMAIN updates : updates'[i] = updates[i]
      /\ updates'[m].type = type /\ updates'[m].app = a /\ updates'[m].state = "New"
      /\ \A k \in AllKinds : updates'[m].det[k] = new(k)
  <2> DEFINE u == NewUpdate(type, a, IF type = "Register" THEN kinds ELSE {})
  <2>1. /\ phase = "prepared" /\ ~Recovering /\ ~Recovering' /\ UNCHANGED <<real, step, crashes>>
        /\ DOMAIN updates' = DOMAIN updates \cup {m} /\ Len(updates') = m
        /\ \A i \in DOMAIN updates : updates'[i] = updates[i]
        /\ updates'[m] = u
    BY NewUpdateParts
  <2>2. u.type = type /\ u.app = a /\ u.state = "New" /\ \A k \in AllKinds : u.det[k] = new(k)
    BY DEF NewUpdate
  <2> HIDE DEF u, m, new
  <2> QED
    BY <2>1, <2>2
<1>2. /\ DOMAIN updates = 1..Len(updates) /\ Len(updates) \in Nat /\ m \in 1..MaxUpdates
      /\ temp \in [Slots -> Contents]
  BY UpdatesTyped, BoundsAssumption DEF Asked, TypeInv, TypeOK
<1>3. FilesFit(updates) /\ TemporariesKnown
  BY <1>1, ListIs DEF FilesInv
<1>4. \A k \in AllKinds :
        /\ new(k).state # "Real"
        /\ new(k).state = "Temporary" => type = "Register" /\ k \in kinds
        /\ new(k) = NoDetails \/ (new(k).state = "Temporary" /\ new(k).path = <<a, k>> /\ type = "Register" /\ k \in kinds)
  BY DEF NoDetails
<1>5. m \notin DOMAIN updates /\ m # Nothing
  BY <1>2 DEF Nothing, Promise!Nothing
<1>6. \A i \in DOMAIN updates, k \in AllKinds : temp'[<<i, k>>] = temp[<<i, k>>]
  <2> SUFFICES ASSUME NEW i \in DOMAIN updates, NEW k \in AllKinds PROVE temp'[<<i, k>>] = temp[<<i, k>>]
    OBVIOUS
  <2>1. <<i, k>> \in Slots /\ i # m
    BY <1>2, BoundsAssumption DEF Slots
  <2>2. type = "Register" => temp' = [s \in Slots |-> IF s[1] = m /\ s[2] \in kinds THEN m ELSE temp[s]]
    OBVIOUS
  <2>3. type # "Register" => temp' = temp
    OBVIOUS
  <2> HIDE DEF m
  <2> QED
    BY <2>1, <2>2, <2>3
<1>7. \A k \in AllKinds : new(k).state = "Temporary" => temp'[<<m, k>>] = m
  <2> SUFFICES ASSUME NEW k \in AllKinds, new(k).state = "Temporary" PROVE temp'[<<m, k>>] = m
    OBVIOUS
  <2>1. type = "Register" /\ k \in kinds /\ <<m, k>> \in Slots
    BY <1>2, <1>4 DEF Slots
  <2>2. temp' = [s \in Slots |-> IF s[1] = m /\ s[2] \in kinds THEN m ELSE temp[s]]
    BY <2>1
  <2> HIDE DEF m
  <2> QED
    BY <2>1, <2>2
<1> HIDE DEF m, new
<1>8. FitDetails(updates)'
  <2> SUFFICES ASSUME NEW i \in DOMAIN updates', NEW k \in AllKinds PROVE FitDetail(updates[i], k)'
    BY DEF FitDetails
  <2>1. CASE i = m
    <3>1. new(k).state # "Real" /\ (new(k) = NoDetails \/ (new(k).state = "Temporary" /\ new(k).path = <<a, k>> /\ type = "Register"))
      BY <1>4
    <3>2. updates'[i].det[k] = new(k) /\ updates'[i].app = a /\ updates'[i].type = type /\ updates'[i].state = "New"
      BY <1>1, <2>1
    <3> QED
      BY <3>1, <3>2 DEF FitDetail
  <2>2. CASE i # m
    <3>1. FitDetail(updates[i], k) /\ updates'[i] = updates[i]
      BY <1>1, <1>3, <2>2 DEF FilesFit, FitDetails
    <3> QED
      BY <3>1 DEF FitDetail
  <2> QED
    BY <2>1, <2>2
<1>9. AreThere(updates)'
  <2> SUFFICES ASSUME NEW i \in DOMAIN updates', NEW k \in AllKinds
               PROVE  /\ updates'[i].det[k].state = "Temporary" => temp'[<<i, k>>] # Nothing
                      /\ updates'[i].det[k].state = "Real" => real'[updates'[i].det[k].path] # Nothing
    BY DEF AreThere
  <2>1. CASE i = m
    <3>1. new(k).state # "Real" /\ (new(k).state = "Temporary" => temp'[<<m, k>>] # Nothing)
      BY <1>4, <1>5, <1>7
    <3> QED
      BY <1>1, <2>1, <3>1
  <2>2. CASE i # m
    <3>1. i \in DOMAIN updates /\ updates'[i] = updates[i]
      BY <1>1, <2>2
    <3> QED
      BY <1>1, <1>3, <1>6, <3>1 DEF FilesFit, AreThere
  <2> QED
    BY <2>1, <2>2
<1>10. \A i \in DOMAIN updates', k \in AllKinds :
          updates'[i].det[k].state = "Real" => i \in DOMAIN updates /\ updates'[i] = updates[i]
  BY <1>1, <1>4
<1>11. Openable(updates)'
  <2> SUFFICES ASSUME NEW i \in DOMAIN updates', NEW j \in DOMAIN updates', NEW k \in AllKinds, NEW l \in AllKinds,
                      updates'[i].det[k].state = "Real", updates'[i].det[k] = updates'[j].det[l]
               PROVE  i = j /\ k = l
    BY <1>1, <1>2 DEF Openable, m
  <2>1. i \in DOMAIN updates /\ updates'[i] = updates[i] /\ j \in DOMAIN updates /\ updates'[j] = updates[j]
    BY <1>10
  <2>2. Openable(updates) /\ i \in 1..Len(updates) /\ j \in 1..Len(updates)
    BY <1>2, <1>3, <2>1 DEF FilesFit
  <2> QED
    BY <2>1, <2>2 DEF Openable
<1>12. InOrder(updates)'
  <2> SUFFICES ASSUME NEW i \in DOMAIN updates', NEW j \in DOMAIN updates', NEW k \in AllKinds, NEW l \in AllKinds,
                      updates'[i].type = "Deregister", updates'[i].det[k].state = "Temporary",
                      updates'[j].det[l].state = "Real", updates'[j].det[l].path = updates'[i].det[k].path
               PROVE  i < j
    BY DEF InOrder
  <2>1. j \in DOMAIN updates /\ updates'[j] = updates[j]
    BY <1>10
  <2>2. i # m
    <3>1. new(k).state = "Temporary" => type = "Register"
      BY <1>4
    <3>2. i = m => updates'[m].type = type /\ updates'[i].det[k] = new(k)
      BY <1>1
    <3> QED
      BY <3>1, <3>2
  <2>3. i \in DOMAIN updates /\ updates'[i] = updates[i]
    BY <1>1, <2>2
  <2> QED
    BY <1>3, <2>1, <2>3 DEF FilesFit, InOrder
<1>13. TemporariesKnown'
  <2> SUFFICES ASSUME crashes = 0, NEW s \in Slots, temp'[s] # Nothing
               PROVE  s[1] \in DOMAIN updates' /\ updates'[s[1]].det[s[2]].state = "Temporary"
    BY <1>1 DEF TemporariesKnown
  <2>1. CASE temp'[s] = temp[s]
    <3>1. s[1] \in DOMAIN updates /\ updates[s[1]].det[s[2]].state = "Temporary"
      BY <1>3, <2>1 DEF TemporariesKnown
    <3> QED
      BY <1>1, <3>1
  <2>2. CASE temp'[s] # temp[s]
    <3>1. type = "Register" /\ s[1] = m /\ s[2] \in kinds /\ s[2] \in AllKinds
      BY <2>2 DEF m, Slots
    <3>2. new(s[2]).state = "Temporary"
      BY <3>1 DEF new
    <3> QED
      BY <1>1, <3>1, <3>2
  <2> QED
    BY <2>1, <2>2
<1>14. DetailsAtWork'
  <2>1. step' = "none"
    BY <1>1 DEF TypeInv, StepFits, Working
  <2> QED
    BY <2>1, NothingAtWork
<1> QED
  BY <1>1, <1>8, <1>9, <1>11, <1>12, <1>13, <1>14 DEF FilesInv, FilesFit, List

(* A registration brings its temporary files.                                *)
LEMMA FilesRegister ==
    ASSUME TypeInv, Shape, FilesInv, NEW a \in Apps, NEW kinds, Register(a, kinds)
    PROVE  FilesInv'
BY FilesAsked DEF Register, Types

(* A deregistration brings none.                                             *)
LEMMA FilesDeregister ==
    ASSUME TypeInv, Shape, FilesInv, NEW a \in Apps, Deregister(a)
    PROVE  FilesInv'
BY FilesAsked DEF Deregister, Types

(* What is destroyed is all new, all performed or all undone: of no update   *)
(* does a temporary file stay.                                               *)
LEMMA AllDropped ==
    ASSUME TypeInv, Shape, FilesInv, phase \in {"prepared", "destroying"},
           NEW i \in DOMAIN updates, NEW k \in AllKinds, updates[i].det[k].state = "Temporary"
    PROVE  updates[i].state = "Performed" <=> updates[i].type = "Deregister"
<1>1. ~Recovering /\ FilesFit(updates) /\ updates[i].type \in Types
  BY ListIs, UpdatesTyped, UpdateParts DEF FilesInv, Recovering
<1>2. FitDetail(updates[i], k) /\ i > 0
  BY <1>1, UpdatesTyped DEF FilesFit, FitDetails
<1>3. \/ updates[i].state \in {"New", "RolledBack"}
      \/ updates[i].state = "Performed"
  BY <1>2 DEF Shape, AllPerformed, UndoneAfter
<1> QED
  BY <1>1, <1>2, <1>3 DEF FitDetail, NoDetails, Types

(* The destruction of a list leaves no temporary file of it.                 *)
LEMMA FilesDestroyed ==
    ASSUME Sound, TypeInv, Shape, FilesInv, phase \in {"prepared", "destroying"}, DestroyList(updates), UNCHANGED <<step, crashes>>
    PROVE  FilesInv'
<1>1. updates' = <<>> /\ phase' = "idle" /\ step' = "none" /\ ~Recovering
  BY DEF DestroyList, TypeInv, StepFits, Working, Recovering
<1>2. FilesFit(List)'
  BY <1>1, FilesFitNone DEF List, Recovering
<1>0. temp' = [s \in Slots |-> IF Drops(updates, s) THEN Nothing ELSE temp[s]]
  <2>1. Stuck(updates) = {{}}
    BY DEF Stuck, Sound, Ignored
  <2> QED
    BY <2>1 DEF DestroyList
<1>3. ASSUME crashes = 0, NEW s \in Slots PROVE temp'[s] = Nothing
  <2>1. CASE temp[s] = Nothing
    BY <1>0, <2>1
  <2>2. CASE temp[s] # Nothing
    <3>1. s[1] \in DOMAIN updates /\ updates[s[1]].det[s[2]].state = "Temporary" /\ s[2] \in AllKinds
      BY <1>1, <1>3, <2>2 DEF FilesInv, TemporariesKnown, Slots
    <3>2. Drops(updates, s)
      BY <3>1, AllDropped, UpdatesTyped DEF Drops
    <3> QED
      BY <1>0, <3>2
  <2> QED
    BY <2>1, <2>2
<1>4. TemporariesKnown'
  BY <1>3 DEF TemporariesKnown
<1> QED
  BY <1>1, <1>2, <1>4, NothingAtWork DEF FilesInv

(* FilesInv, step by step: Abort.                                            *)
LEMMA FilesAbort == Sound /\ TypeInv /\ Shape /\ FilesInv /\ Abort => FilesInv'
BY FilesDestroyed DEF Abort, ghostVars

(* FilesInv, step by step: Destroy.                                          *)
LEMMA FilesDestroy == Sound /\ TypeInv /\ Shape /\ FilesInv /\ Destroy => FilesInv'
BY FilesDestroyed DEF Destroy, ghostVars

-------------------------------------------------------------------------------
(* The log. *)

(* What is known of any log.                                                 *)
LEMMA LogRead ==
    ASSUME TypeInv
    PROVE  LET p == Replay(log) IN
           /\ GoodReading(p) /\ p \in Readings /\ p.list \in Seq(Updates)
           /\ Len(p.list) \in Nat /\ DOMAIN p.list = 1..Len(p.list)
           /\ p.cur \in 0..Len(p.list) /\ (p.section # "none" => p.cur # 0)
           /\ log \in Seq(LogRecords) /\ Len(log) \in Nat
<1>1. log \in Seq(LogRecords)
  BY DEF TypeInv, LogFits
<1>2. GoodReading(Replay(log))
  BY <1>1, ReplayTyped
<1> QED
  BY <1>1, <1>2 DEF GoodReading, Readings

(* A record appended to the log is read after those before it.               *)
LEMMA LogAppended ==
    ASSUME TypeInv, NEW record \in LogRecords, log' = Append(log, record)
    PROVE  Replay(log)' = ReadRecord(Replay(log), record) /\ Len(log') = Len(log) + 1
BY ReplayAppend, LogRead

(* No log, or one of a batch that failed.                                    *)
LEMMA LogIgnored == ASSUME ~logFile' \/ result' = "error" PROVE LogInv'
BY DEF LogInv

(* Without a log there is nothing to keep right.                             *)
LEMMA LogClient ==
    ASSUME TypeInv, Shape, Prepare \/ Abort \/ CommitRefused \/ Destroy \/ StartUp \/ CloseLog
                           \/ (phase = "prepared" /\ UNCHANGED logFile)
    PROVE  LogInv'
<1>1. ~logFile'
  BY DEF Prepare, Abort, CommitRefused, Destroy, StartUp, CloseLog, TypeInv, TypeOK, logVars
<1> QED
  BY <1>1, LogIgnored

(* A new log is right.                                                       *)
LEMMA LogCommit == TypeInv /\ Commit => LogInv'
<1> SUFFICES ASSUME TypeInv, Commit PROVE LogInv'
  OBVIOUS
<1>1. Replay(log)' = Start /\ log' = <<>> /\ UNCHANGED updates
  BY ReplayEmpty DEF Commit
<1>2. /\ Start.list = <<>> /\ Start.cur = 0 /\ Start.section = "none" /\ Start.reading = TRUE
      /\ Start.length = 0 /\ Start.fix = FALSE
  BY DEF Start
<1>3. /\ Len(updates) \in Nat
      /\ \/ phase' = "closing" /\ result' = "ok" /\ Len(updates) = 0
         \/ phase' = "performing" /\ step' = "new" /\ at' = 1
  BY UpdatesTyped DEF Commit, PerformFrom
<1>4. LoggedPerforming(Start)' /\ InSection(Start, "none")'
  BY <1>2 DEF LoggedPerforming, InSection
<1> HIDE DEF Start
<1>5. CASE phase' = "closing"
  <2>1. LogClosing(Start)'
    BY <1>1, <1>2, <1>3, <1>4, <1>5 DEF LogClosing
  <2> QED
    BY <1>1, <1>2, <1>5, <2>1 DEF LogInv, LogReads
<1>6. CASE phase' = "performing"
  <2>1. LogPerforming(Start)'
    BY <1>2, <1>3, <1>4, <1>6 DEF LogPerforming
  <2> QED
    BY <1>1, <1>2, <1>6, <2>1 DEF LogInv, LogReads
<1> QED
  BY <1>3, <1>5, <1>6

(* What is known of the log while it is written, unless the batch failed.    *)
LEMMA LogAtWork ==
    ASSUME TypeInv, Shape, LogInv, Working, result # "error"
    PROVE  LET p == Replay(log) IN
           /\ p.reading = TRUE /\ p.length = Len(log)
           /\ phase = "performing" => LogPerforming(p) /\ result = "open"
           /\ phase = "rollingBack" => LogRollingBack(p) /\ result = "died"
<1>1. logFile
  BY WorkingTypes
<1> QED
  BY <1>1 DEF LogInv, LogReads, Shape

(* A record that the log is read with, in or out of a section. *)
LEMMA ReadInSectionIs ==
    ASSUME NEW p, GoodReading(p), p.reading = TRUE, p.section # "none", NEW record
    PROVE  /\ p.cur \in 1..Len(p.list) /\ p.list \in Seq(Updates) /\ ReadRecord(p, record) = ReadInSection(p, record)
<1>1. p.cur \in Nat /\ p.cur <= Len(p.list) /\ p.cur # 0 /\ p.list \in Seq(Updates) /\ Len(p.list) \in Nat
  BY DEF GoodReading, Readings
<1>2. ReadRecord(p, record) = ReadInSection(p, record)
  BY DEF ReadRecord
<1> QED
  BY <1>1, <1>2

(* A change of state that is read.                                           *)
LEMMA ReadState ==
    ASSUME NEW p, GoodReading(p), p.reading = TRUE, p.section # "none", NEW s \in States
    PROVE  LET q == ReadRecord(p, StateRecord(s)) IN
           /\ q.cur = p.cur /\ q.section = p.section /\ q.reading = TRUE /\ q.fix = p.fix /\ q.length = p.length + 1
           /\ Len(q.list) = Len(p.list) /\ DOMAIN q.list = DOMAIN p.list
           /\ \A i \in DOMAIN p.list :
                /\ q.list[i].type = p.list[i].type /\ q.list[i].app = p.list[i].app /\ q.list[i].det = p.list[i].det
                /\ q.list[i].state = IF i = p.cur THEN s ELSE p.list[i].state
<1> DEFINE list == [p.list EXCEPT ![p.cur].state = s]
<1>1. /\ p.cur \in 1..Len(p.list) /\ p.list \in Seq(Updates)
      /\ ReadRecord(p, StateRecord(s)) = ReadInSection(p, StateRecord(s))
  BY ReadInSectionIs
<1>2. ReadInSection(p, StateRecord(s)) = [[p EXCEPT !.length = @ + 1] EXCEPT !.list[p.cur].state = s]
  BY DEF ReadInSection, StateRecord
<1>3. p \in Readings
  BY DEF GoodReading
<1>4. LET q == ReadRecord(p, StateRecord(s)) IN
      /\ q.cur = p.cur /\ q.section = p.section /\ q.reading = TRUE /\ q.fix = p.fix /\ q.length = p.length + 1
      /\ q.list = list
  BY <1>1, <1>2, <1>3 DEF Readings
<1>5. Len(list) = Len(p.list) /\ DOMAIN list = DOMAIN p.list
  BY <1>1
<1>6. \A i \in DOMAIN p.list : list[i] = IF i = p.cur THEN [p.list[i] EXCEPT !.state = s] ELSE p.list[i]
  BY <1>1
<1>7. \A i \in DOMAIN p.list :
         /\ list[i].type = p.list[i].type /\ list[i].app = p.list[i].app /\ list[i].det = p.list[i].det
         /\ list[i].state = IF i = p.cur THEN s ELSE p.list[i].state
  <2>1. \A i \in DOMAIN p.list : p.list[i] \in Updates
    BY <1>1
  <2> HIDE DEF list
  <2> QED
    BY <1>6, <2>1 DEF Updates
<1> HIDE DEF list
<1> QED
  BY <1>4, <1>5, <1>7

(* A file's details that are read.                                           *)
LEMMA ReadNote ==
    ASSUME NEW p, GoodReading(p), p.reading = TRUE, p.section # "none", NEW kind \in AllKinds, NEW d
    PROVE  LET q == ReadRecord(p, NoteRecord(kind, d)) IN
           /\ q.cur = p.cur /\ q.section = p.section /\ q.reading = TRUE /\ q.fix = p.fix /\ q.length = p.length + 1
           /\ Len(q.list) = Len(p.list) /\ DOMAIN q.list = DOMAIN p.list
           /\ \A i \in DOMAIN p.list :
                /\ q.list[i].type = p.list[i].type /\ q.list[i].app = p.list[i].app /\ q.list[i].state = p.list[i].state
                /\ \A k \in AllKinds :
                     q.list[i].det[k] = IF i = p.cur /\ k = kind THEN d ELSE p.list[i].det[k]
<1> DEFINE list == [p.list EXCEPT ![p.cur].det[kind] = d]
<1>1. /\ p.cur \in 1..Len(p.list) /\ p.list \in Seq(Updates)
      /\ ReadRecord(p, NoteRecord(kind, d)) = ReadInSection(p, NoteRecord(kind, d))
  BY ReadInSectionIs
<1>2. ReadInSection(p, NoteRecord(kind, d)) = [[p EXCEPT !.length = @ + 1] EXCEPT !.list[p.cur].det[kind] = d]
  BY DEF ReadInSection, NoteRecord
<1>3. p \in Readings
  BY DEF GoodReading
<1>4. LET q == ReadRecord(p, NoteRecord(kind, d)) IN
      /\ q.cur = p.cur /\ q.section = p.section /\ q.reading = TRUE /\ q.fix = p.fix /\ q.length = p.length + 1
      /\ q.list = list
  BY <1>1, <1>2, <1>3 DEF Readings
<1>5. Len(list) = Len(p.list) /\ DOMAIN list = DOMAIN p.list
  BY <1>1
<1>6. \A i \in DOMAIN p.list :
         list[i] = IF i = p.cur THEN [p.list[i] EXCEPT !.det = [p.list[i].det EXCEPT ![kind] = d]] ELSE p.list[i]
  BY <1>1
<1>7. \A i \in DOMAIN p.list :
         /\ list[i].type = p.list[i].type /\ list[i].app = p.list[i].app /\ list[i].state = p.list[i].state
         /\ \A k \in AllKinds : list[i].det[k] = IF i = p.cur /\ k = kind THEN d ELSE p.list[i].det[k]
  <2>1. \A i \in DOMAIN p.list : p.list[i] \in Updates
    BY <1>1
  <2>2. \A i \in DOMAIN p.list : DOMAIN p.list[i].det = AllKinds
    BY <2>1 DEF Updates
  <2> HIDE DEF list
  <2>3. ASSUME NEW i \in DOMAIN p.list, i = p.cur
        PROVE  /\ list[i].type = p.list[i].type /\ list[i].app = p.list[i].app /\ list[i].state = p.list[i].state
               /\ list[i].det = [p.list[i].det EXCEPT ![kind] = d]
    BY <1>6, <2>1, <2>3 DEF Updates
  <2>4. ASSUME NEW i \in DOMAIN p.list, i # p.cur PROVE list[i] = p.list[i]
    BY <1>6, <2>4
  <2>5. \A i \in DOMAIN p.list : i = p.cur => \A k \in AllKinds : list[i].det[k] = IF k = kind THEN d ELSE p.list[i].det[k]
    <3> SUFFICES ASSUME NEW i \in DOMAIN p.list, i = p.cur, NEW k \in AllKinds
                 PROVE  list[i].det[k] = IF k = kind THEN d ELSE p.list[i].det[k]
      OBVIOUS
    <3> DEFINE old == p.list[i].det
    <3>1. list[i].det = [old EXCEPT ![kind] = d] /\ DOMAIN old = AllKinds
      BY <2>2, <2>3
    <3> HIDE DEF old
    <3>2. [old EXCEPT ![kind] = d][k] = IF k = kind THEN d ELSE old[k]
      BY <3>1
    <3> QED
      BY <3>1, <3>2 DEF old
  <2> QED
    BY <2>3, <2>4, <2>5
<1> HIDE DEF list
<1> QED
  BY <1>4, <1>5, <1>7

(* The end of an update that is read.                                        *)
LEMMA ReadEnd ==
    ASSUME NEW p, GoodReading(p), p.reading = TRUE, p.section # "none"
    PROVE  LET q == ReadRecord(p, EndRecord) IN
           /\ q.list = p.list /\ q.section = "none" /\ q.reading = TRUE /\ q.fix = FALSE /\ q.length = p.length + 1
           /\ q.cur = IF p.section = "rollback" /\ p.list[p.cur].state = "RolledBack" THEN p.cur - 1 ELSE p.cur
<1> DEFINE c == IF p.section = "rollback" /\ p.list[p.cur].state = "RolledBack" THEN p.cur - 1 ELSE p.cur
<1>1. ReadRecord(p, EndRecord) = ReadInSection(p, EndRecord)
  BY ReadInSectionIs
<1>2. ReadInSection(p, EndRecord) = [[p EXCEPT !.length = @ + 1] EXCEPT !.section = "none", !.fix = FALSE, !.cur = c]
  BY DEF ReadInSection, EndRecord
<1>3. p \in Readings
  BY DEF GoodReading
<1> HIDE DEF c
<1>4. LET q == ReadRecord(p, EndRecord) IN
           /\ q.list = p.list /\ q.section = "none" /\ q.reading = TRUE /\ q.fix = FALSE /\ q.length = p.length + 1
           /\ q.cur = c
  BY <1>1, <1>2, <1>3 DEF Readings
<1> QED
  BY <1>4 DEF c

(* The log has a new update once it is begun.                                *)
LEMMA LogWriteNew == TypeInv /\ Shape /\ FilesInv /\ LogInv /\ WriteNew => LogInv'
<1> SUFFICES ASSUME TypeInv, Shape, FilesInv, LogInv, WriteNew, result # "error" PROVE LogInv'
  BY LogIgnored DEF WriteNew, Goes
<1> DEFINE p == Replay(log)
           q == ReadRecord(p, NewRecord(cur))
           u == [type |-> cur.type, app |-> cur.app, state |-> "New", det |-> cur.det]
<1>1. /\ Working /\ phase = "performing" /\ step = "new" /\ step' = "section"
      /\ UNCHANGED <<phase, at, updates, result, real, temp>>
  BY DEF WriteNew, Logs, Goes, TypeInv, StepFits, Working, diskVars
<1>2. /\ at \in 1..Len(updates) /\ at \in DOMAIN updates /\ DOMAIN updates = 1..Len(updates) /\ Len(updates) \in Nat
      /\ cur \in Updates
  BY <1>1, AtWork, WorkingTypes
<1>3. /\ GoodReading(p) /\ p \in Readings /\ p.list \in Seq(Updates) /\ Len(p.list) \in Nat
      /\ DOMAIN p.list = 1..Len(p.list) /\ p.length = Len(log) /\ p.reading = TRUE
  BY <1>1, LogRead, LogAtWork
<1>4. /\ Len(p.list) = at - 1 /\ p.cur = at - 1 /\ p.section = "none" /\ p.fix = FALSE
      /\ LoggedPerforming(p)
  <2>1. LogPerforming(p)
    BY <1>1, LogAtWork
  <2> QED
    BY <1>1, <1>3, <2>1 DEF LogPerforming, InSection, Readings
<1>5. p.cur # 0 => p.list[p.cur].state = "Performed"
  <2> SUFFICES ASSUME p.cur # 0 PROVE p.list[p.cur].state = "Performed"
    OBVIOUS
  <2>1. p.cur \in DOMAIN p.list /\ p.cur \in DOMAIN updates /\ p.cur < at
    BY <1>2, <1>3, <1>4
  <2>2. p.list[p.cur].state = updates[p.cur].state
    BY <1>4, <2>1 DEF LoggedPerforming, Logged
  <2> QED
    BY <1>1, <2>1, <2>2, ShapePerforming
<1>6. q = [p EXCEPT !.list = Append(p.list, u), !.cur = Len(p.list) + 1, !.length = p.length + 1]
  <2>1. q = ReadNew(p, NewRecord(cur))
    BY <1>3, <1>4 DEF ReadRecord, NewRecord
  <2>2. NewRecord(cur).type = cur.type /\ NewRecord(cur).app = cur.app /\ NewRecord(cur).det = cur.det
    BY DEF NewRecord
  <2> QED
    BY <1>4, <1>5, <2>1, <2>2 DEF ReadNew
<1> HIDE DEF u
<1>7. /\ q.list = Append(p.list, u) /\ q.cur = at /\ q.section = "none" /\ q.fix = FALSE /\ q.reading = TRUE
      /\ q.length = p.length + 1
  <2>1. Len(p.list) + 1 = at
    BY <1>2, <1>4
  <2> QED
    BY <1>3, <1>4, <1>6, <2>1 DEF Readings
<1>8. NewRecord(cur) \in LogRecords
  BY <1>2, RecordsTyped
<1>9. log' = Append(log, NewRecord(cur)) /\ p' = q
  <2>1. log' = Append(log, NewRecord(cur))
    BY DEF WriteNew, Logs
  <2> QED
    BY <1>8, <2>1, LogAppended
<1>10. /\ p'.length = Len(log)' /\ p'.reading = TRUE /\ p'.section = "none" /\ p'.fix = FALSE /\ p'.cur = at
       /\ Len(p'.list) = at /\ DOMAIN p'.list = 1..at
       /\ \A i \in DOMAIN p.list : p'.list[i] = p.list[i]
       /\ p'.list[at] = u
  <2> HIDE DEF p, q
  <2>1. Len(log') = Len(log) + 1
    BY <1>9, LogRead
  <2>2. p'.list = Append(p.list, u) /\ p'.length = p.length + 1
    BY <1>7, <1>9
  <2>3. Len(p'.list) = at /\ DOMAIN p'.list = 1..at /\ p'.list[at] = u
        /\ \A i \in DOMAIN p.list : p'.list[i] = p.list[i]
    BY <1>2, <1>3, <1>4, <2>2
  <2> QED
    BY <1>3, <1>7, <1>9, <2>1, <2>2, <2>3
<1>11. u.type = cur.type /\ u.app = cur.app /\ u.state = "New" /\ u.det = cur.det
  BY DEF u
<1>12. \A k \in AllKinds : u.det[k].state # "Real"
  <2>1. FilesFit(updates)
    BY <1>1, AtWork DEF FilesInv
  <2>2. cur.state = "New"
    BY <1>1, <1>2, ShapePerforming DEF StatePerforming, cur
  <2>3. \A k \in AllKinds : FitDetail(cur, k)
    BY <1>2, <2>1 DEF FilesFit, FitDetails, cur
  <2> QED
    BY <1>2, <1>11, <2>2, <2>3, UpdateParts DEF FitDetail, NoDetails, Updates, Types
<1> HIDE DEF p, q
<1>13. LoggedPerforming(p)'
  <2> SUFFICES ASSUME NEW i \in 1..at
               PROVE  /\ Logged(p, i)'
                      /\ \A k \in AllKinds : DonePerforming(i, k, updates[i].det[k], p.list[i].det[k])'
    BY <1>10 DEF LoggedPerforming
  <2>1. CASE i = at
    <3>1. p'.list[i] = u /\ updates[i] = cur /\ updates[i].state = "New"
      BY <1>1, <1>2, <1>10, <2>1, ShapePerforming DEF StatePerforming, cur
    <3>2. RealLogged(u)
      BY <1>12 DEF RealLogged
    <3>3. Logged(p, i)'
      BY <1>1, <1>11, <3>1, <3>2 DEF Logged, RealLogged
    <3> QED
      BY <1>1, <1>11, <3>1, <3>3 DEF DonePerforming
  <2>2. CASE i # at
    <3>0. i \in 1..(at - 1)
      BY <1>2, <2>2
    <3>1. i \in DOMAIN p.list /\ p'.list[i] = p.list[i]
      BY <1>3, <1>4, <1>10, <3>0
    <3>2. Logged(p, i) /\ \A k \in AllKinds : DonePerforming(i, k, updates[i].det[k], p.list[i].det[k])
      BY <1>4, <3>1 DEF LoggedPerforming
    <3>3. Logged(p, i)'
      BY <1>1, <3>1, <3>2 DEF Logged, RealLogged
    <3> QED
      BY <1>1, <2>2, <3>1, <3>2, <3>3 DEF DonePerforming
  <2> QED
    BY <2>1, <2>2
<1>14. LogPerforming(p)'
  BY <1>1, <1>10, <1>13 DEF LogPerforming, InSection
<1>15. LogReads(p)'
  BY <1>1, <1>10, <1>14 DEF LogReads
<1> QED
  BY <1>15 DEF LogInv, p

(* A section is opened for the update at work.                               *)
LEMMA LogWriteSection == TypeInv /\ Shape /\ LogInv /\ WriteSection => LogInv'
<1> SUFFICES ASSUME TypeInv, Shape, LogInv, WriteSection, result # "error" PROVE LogInv'
  BY LogIgnored DEF WriteSection, Goes
<1> DEFINE p == Replay(log)
           what == IF phase = "performing" THEN "perform" ELSE "rollback"
           record == SectionRecord(what, cur)
           q == ReadRecord(p, record)
<1>1. /\ Working /\ step = "section" /\ log' = Append(log, record)
      /\ step' = IF phase = "performing" THEN "Performing" ELSE "RollingBack"
      /\ UNCHANGED <<phase, at, left, updates, result, real, temp>>
  BY DEF WriteSection, Logs, Goes, diskVars
<1>2. /\ at \in 1..Len(updates) /\ at \in DOMAIN updates /\ DOMAIN updates = 1..Len(updates) /\ Len(updates) \in Nat
      /\ cur \in Updates
  BY <1>1, AtWork, WorkingTypes
<1>3. /\ GoodReading(p) /\ p \in Readings /\ p.list \in Seq(Updates) /\ Len(p.list) \in Nat
      /\ DOMAIN p.list = 1..Len(p.list) /\ p.length = Len(log) /\ p.reading = TRUE
      /\ phase = "performing" => LogPerforming(p)
      /\ phase = "rollingBack" => LogRollingBack(p) /\ result = "died"
  BY <1>1, LogRead, LogAtWork
<1>4. /\ p.section = "none" /\ p.cur = at /\ at \in DOMAIN p.list /\ Logged(p, at)
  <2>1. CASE phase = "performing"
    BY <1>1, <1>2, <1>3, <2>1 DEF LogPerforming, InSection, LoggedPerforming
  <2>2. CASE phase = "rollingBack"
    BY <1>1, <1>2, <1>3, <2>2 DEF LogRollingBack, InSection, LoggedRollingBack
  <2> QED
    BY <1>1, <2>1, <2>2 DEF Working
<1>5. /\ phase = "performing" => p.list[at].state = "New"
      /\ phase = "rollingBack" => p.list[at].state \in {"Performing", "Performed", "RollingBack"}
  <2>1. p.list[at].state = updates[at].state
    BY <1>4 DEF Logged
  <2>2. phase = "performing" => updates[at].state = "New"
    BY <1>1, <1>2, ShapePerforming DEF StatePerforming
  <2>3. phase = "rollingBack" => updates[at].state \in {"Performing", "Performed", "RollingBack"}
    BY <1>1, <1>2, ShapeRollingBack DEF StatesRollingBack
  <2> QED
    BY <2>1, <2>2, <2>3
<1>6. record.r = "section" /\ record.what = what /\ record.type = p.list[at].type /\ record.app = p.list[at].app
  BY <1>4 DEF SectionRecord, Logged, cur
<1>7. q = [[p EXCEPT !.length = @ + 1, !.fix = TRUE] EXCEPT !.section = what]
  <2>1. q = ReadSection(p, record)
    BY <1>3, <1>4, <1>6 DEF ReadRecord
  <2>2. what \in {"perform", "rollback"} /\ at # 0
    BY <1>2
  <2> HIDE DEF record, what
  <2>3. p.list[p.cur].state \in (IF record.what = "perform" THEN {"New"} ELSE {"Performing", "Performed", "RollingBack"})
    BY <1>1, <1>4, <1>5, <1>6 DEF Working, what
  <2> QED
    BY <1>4, <1>6, <2>1, <2>2, <2>3 DEF ReadSection
<1> HIDE DEF record
<1>8. /\ q.list = p.list /\ q.cur = at /\ q.section = what /\ q.fix = TRUE /\ q.reading = TRUE
      /\ q.length = p.length + 1
  BY <1>3, <1>4, <1>7 DEF Readings
<1>9. record \in LogRecords /\ p' = q
  <2>1. record \in LogRecords
    BY <1>2, RecordsTyped DEF record
  <2> QED
    BY <1>1, <2>1, LogAppended
<1>10. /\ p'.list = p.list /\ p'.cur = at /\ p'.section = what /\ p'.fix = TRUE /\ p'.reading = TRUE
       /\ p'.length = Len(log)'
  <2>1. Len(log') = Len(log) + 1
    BY <1>1, <1>9, LogAppended
  <2> HIDE DEF p, q
  <2> QED
    BY <1>3, <1>8, <1>9, <2>1
<1> HIDE DEF p, q
<1>11. CASE phase = "performing"
  <2>1. LoggedPerforming(p)
    BY <1>3, <1>11 DEF LogPerforming
  <2>2. LoggedPerforming(p)'
    BY <1>1, <1>10, <2>1 DEF LoggedPerforming, Logged, RealLogged, DonePerforming
  <2>3. LogPerforming(p)'
    BY <1>1, <1>3, <1>10, <1>11, <2>2 DEF LogPerforming, InSection
  <2>4. LogReads(p)'
    BY <1>1, <1>10, <1>11, <2>3 DEF LogReads
  <2> QED
    BY <2>4 DEF LogInv, p
<1>12. CASE phase = "rollingBack"
  <2>1. LoggedRollingBack(p)
    BY <1>3, <1>12 DEF LogRollingBack
  <2>2. LoggedRollingBack(p)'
    BY <1>1, <1>10, <1>12, <2>1 DEF LoggedRollingBack, Logged, RealLogged, DoneRollingBack, Found
  <2>3. LogRollingBack(p)'
    BY <1>1, <1>3, <1>10, <1>12, <2>2 DEF LogRollingBack, InSection
  <2>4. LogReads(p)'
    BY <1>1, <1>10, <1>12, <2>3 DEF LogReads
  <2> QED
    BY <2>4 DEF LogInv, p
<1> QED
  BY <1>1, <1>11, <1>12 DEF Working

(* Steps that write no record and leave the batch as it is keep the log      *)
(* right if every file is as far as the log may say.                         *)
LEMMA LogKeptPerforming ==
    ASSUME TypeInv, Shape, LogInv, phase = "performing", step \in {"find", "move"}, phase' = "performing",
           step' \in {"move", "Performed", "note"}, UNCHANGED <<log, at, result>>,
           \A i \in DOMAIN updates :
                /\ updates'[i].type = updates[i].type /\ updates'[i].app = updates[i].app
                /\ updates'[i].state = updates[i].state,
           \A i \in DOMAIN updates, k \in AllKinds : \A l :
                DonePerforming(i, k, updates[i].det[k], l) => DonePerforming(i, k, updates[i].det[k], l)'
    PROVE  LogInv'
<1> DEFINE p == Replay(log)
<1>1. Working /\ result # "error"
  BY ShapePerforming DEF Working
<1>2. /\ p.reading = TRUE /\ p.length = Len(log) /\ p' = p /\ LogPerforming(p)
      /\ DOMAIN p.list = 1..Len(p.list)
  BY <1>1, LogAtWork, LogRead
<1>3. DOMAIN p.list \subseteq DOMAIN updates
  BY <1>1, <1>2, AtWork DEF LogPerforming
<1> HIDE DEF p
<1>4. LoggedPerforming(p)'
  <2> SUFFICES ASSUME NEW i \in DOMAIN p.list
               PROVE  /\ Logged(p, i)'
                      /\ \A k \in AllKinds : DonePerforming(i, k, updates[i].det[k], p.list[i].det[k])'
    BY <1>2 DEF LoggedPerforming
  <2>1. Logged(p, i) /\ \A k \in AllKinds : DonePerforming(i, k, updates[i].det[k], p.list[i].det[k])
    BY <1>2 DEF LogPerforming, LoggedPerforming
  <2>2. Logged(p, i)'
    BY <1>2, <1>3, <2>1 DEF Logged, RealLogged
  <2>3. ASSUME NEW k \in AllKinds PROVE DonePerforming(i, k, updates[i].det[k], p.list[i].det[k])'
    <3> DEFINE l == p.list[i].det[k]
    <3>1. l' = l
      BY <1>2
    <3> HIDE DEF l
    <3>2. DonePerforming(i, k, updates[i].det[k], l)
      BY <2>1 DEF l
    <3>3. DonePerforming(i, k, updates[i].det[k], l)'
      BY <1>3, <3>1, <3>2
    <3> QED
      BY <3>3 DEF l
  <2> QED
    BY <2>2, <2>3
<1>5. LogPerforming(p)'
  BY <1>2, <1>4 DEF LogPerforming, InSection
<1>6. LogReads(p)'
  BY <1>2, <1>5 DEF LogReads
<1> QED
  BY <1>6 DEF LogInv, p

(* The same, for a step of a rollback.                                       *)
LEMMA LogKeptRollingBack ==
    ASSUME TypeInv, Shape, LogInv, phase = "rollingBack", step = "undo", phase' = "rollingBack", step' = "note",
           UNCHANGED <<log, at, result>>, Len(updates') = Len(updates),
           \A i \in DOMAIN updates :
                /\ updates'[i].type = updates[i].type /\ updates'[i].app = updates[i].app
                /\ updates'[i].state = updates[i].state,
           \A i \in DOMAIN updates, k \in AllKinds : \A l :
                /\ l.state = "Real" => updates[i].type = "Register" /\ l.path \in Names
                /\ DoneRollingBack(i, k, updates[i].det[k], l)
                => DoneRollingBack(i, k, updates[i].det[k], l)'
    PROVE  LogInv'
<1> SUFFICES ASSUME result # "error" PROVE LogInv'
  BY LogIgnored
<1> DEFINE p == Replay(log)
<1>1. Working /\ result = "died"
  BY ShapeRollingBack DEF Working
<1>2. /\ p.reading = TRUE /\ p.length = Len(log) /\ p' = p /\ LogRollingBack(p)
      /\ DOMAIN p.list = 1..Len(p.list)
  BY <1>1, LogAtWork, LogRead
<1>3. DOMAIN p.list = DOMAIN updates
  BY <1>1, <1>2, AtWork DEF LogRollingBack
<1> HIDE DEF p
<1>4. LoggedRollingBack(p)'
  <2> SUFFICES ASSUME NEW i \in DOMAIN p.list
               PROVE  /\ Logged(p, i)'
                      /\ \A k \in AllKinds : DoneRollingBack(i, k, updates[i].det[k], p.list[i].det[k])'
    BY <1>2 DEF LoggedRollingBack
  <2>1. Logged(p, i) /\ \A k \in AllKinds : DoneRollingBack(i, k, updates[i].det[k], p.list[i].det[k])
    BY <1>2 DEF LogRollingBack, LoggedRollingBack
  <2>2. Logged(p, i)'
    BY <1>2, <1>3, <2>1 DEF Logged, RealLogged
  <2>3. ASSUME NEW k \in AllKinds PROVE DoneRollingBack(i, k, updates[i].det[k], p.list[i].det[k])'
    <3> DEFINE l == p.list[i].det[k]
    <3>1. l' = l
      BY <1>2
    <3>2. l.state = "Real" => updates[i].type = "Register" /\ l.path \in Names
      BY <2>1 DEF Logged, RealLogged
    <3> HIDE DEF l
    <3>3. DoneRollingBack(i, k, updates[i].det[k], l)
      BY <2>1 DEF l
    <3>4. DoneRollingBack(i, k, updates[i].det[k], l)'
      BY <1>3, <3>1, <3>2, <3>3
    <3> QED
      BY <3>4 DEF l
  <2> QED
    BY <2>2, <2>3
<1>5. LogRollingBack(p)'
  BY <1>2, <1>4 DEF LogRollingBack, InSection
<1>6. LogReads(p)'
  BY <1>2, <1>5 DEF LogReads
<1> QED
  BY <1>6 DEF LogInv, p

(* A state is changed in memory and in the log at once.                      *)
LEMMA LogStateChange == TypeInv /\ Shape /\ LogInv /\ StateChange => LogInv'
<1> SUFFICES ASSUME TypeInv, Shape, LogInv, StateChange, result # "error" PROVE LogInv'
  BY LogIgnored DEF StateChange, Begin, Handle, Goes
<1> DEFINE p == Replay(log)
           q == ReadRecord(p, StateRecord(step))
<1>1. /\ Working /\ step \in States /\ log' = Append(log, StateRecord(step)) /\ updates' = InState(step)
      /\ UNCHANGED <<phase, at, result, real, temp>>
  BY DEF StateChange, Begin, Handle, Logs, Goes, diskVars
<1>2. /\ at \in 1..Len(updates) /\ at \in DOMAIN updates /\ DOMAIN updates = 1..Len(updates) /\ Len(updates) \in Nat
      /\ DOMAIN updates' = DOMAIN updates /\ Len(updates') = Len(updates)
      /\ \A i \in DOMAIN updates :
            /\ updates'[i].type = updates[i].type /\ updates'[i].app = updates[i].app
            /\ updates'[i].det = updates[i].det
            /\ updates'[i].state = IF i = at THEN step ELSE updates[i].state
  BY <1>1, AtWork, StateSet
<1>3. /\ step \in {"Performing", "RollingBack", "Performed", "RolledBack"} /\ left = {}
      /\ (phase = "performing" <=> step \in {"Performing", "Performed"})
      /\ (phase = "rollingBack" <=> step \in {"RollingBack", "RolledBack"})
  BY <1>1 DEF TypeInv, StepFits, Working, States
<1>4. /\ GoodReading(p) /\ p \in Readings /\ p.list \in Seq(Updates) /\ Len(p.list) \in Nat
      /\ DOMAIN p.list = 1..Len(p.list) /\ p.length = Len(log) /\ p.reading = TRUE
      /\ phase = "performing" => LogPerforming(p)
      /\ phase = "rollingBack" => LogRollingBack(p) /\ result = "died"
  BY <1>1, LogRead, LogAtWork
<1>5. /\ p.cur = at /\ p.fix = TRUE /\ at \in DOMAIN p.list /\ DOMAIN p.list \subseteq DOMAIN updates
      /\ p.section = IF phase = "performing" THEN "perform" ELSE "rollback"
  <2>1. CASE phase = "performing"
    BY <1>2, <1>3, <1>4, <2>1 DEF LogPerforming, InSection, Readings
  <2>2. CASE phase = "rollingBack"
    BY <1>2, <1>3, <1>4, <2>2 DEF LogRollingBack, InSection, Readings
  <2> QED
    BY <1>1, <2>1, <2>2 DEF Working
<1>6. StateRecord(step) \in LogRecords
  BY <1>1, RecordsTyped
<1>7. p' = q
  BY <1>1, <1>6, LogAppended
<1>8. Len(log') = Len(log) + 1
  BY <1>1, <1>6, LogAppended
<1>9. /\ p'.cur = at /\ p'.section = p.section /\ p'.reading = TRUE /\ p'.fix = TRUE /\ p'.length = Len(log)'
      /\ Len(p'.list) = Len(p.list) /\ DOMAIN p'.list = DOMAIN p.list
      /\ \A i \in DOMAIN p.list :
            /\ p'.list[i].type = p.list[i].type /\ p'.list[i].app = p.list[i].app /\ p'.list[i].det = p.list[i].det
            /\ p'.list[i].state = IF i = at THEN step ELSE p.list[i].state
  <2>1. p.section # "none"
    BY <1>5
  <2>2. /\ q.cur = p.cur /\ q.section = p.section /\ q.reading = TRUE /\ q.fix = p.fix /\ q.length = p.length + 1
        /\ Len(q.list) = Len(p.list) /\ DOMAIN q.list = DOMAIN p.list
        /\ \A i \in DOMAIN p.list :
             /\ q.list[i].type = p.list[i].type /\ q.list[i].app = p.list[i].app /\ q.list[i].det = p.list[i].det
             /\ q.list[i].state = IF i = p.cur THEN step ELSE p.list[i].state
    BY <1>1, <1>4, <2>1, ReadState
  <2> HIDE DEF p, q
  <2> QED
    BY <1>4, <1>5, <1>7, <1>8, <2>2
<1> HIDE DEF p, q
<1>10. ASSUME NEW i \in DOMAIN p.list, Logged(p, i) PROVE Logged(p, i)'
  BY <1>2, <1>5, <1>9, <1>10 DEF Logged, RealLogged
<1>11. CASE phase = "performing"
  <2>1. LoggedPerforming(p)' 
    <3> SUFFICES ASSUME NEW i \in DOMAIN p.list
                 PROVE  /\ Logged(p, i)'
                        /\ \A k \in AllKinds : DonePerforming(i, k, updates[i].det[k], p.list[i].det[k])'
      BY <1>9 DEF LoggedPerforming
    <3>1. Logged(p, i) /\ \A k \in AllKinds : DonePerforming(i, k, updates[i].det[k], p.list[i].det[k])
      BY <1>4, <1>11 DEF LogPerforming, LoggedPerforming
    <3>2. /\ updates'[i].det = updates[i].det /\ updates'[i].type = updates[i].type /\ p'.list[i].det = p.list[i].det
          /\ step # "note"
      BY <1>2, <1>3, <1>5, <1>9
    <3> QED
      BY <1>10, <3>1, <3>2 DEF DonePerforming
  <2>2. step' \notin {"new", "section"}
    BY <1>3 DEF StateChange, Begin, Handle, Goes
  <2>3. LogPerforming(p)'
    BY <1>1, <1>3, <1>4, <1>5, <1>9, <1>11, <2>1, <2>2 DEF LogPerforming, InSection
  <2>4. LogReads(p)'
    BY <1>1, <1>9, <1>11, <2>3 DEF LogReads
  <2> QED
    BY <2>4 DEF LogInv, p
<1>12. CASE phase = "rollingBack"
  <2>1. \/ step = "RollingBack" /\ left' = AllKinds
        \/ step = "RolledBack" /\ left' = {}
    BY <1>3, <1>12 DEF StateChange, Begin, Handle, Goes
  <2>2. LoggedRollingBack(p)' 
    <3> SUFFICES ASSUME NEW i \in DOMAIN p.list
                 PROVE  /\ Logged(p, i)'
                        /\ \A k \in AllKinds : DoneRollingBack(i, k, updates[i].det[k], p.list[i].det[k])'
      BY <1>9 DEF LoggedRollingBack
    <3>1. Logged(p, i) /\ \A k \in AllKinds : DoneRollingBack(i, k, updates[i].det[k], p.list[i].det[k])
      BY <1>4, <1>12 DEF LogRollingBack, LoggedRollingBack
    <3>2. updates'[i].det = updates[i].det /\ updates'[i].type = updates[i].type /\ p'.list[i].det = p.list[i].det
      BY <1>2, <1>3, <1>5, <1>9
    <3>3. \A k \in AllKinds : \A l : Found(i, k, l)' = Found(i, k, l)
      BY <1>1 DEF Found
    <3> QED
      BY <1>1, <1>3, <1>10, <2>1, <3>1, <3>2, <3>3 DEF DoneRollingBack
  <2>3. step' # "section"
    BY <1>3 DEF StateChange, Begin, Handle, Goes
  <2>4. LogRollingBack(p)'
    BY <1>1, <1>2, <1>3, <1>4, <1>5, <1>9, <1>12, <2>2, <2>3 DEF LogRollingBack, InSection
  <2>5. LogReads(p)'
    BY <1>1, <1>9, <1>12, <2>4 DEF LogReads
  <2> QED
    BY <2>5 DEF LogInv, p
<1> QED
  BY <1>1, <1>11, <1>12 DEF Working

-------------------------------------------------------------------------------
(* The first file of an update is its registration file, and is undone and   *)
(* registered before all others.                                             *)
LEMMA ResourceAtOnce ==
    ASSUME TypeInv, Working, step \in {"move", "undo", "note"}, ~(phase = "performing" /\ cur.type = "Deregister")
    PROVE  Kind # Resource => Resource \notin left
<1>1. left \subseteq AllKinds /\ Kind = FirstKind(left)
  BY DEF TypeInv, TypeOK, Kind
<1> QED
  BY <1>1, FirstKindOf

(* The details that a continuation records are those of the file dealt with, *)
(* except for the second and later files of a registration.                  *)
LEMMA NotedIs ==
    ASSUME TypeInv, Shape, FilesInv, Continuation
    PROVE  LET d == Noted(cur, Kind) IN
           /\ d \in Details /\ Kind \in AllKinds /\ Kind \in left
           /\ phase = "rollingBack" => d = NoDetails /\ cur.det[Kind] = NoDetails
           /\ phase = "performing" =>
                /\ d.state = "Real" => cur.type = "Register" /\ d.path \in Names
                /\ d = cur.det[Kind] \/ (cur.type = "Register" /\ cur.det[Kind].state = "Real" /\ Kind # Resource)
<1>1. Working /\ step = "note"
  BY DEF Continuation, Logs
<1>2. /\ Kind \in AllKinds /\ Kind \in left /\ cur.det[Kind] \in Details /\ cur \in Updates /\ at \in DOMAIN updates
      /\ FilesFit(updates) /\ DetailsAtWork /\ Resource \in AllKinds
  <2>1. Kind \in AllKinds /\ Kind \in left /\ cur.det[Kind] \in Details
    BY <1>1, SomeLeft
  <2>2. cur \in Updates /\ at \in DOMAIN updates /\ FilesFit(updates) /\ DetailsAtWork
    BY <1>1, AtWork DEF FilesInv, cur
  <2> QED
    BY <2>1, <2>2, ResourceIsKind
<1>3. cur.type \in Types /\ cur.app \in Apps /\ cur.det[Resource] \in Details /\ Pending = left \ {Kind}
  BY <1>1, <1>2 DEF Updates, Pending
<1>4. \A k \in AllKinds : cur.det[k].state = "Real" => cur.det[k].path \in Names
  <2> SUFFICES ASSUME NEW k \in AllKinds, cur.det[k].state = "Real" PROVE cur.det[k].path \in Names
    OBVIOUS
  <2>1. FitDetail(cur, k)
    BY <1>2 DEF FilesFit, FitDetails, cur
  <2>2. cur.det[k].path = <<cur.app, k>>
    BY <2>1 DEF FitDetail, NoDetails
  <2> QED
    BY <1>3, <2>2 DEF Names
<1>5. CASE phase = "rollingBack"
  <2>1. cur.det[Kind] = NoDetails
    BY <1>1, <1>2, <1>3, <1>5 DEF DetailsAtWork
  <2>2. Resource \notin Pending
    BY <1>1, <1>3, <1>5, ResourceAtOnce
  <2>3. cur.det[Resource] = NoDetails
    BY <1>1, <1>2, <1>5, <2>2 DEF DetailsAtWork
  <2> QED
    BY <1>2, <1>3, <1>5, <2>1, <2>3 DEF Noted
<1>6. CASE phase = "performing"
  <2>1. cur.det[Kind].state = IF cur.type = "Register" THEN "Real" ELSE "Temporary"
    BY <1>1, <1>2, <1>6 DEF DetailsAtWork
  <2> QED
    BY <1>2, <1>3, <1>4, <1>6, <2>1 DEF Noted, Types
<1> QED
  BY <1>1, <1>5, <1>6 DEF Working

(* A file dealt with is noted in the log.                                    *)
LEMMA LogContinuation == TypeInv /\ Shape /\ FilesInv /\ LogInv /\ Continuation => LogInv'
<1> SUFFICES ASSUME TypeInv, Shape, FilesInv, LogInv, Continuation, result # "error" PROVE LogInv'
  BY LogIgnored DEF Continuation
<1> DEFINE p == Replay(log)
           kind == Kind
           d == Noted(cur, Kind)
           record == NoteRecord(kind, d)
           q == ReadRecord(p, record)
<1>1. /\ Working /\ step = "note" /\ log' = Append(log, record) /\ left' = left \ {kind}
      /\ UNCHANGED <<phase, updates, at, result, real, temp>>
      /\ (phase = "performing" => step' \in {"move", "Performed"})
      /\ (phase = "rollingBack" => step' \in {"undo", "RolledBack"})
  BY DEF Continuation, Logs, Handle, diskVars
<1>2. /\ at \in 1..Len(updates) /\ at \in DOMAIN updates /\ DOMAIN updates = 1..Len(updates) /\ Len(updates) \in Nat
  BY <1>1, AtWork
<1>3. /\ d \in Details /\ kind \in AllKinds /\ kind \in left
      /\ phase = "rollingBack" => d = NoDetails /\ updates[at].det[kind] = NoDetails
      /\ phase = "performing" =>
           /\ d.state = "Real" => updates[at].type = "Register" /\ d.path \in Names
           /\ \/ d = updates[at].det[kind]
              \/ updates[at].type = "Register" /\ updates[at].det[kind].state = "Real" /\ kind # Resource
  BY NotedIs DEF cur
<1>4. /\ GoodReading(p) /\ p \in Readings /\ p.list \in Seq(Updates) /\ Len(p.list) \in Nat
      /\ DOMAIN p.list = 1..Len(p.list) /\ p.length = Len(log) /\ p.reading = TRUE
      /\ phase = "performing" => LogPerforming(p)
      /\ phase = "rollingBack" => LogRollingBack(p) /\ result = "died"
  BY <1>1, LogRead, LogAtWork
<1>5. /\ p.cur = at /\ p.fix = TRUE /\ at \in DOMAIN p.list /\ DOMAIN p.list \subseteq DOMAIN updates
      /\ p.section = IF phase = "performing" THEN "perform" ELSE "rollback"
  <2>1. CASE phase = "performing"
    BY <1>1, <1>2, <1>4, <2>1 DEF LogPerforming, InSection, Readings
  <2>2. CASE phase = "rollingBack"
    BY <1>1, <1>2, <1>4, <2>2 DEF LogRollingBack, InSection, Readings
  <2> QED
    BY <1>1, <2>1, <2>2 DEF Working
<1> HIDE DEF d, kind
<1>6. record \in LogRecords
  BY <1>3, RecordsTyped
<1>7. p' = q /\ Len(log') = Len(log) + 1
  BY <1>1, <1>6, LogAppended
<1>9. /\ p'.cur = at /\ p'.section = p.section /\ p'.reading = TRUE /\ p'.fix = TRUE /\ p'.length = Len(log)'
      /\ Len(p'.list) = Len(p.list) /\ DOMAIN p'.list = DOMAIN p.list
      /\ \A i \in DOMAIN p.list :
            /\ p'.list[i].type = p.list[i].type /\ p'.list[i].app = p.list[i].app /\ p'.list[i].state = p.list[i].state
            /\ \A k \in AllKinds : p'.list[i].det[k] = IF i = at /\ k = kind THEN d ELSE p.list[i].det[k]
  <2>1. GoodReading(p) /\ p.reading = TRUE /\ p.section # "none" /\ kind \in AllKinds
    BY <1>3, <1>4, <1>5
  <2>2. /\ q.cur = p.cur /\ q.section = p.section /\ q.reading = TRUE /\ q.fix = p.fix /\ q.length = p.length + 1
        /\ Len(q.list) = Len(p.list) /\ DOMAIN q.list = DOMAIN p.list
        /\ \A i \in DOMAIN p.list :
             /\ q.list[i].type = p.list[i].type /\ q.list[i].app = p.list[i].app /\ q.list[i].state = p.list[i].state
             /\ \A k \in AllKinds : q.list[i].det[k] = IF i = p.cur /\ k = kind THEN d ELSE p.list[i].det[k]
    <3>1. q = ReadRecord(p, NoteRecord(kind, d))
      OBVIOUS
    <3> HIDE DEF p, q, record
    <3>2. \A kk \in AllKinds : \A dd :
             LET r == ReadRecord(p, NoteRecord(kk, dd)) IN
             /\ r.cur = p.cur /\ r.section = p.section /\ r.reading = TRUE /\ r.fix = p.fix /\ r.length = p.length + 1
             /\ Len(r.list) = Len(p.list) /\ DOMAIN r.list = DOMAIN p.list
             /\ \A i \in DOMAIN p.list :
                  /\ r.list[i].type = p.list[i].type /\ r.list[i].app = p.list[i].app /\ r.list[i].state = p.list[i].state
                  /\ \A k \in AllKinds : r.list[i].det[k] = IF i = p.cur /\ k = kk THEN dd ELSE p.list[i].det[k]
      BY <2>1, ReadNote
    <3> QED
      BY <2>1, <3>1, <3>2
  <2> HIDE DEF p, q
  <2> QED
    BY <1>4, <1>5, <1>7, <2>2
<1> HIDE DEF p, q, record
<1>10. ASSUME NEW i \in DOMAIN p.list, Logged(p, i) PROVE Logged(p, i)'
  <2>1. RealLogged(p'.list[i])
    <3> SUFFICES ASSUME NEW k \in AllKinds, p'.list[i].det[k].state = "Real"
                 PROVE  p'.list[i].type = "Register" /\ p'.list[i].det[k].path \in Names
      BY DEF RealLogged
    <3>1. CASE i = at /\ k = kind
      <4>1. p'.list[i].det[k] = d /\ p'.list[i].type = updates[at].type
        BY <1>9, <1>10, <3>1 DEF Logged
      <4>2. d.state = "Real" /\ d # NoDetails
        BY <4>1 DEF NoDetails
      <4> QED
        BY <1>1, <1>3, <4>1, <4>2 DEF Working
    <3>2. CASE ~(i = at /\ k = kind)
      BY <1>9, <1>10, <3>2 DEF Logged, RealLogged
    <3> QED
      BY <3>1, <3>2
  <2>2. RealLogged(p.list[i])'
    BY <2>1 DEF RealLogged
  <2> QED
    BY <1>1, <1>9, <1>10, <2>2 DEF Logged
<1>11. CASE phase = "performing"
  <2>1. LoggedPerforming(p)'
    <3> SUFFICES ASSUME NEW i \in DOMAIN p.list
                 PROVE  /\ Logged(p, i)'
                        /\ \A k \in AllKinds : DonePerforming(i, k, updates[i].det[k], p.list[i].det[k])'
      BY <1>9 DEF LoggedPerforming
    <3>1. Logged(p, i) /\ \A k \in AllKinds : DonePerforming(i, k, updates[i].det[k], p.list[i].det[k])
      BY <1>4, <1>11 DEF LogPerforming, LoggedPerforming
    <3>2. ASSUME NEW k \in AllKinds PROVE DonePerforming(i, k, updates[i].det[k], p.list[i].det[k])'
      <4>1. CASE i = at /\ k = kind
        <5>1. p'.list[i].det[k] = d /\ updates' = updates
          BY <1>1, <1>9, <4>1
        <5> QED
          BY <1>3, <1>11, <4>1, <5>1 DEF DonePerforming
      <4>2. CASE ~(i = at /\ k = kind)
        <5>1. p'.list[i].det[k] = p.list[i].det[k] /\ updates' = updates
          BY <1>1, <1>9, <4>2
        <5>2. \/ p.list[i].det[k] = updates[i].det[k]
              \/ updates[i].type = "Deregister" /\ updates[i].det[k].state = "Real" /\ p.list[i].det[k] = NoDetails
              \/ updates[i].type = "Register" /\ updates[i].det[k].state = "Real" /\ k # Resource
          BY <3>1, <4>2 DEF DonePerforming, kind
        <5> QED
          BY <5>1, <5>2 DEF DonePerforming
      <4> QED
        BY <4>1, <4>2
    <3> QED
      BY <1>10, <3>1, <3>2
  <2>2. step' \notin {"new", "section"}
    BY <1>1, <1>11
  <2>3. LogPerforming(p)'
    BY <1>1, <1>4, <1>5, <1>9, <1>11, <2>1, <2>2 DEF LogPerforming, InSection
  <2>4. LogReads(p)'
    BY <1>1, <1>9, <1>11, <2>3 DEF LogReads
  <2> QED
    BY <2>4 DEF LogInv, p
<1>12. CASE phase = "rollingBack"
  <2>2. LoggedRollingBack(p)'
    <3> SUFFICES ASSUME NEW i \in DOMAIN p.list
                 PROVE  /\ Logged(p, i)'
                        /\ \A k \in AllKinds : DoneRollingBack(i, k, updates[i].det[k], p.list[i].det[k])'
      BY <1>9 DEF LoggedRollingBack
    <3>1. Logged(p, i) /\ \A k \in AllKinds : DoneRollingBack(i, k, updates[i].det[k], p.list[i].det[k])
      BY <1>4, <1>12 DEF LogRollingBack, LoggedRollingBack
    <3>3. \A k \in AllKinds : \A l : Found(i, k, l)' = Found(i, k, l)
      BY <1>1 DEF Found
    <3>2. ASSUME NEW k \in AllKinds PROVE DoneRollingBack(i, k, updates[i].det[k], p.list[i].det[k])'
      <4>1. CASE i = at /\ k = kind
        <5>1. p'.list[i].det[k] = NoDetails /\ updates'[i].det[k] = NoDetails
          BY <1>1, <1>3, <1>9, <1>12, <4>1
        <5> QED
          BY <5>1 DEF DoneRollingBack
      <4>2. CASE ~(i = at /\ k = kind)
        <5>1. p'.list[i].det[k] = p.list[i].det[k] /\ updates' = updates
          BY <1>1, <1>9, <4>2
        <5>2. DoneRollingBack(i, k, updates[i].det[k], p.list[i].det[k])
          BY <3>1
        <5> QED
          BY <1>1, <3>3, <4>2, <5>1, <5>2 DEF DoneRollingBack
      <4> QED
        BY <4>1, <4>2
    <3> QED
      BY <1>10, <3>1, <3>2
  <2>3. step' # "section"
    BY <1>1, <1>12
  <2>4. LogRollingBack(p)'
    BY <1>1, <1>2, <1>4, <1>5, <1>9, <1>12, <2>2, <2>3 DEF LogRollingBack, InSection
  <2>5. LogReads(p)'
    BY <1>1, <1>9, <1>12, <2>4 DEF LogReads
  <2> QED
    BY <2>5 DEF LogInv, p
<1> QED
  BY <1>1, <1>11, <1>12 DEF Working

(* The end of an update: the next one is begun, or the log is done with.     *)
LEMMA LogEndOfUpdate == TypeInv /\ Shape /\ LogInv /\ EndOfUpdate => LogInv'
<1> SUFFICES ASSUME TypeInv, Shape, LogInv, EndOfUpdate PROVE LogInv'
  OBVIOUS
<1> SUFFICES ASSUME result # "error" PROVE LogInv'
  <2>1. result = "error" => result' = "error"
    BY ShapePerforming, ShapeRollingBack DEF EndOfUpdate
  <2> QED
    BY <2>1, LogIgnored
<1> DEFINE p == Replay(log)
           q == ReadRecord(p, EndRecord)
<1>1. /\ Working /\ step = "end" /\ log' = Append(log, EndRecord) /\ left = {}
      /\ UNCHANGED <<updates, real, temp>>
      /\ \/ phase = "performing" /\ PerformFrom(at + 1)
         \/ phase = "rollingBack" /\ RollBackFrom(at - 1) /\ UNCHANGED result
  BY DEF EndOfUpdate, Logs, diskVars, TypeInv, StepFits
<1>2. /\ at \in 1..Len(updates) /\ at \in DOMAIN updates /\ DOMAIN updates = 1..Len(updates) /\ Len(updates) \in Nat
  BY <1>1, AtWork
<1>4. /\ GoodReading(p) /\ p \in Readings /\ p.list \in Seq(Updates) /\ Len(p.list) \in Nat
      /\ DOMAIN p.list = 1..Len(p.list) /\ p.length = Len(log) /\ p.reading = TRUE
      /\ phase = "performing" => LogPerforming(p) /\ result = "open"
      /\ phase = "rollingBack" => LogRollingBack(p) /\ result = "died"
  BY <1>1, LogRead, LogAtWork
<1>5. /\ p.cur = at /\ p.fix = TRUE /\ at \in DOMAIN p.list /\ DOMAIN p.list \subseteq DOMAIN updates
      /\ p.section = IF phase = "performing" THEN "perform" ELSE "rollback"
  <2>1. CASE phase = "performing"
    BY <1>1, <1>2, <1>4, <2>1 DEF LogPerforming, InSection, Readings
  <2>2. CASE phase = "rollingBack"
    BY <1>1, <1>2, <1>4, <2>2 DEF LogRollingBack, InSection, Readings
  <2> QED
    BY <1>1, <2>1, <2>2 DEF Working
<1>6. EndRecord \in LogRecords
  BY <1>1, RecordsTyped
<1>7. p' = q /\ Len(log') = Len(log) + 1
  BY <1>1, <1>6, LogAppended
<1>8. phase = "rollingBack" => p.list[at].state = "RolledBack"
  <2> SUFFICES ASSUME phase = "rollingBack" PROVE p.list[at].state = "RolledBack"
    OBVIOUS
  <2>1. updates[at].state = "RolledBack"
    BY <1>1, <1>2, ShapeRollingBack DEF StatesRollingBack
  <2>2. Logged(p, at)
    BY <1>4, <1>5 DEF LogRollingBack, LoggedRollingBack
  <2> QED
    BY <2>1, <2>2 DEF Logged
<1>9. /\ p'.list = p.list /\ p'.section = "none" /\ p'.reading = TRUE /\ p'.fix = FALSE /\ p'.length = Len(log)'
      /\ p'.cur = IF phase = "performing" THEN at ELSE at - 1
  <2>1. p.section # "none"
    BY <1>5
  <2>2. /\ q.list = p.list /\ q.section = "none" /\ q.reading = TRUE /\ q.fix = FALSE /\ q.length = p.length + 1
        /\ q.cur = IF p.section = "rollback" /\ p.list[p.cur].state = "RolledBack" THEN p.cur - 1 ELSE p.cur
    BY <1>4, <2>1, ReadEnd
  <2> HIDE DEF p, q
  <2>3. q.cur = IF phase = "performing" THEN at ELSE at - 1
    BY <1>1, <1>5, <1>8, <2>2 DEF Working
  <2> QED
    BY <1>4, <1>7, <2>2, <2>3
<1> HIDE DEF p, q
<1>10. ASSUME NEW i \in DOMAIN p.list, Logged(p, i) PROVE Logged(p, i)'
  BY <1>1, <1>9, <1>10 DEF Logged, RealLogged
<1>11. CASE phase = "performing"
  <2>1. LoggedPerforming(p)'
    <3> SUFFICES ASSUME NEW i \in DOMAIN p.list
                 PROVE  /\ Logged(p, i)'
                        /\ \A k \in AllKinds : DonePerforming(i, k, updates[i].det[k], p.list[i].det[k])'
      BY <1>9 DEF LoggedPerforming
    <3>1. Logged(p, i) /\ \A k \in AllKinds : DonePerforming(i, k, updates[i].det[k], p.list[i].det[k])
      BY <1>4, <1>11 DEF LogPerforming, LoggedPerforming
    <3> QED
      BY <1>1, <1>9, <1>10, <3>1 DEF DonePerforming
  <2>2. CASE at + 1 > Len(updates)
    <3>1. phase' = "closing" /\ result' = "ok" /\ at = Len(updates)
      BY <1>1, <1>2, <1>11, <2>2 DEF PerformFrom
    <3>2. LogClosing(p)'
      BY <1>1, <1>4, <1>9, <1>11, <2>1, <3>1 DEF LogPerforming, LogClosing, InSection
    <3>3. LogReads(p)'
      BY <1>9, <3>1, <3>2 DEF LogReads
    <3> QED
      BY <3>3 DEF LogInv, p
  <2>3. CASE ~(at + 1 > Len(updates))
    <3>1. phase' = "performing" /\ step' = "new" /\ at' = at + 1 /\ at' - 1 = at
      BY <1>1, <1>2, <1>11, <2>3 DEF PerformFrom
    <3>2. LogPerforming(p)'
      BY <1>1, <1>4, <1>9, <1>11, <2>1, <3>1 DEF LogPerforming, InSection
    <3>3. LogReads(p)'
      BY <1>9, <3>1, <3>2 DEF LogReads
    <3> QED
      BY <3>3 DEF LogInv, p
  <2> QED
    BY <2>2, <2>3
<1>12. CASE phase = "rollingBack"
  <2>1. \A i \in DOMAIN p.list :
           Logged(p, i) /\ \A k \in AllKinds : p.list[i].det[k] = updates[i].det[k]
    BY <1>1, <1>4, <1>12 DEF LogRollingBack, LoggedRollingBack, DoneRollingBack
  <2>2. LoggedPerforming(p)' /\ LoggedRollingBack(p)'
    BY <1>1, <1>9, <1>10, <2>1 DEF LoggedPerforming, LoggedRollingBack, DonePerforming, DoneRollingBack
  <2>3. at' = at - 1 /\ result' = "died"
    BY <1>1, <1>4, <1>12 DEF RollBackFrom
  <2>4. CASE at = 1
    <3>1. phase' = "closing"
      BY <1>1, <1>12, <2>4 DEF RollBackFrom
    <3>2. LogClosing(p)'
      BY <1>1, <1>4, <1>9, <1>12, <2>2, <2>3, <2>4, <3>1 DEF LogRollingBack, LogClosing, InSection
    <3>3. LogReads(p)'
      BY <1>9, <3>1, <3>2 DEF LogReads
    <3> QED
      BY <3>3 DEF LogInv, p
  <2>5. CASE at # 1
    <3>1. phase' = "rollingBack" /\ step' = "section"
      BY <1>1, <1>2, <1>12, <2>5 DEF RollBackFrom
    <3>2. LogRollingBack(p)'
      BY <1>1, <1>4, <1>9, <1>12, <2>2, <2>3, <3>1 DEF LogRollingBack, InSection
    <3>3. LogReads(p)'
      BY <1>9, <3>1, <3>2 DEF LogReads
    <3> QED
      BY <3>3 DEF LogInv, p
  <2> QED
    BY <2>4, <2>5
<1> QED
  BY <1>1, <1>11, <1>12 DEF Working

(* The log of a batch that failed is not read.                               *)
LEMMA LogPerformLeaves == PerformLeaves => LogInv'
<1>1. PerformLeaves => result' = "error"
  BY DEF PerformLeaves, Fails
<1> QED
  BY <1>1, LogIgnored

(* A file that a deregistration opens is not in the log before it is moved.  *)
LEMMA LogFind == TypeInv /\ Shape /\ FilesInv /\ LogInv /\ Find => LogInv'
<1> SUFFICES ASSUME TypeInv, Shape, FilesInv, LogInv, Find PROVE LogInv'
  OBVIOUS
<1>1. CASE Fails
  BY <1>1, LogIgnored DEF Fails
<1>2. CASE ~Fails
  <2>1. /\ Working /\ phase = "performing" /\ step = "find" /\ cur.type = "Deregister"
        /\ UNCHANGED <<log, phase, at, result>> /\ step' \in {"Performed", "move"}
        /\ \A i \in DOMAIN updates :
              /\ updates'[i].type = updates[i].type /\ updates'[i].app = updates[i].app
              /\ updates'[i].state = updates[i].state
              /\ \A k \in AllKinds :
                   updates'[i].det[k] = IF i = at THEN FilesFound[k] ELSE updates[i].det[k]
    BY <1>2, FindIs
  <2>2. \A k \in AllKinds : updates[at].det[k] = NoDetails
    BY <2>1 DEF FilesInv, DetailsAtWork, cur
  <2>3. \A k \in AllKinds : FilesFound[k] = NoDetails \/ FilesFound[k].state = "Real"
    BY FilesFoundAre
  <2>4. ASSUME NEW i \in DOMAIN updates, NEW k \in AllKinds, NEW l,
               DonePerforming(i, k, updates[i].det[k], l)
        PROVE  DonePerforming(i, k, updates[i].det[k], l)'
    <3>1. CASE i = at
      <4>1. l = NoDetails
        BY <2>1, <2>2, <2>4, <3>1 DEF DonePerforming, cur
      <4>2. updates'[i].det[k] = FilesFound[k] /\ updates'[i].type = "Deregister"
        BY <2>1, <3>1 DEF cur
      <4> QED
        BY <2>3, <4>1, <4>2 DEF DonePerforming
    <3>2. CASE i # at
      BY <2>1, <2>4, <3>2 DEF DonePerforming
    <3> QED
      BY <3>1, <3>2
  <2> QED
    BY <2>1, <2>4, LogKeptPerforming
<1> QED
  BY <1>1, <1>2

(* A file just moved is in the log only when the step after has noted it.    *)
LEMMA LogMoved ==
    ASSUME TypeInv, Shape, LogInv, NEW d, Dealing(d), phase = "performing", UNCHANGED log
    PROVE  LogInv'
<1>1. /\ UNCHANGED <<phase, at, left, result>> /\ step' = "note" /\ Kind' = Kind /\ step = "move"
      /\ \A i \in DOMAIN updates :
            /\ updates'[i].type = updates[i].type /\ updates'[i].app = updates[i].app
            /\ updates'[i].state = updates[i].state
            /\ \A k \in AllKinds :
                 updates'[i].det[k] = IF i = at /\ k = Kind THEN d ELSE updates[i].det[k]
  BY Dealt DEF Dealing, TypeInv, StepFits
<1>2. ASSUME NEW i \in DOMAIN updates, NEW k \in AllKinds, NEW l,
             DonePerforming(i, k, updates[i].det[k], l)
      PROVE  DonePerforming(i, k, updates[i].det[k], l)'
  BY <1>1, <1>2 DEF DonePerforming
<1> QED
  BY <1>1, <1>2, LogKeptPerforming

(* A file moved to its real or its temporary name.                           *)
LEMMA LogRename ==
    ASSUME TypeInv, Shape, LogInv, RenameToReal \/ RenameToTemporary
    PROVE  LogInv'
<1>1. CASE Fails
  BY <1>1, LogIgnored DEF Fails
<1>2. CASE ~Fails
  <2>1. phase = "performing" /\ UNCHANGED log
    BY DEF RenameToReal, RenameToTemporary, logVars
  <2>2. CASE RenameToReal
    <3> DEFINE d == [state |-> "Real", path |-> cur.det[Kind].path]
    <3>1. Dealing(d)
      BY <1>2, <2>2, Renaming
    <3> HIDE DEF d
    <3> QED
      BY <2>1, <3>1, LogMoved
  <2>3. CASE RenameToTemporary
    <3> DEFINE d == [state |-> "Temporary", path |-> cur.det[Kind].path]
    <3>1. Dealing(d)
      BY <2>3, RenamingAway
    <3> HIDE DEF d
    <3> QED
      BY <2>1, <3>1, LogMoved
  <2> QED
    BY <2>2, <2>3
<1> QED
  BY <1>1, <1>2


(* A file undone is not where a log that is behind says it is.               *)
LEMMA LogUndone ==
    ASSUME TypeInv, Shape, LogInv, Delete \/ RestoreReal,
           \A s \in Slots : s # <<at, Kind>> => temp'[s] = temp[s],
           cur.type = "Register" => \A n \in Names : real[n] = Nothing => real'[n] = Nothing,
           \A l : /\ l.state = "Real" => cur.type = "Register" /\ l.path \in Names
                  /\ l = cur.det[Kind] \/ (cur.det[Kind] = NoDetails /\ Found(at, Kind, l) = NoDetails)
                  => \/ l.state = "Temporary" /\ temp'[<<at, Kind>>] = Nothing
                     \/ l.state = "Real" /\ real'[l.path] = Nothing
                     \/ l = NoDetails
    PROVE  LogInv'
<1>1. phase = "rollingBack" /\ step = "undo" /\ Working /\ UNCHANGED log
  BY DEF Delete, RestoreReal, Working, logVars
<1> DEFINE d == NoDetails
<1>2. /\ UNCHANGED <<phase, at, left, result>> /\ step' = "note" /\ Kind' = Kind
      /\ Len(updates') = Len(updates)
      /\ \A i \in DOMAIN updates :
            /\ updates'[i].type = updates[i].type /\ updates'[i].app = updates[i].app
            /\ updates'[i].state = updates[i].state
            /\ \A k \in AllKinds :
                 updates'[i].det[k] = IF i = at /\ k = Kind THEN d ELSE updates[i].det[k]
  <2>1. Dealing(d)
    BY Undoing
  <2> HIDE DEF d
  <2> QED
    BY <2>1, Dealt
<1>3. left \subseteq AllKinds /\ Kind \in left /\ at \in DOMAIN updates /\ \A k \in AllKinds : <<at, k>> \in Slots
  <2>1. left \subseteq AllKinds /\ Kind \in left /\ at \in 1..Len(updates) /\ at \in DOMAIN updates
    BY <1>1, SomeLeft, AtWork DEF TypeInv, TypeOK
  <2>2. Len(updates) <= MaxUpdates /\ Len(updates) \in Nat /\ MaxUpdates \in Nat
    BY BoundsAssumption, UpdatesTyped DEF TypeInv, TypeOK
  <2>3. at \in 1..MaxUpdates
    BY <2>1, <2>2
  <2> QED
    BY <2>1, <2>3 DEF Slots
<1> HIDE DEF d
<1>4. ASSUME NEW i \in DOMAIN updates, NEW k \in AllKinds, NEW l,
             l.state = "Real" => updates[i].type = "Register" /\ l.path \in Names,
             DoneRollingBack(i, k, updates[i].det[k], l)
      PROVE  DoneRollingBack(i, k, updates[i].det[k], l)'
  <2>1. CASE i = at /\ k = Kind
    <3>1. updates'[i].det[k] = NoDetails
      BY <1>2, <2>1 DEF d
    <3>2. \/ l.state = "Temporary" /\ temp'[<<at, Kind>>] = Nothing
          \/ l.state = "Real" /\ real'[l.path] = Nothing
          \/ l = NoDetails
      BY <1>4, <2>1 DEF DoneRollingBack, cur
    <3>3. Found(i, k, l)' = NoDetails
      BY <2>1, <3>2 DEF Found
    <3> QED
      BY <1>2, <1>3, <2>1, <3>1, <3>3 DEF DoneRollingBack
  <2>2. CASE ~(i = at /\ k = Kind)
    <3>1. updates'[i].det[k] = updates[i].det[k]
      BY <1>2, <2>2
    <3>2. CASE l = updates[i].det[k]
      BY <3>1, <3>2 DEF DoneRollingBack
    <3>3. CASE l # updates[i].det[k]
      <4>1. /\ i = at /\ updates[i].det[k] = NoDetails /\ Found(i, k, l) = NoDetails /\ k \in left
            /\ l # NoDetails
        BY <1>1, <1>4, <3>3 DEF DoneRollingBack
      <4>2. temp'[<<i, k>>] = temp[<<i, k>>]
        BY <1>3, <2>2, <4>1
      <4>3. l.state = "Real" /\ real[l.path] = Nothing => real'[l.path] = Nothing
        BY <1>4, <4>1 DEF cur
      <4>4. Found(i, k, l)' = NoDetails
        BY <4>1, <4>2, <4>3 DEF Found
      <4> QED
        BY <1>2, <3>1, <4>1, <4>4 DEF DoneRollingBack
    <3> QED
      BY <3>2, <3>3
  <2> QED
    BY <2>1, <2>2
<1> QED
  BY <1>1, <1>2, <1>4, LogKeptRollingBack

(* A registration's file deleted.                                            *)
LEMMA LogDelete == TypeInv /\ Shape /\ FilesInv /\ LogInv /\ Delete => LogInv'
<1> SUFFICES ASSUME TypeInv, Shape, FilesInv, LogInv, Delete PROVE LogInv'
  OBVIOUS
<1> DEFINE d == cur.det[Kind]
<1>1. /\ Working /\ step = "undo" /\ cur.type = "Register"
      /\ real' = IF d.state = "Real" THEN [real EXCEPT ![d.path] = Nothing] ELSE real
      /\ temp' = IF d.state = "Temporary" THEN [temp EXCEPT ![<<at, Kind>>] = Nothing] ELSE temp
  BY DEF Delete, Working
<1>2. /\ DOMAIN real = Names /\ DOMAIN temp = Slots
      /\ <<at, Kind>> \in Slots /\ d \in Details
      /\ d.state # "Null" => d.path \in Names
      /\ d.state = "Null" => d = NoDetails
  BY <1>1, FileAtWork DEF TypeInv, TypeOK
<1> HIDE DEF d
<1>3. \A s \in Slots : s # <<at, Kind>> => temp'[s] = temp[s]
  BY <1>1, <1>2
<1>4. \A n \in Names : real[n] = Nothing => real'[n] = Nothing
  BY <1>1, <1>2
<1>5. ASSUME NEW l, l.state = "Real" => cur.type = "Register" /\ l.path \in Names,
             l = d \/ (d = NoDetails /\ Found(at, Kind, l) = NoDetails)
      PROVE  \/ l.state = "Temporary" /\ temp'[<<at, Kind>>] = Nothing
             \/ l.state = "Real" /\ real'[l.path] = Nothing
             \/ l = NoDetails
  <2>1. CASE d = NoDetails
    <3>1. d.state = "Null" /\ temp' = temp /\ real' = real
      BY <1>1, <2>1 DEF NoDetails
    <3> QED
      BY <1>5, <2>1, <3>1 DEF Found
  <2>2. CASE d # NoDetails
    <3>1. l = d /\ d.state \in {"Temporary", "Real"}
      BY <1>2, <1>5, <2>2 DEF Details
    <3> QED
      BY <1>1, <1>2, <3>1
  <2> QED
    BY <2>1, <2>2
<1> QED
  BY <1>3, <1>4, <1>5, LogUndone DEF d

(* A deregistration's file moved back, or given up.                          *)
LEMMA LogRestoreReal == TypeInv /\ Shape /\ FilesInv /\ LogInv /\ RestoreReal => LogInv'
<1> SUFFICES ASSUME TypeInv, Shape, FilesInv, LogInv, RestoreReal PROVE LogInv'
  OBVIOUS
<1> DEFINE d == cur.det[Kind]
           back == d.state = "Temporary" /\ ~Open(d.path)
<1>1. /\ Working /\ step = "undo" /\ cur.type = "Deregister"
      /\ real' = IF back THEN [real EXCEPT ![d.path] = temp[<<at, Kind>>]] ELSE real
      /\ temp' = IF back THEN [temp EXCEPT ![<<at, Kind>>] = Nothing] ELSE temp
  BY DEF RestoreReal, Working
<1>2. /\ DOMAIN real = Names /\ DOMAIN temp = Slots
      /\ <<at, Kind>> \in Slots /\ d \in Details
      /\ d.state = "Null" => d = NoDetails
      /\ d.state = "Temporary" <=> back
  BY <1>1, FileAtWork, ComesBack DEF TypeInv, TypeOK
<1> HIDE DEF d, back
<1>3. \A s \in Slots : s # <<at, Kind>> => temp'[s] = temp[s]
  BY <1>1, <1>2
<1>5. ASSUME NEW l, l.state = "Real" => cur.type = "Register" /\ l.path \in Names,
             l = d \/ (d = NoDetails /\ Found(at, Kind, l) = NoDetails)
      PROVE  \/ l.state = "Temporary" /\ temp'[<<at, Kind>>] = Nothing
             \/ l.state = "Real" /\ real'[l.path] = Nothing
             \/ l = NoDetails
  <2>1. CASE d = NoDetails
    <3>1. d.state = "Null" /\ temp' = temp /\ real' = real
      BY <1>1, <1>2, <2>1 DEF NoDetails
    <3> QED
      BY <1>5, <2>1, <3>1 DEF Found
  <2>2. CASE d # NoDetails
    <3>1. l = d /\ d.state \in {"Temporary", "Real"} /\ l.state # "Real"
      BY <1>1, <1>2, <1>5, <2>2 DEF Details
    <3> QED
      BY <1>1, <1>2, <3>1
  <2> QED
    BY <2>1, <2>2
<1> QED
  BY <1>1, <1>3, <1>5, LogUndone DEF d

-------------------------------------------------------------------------------
(* Crash and recovery. *)

(* A file is where the log says, or it is taken for handled.                 *)
LEMMA FoundIs ==
    ASSUME NEW i, NEW k, NEW l
    PROVE  /\ Found(i, k, l) \in {l, NoDetails}
           /\ \/ l.state = "Temporary" /\ temp[<<i, k>>] # Nothing
              \/ l.state = "Real" /\ real[l.path] # Nothing
              \/ l.state \notin {"Temporary", "Real"}
              => Found(i, k, l) = l
           /\ Found(i, k, NoDetails) = NoDetails
BY DEF Found

(* What a crash outside the windows leaves to the recovery: the list in      *)
(* memory, but for the files a deregistration has opened and not moved.      *)
LEMMA CrashList ==
    ASSUME TypeInv, Shape, FilesInv, LogInv, Sound, Crash, logFile
    PROVE  /\ Recovering' /\ List' = Reopened(Replay(log).list) /\ Current' = Replay(log).cur
           /\ Replay(log)' = Replay(log)
           /\ phase \in {"performing", "rollingBack", "closing"} /\ result # "error"
           /\ LogReads(Replay(log)) /\ List = updates
           /\ DOMAIN List' = 1..Len(List') /\ Len(List') = Len(Replay(log).list)
           /\ DOMAIN List' \subseteq DOMAIN updates
           /\ \A i \in DOMAIN List' :
                /\ List'[i].type = updates[i].type /\ List'[i].app = updates[i].app
                /\ List'[i].state = updates[i].state
                /\ \A k \in AllKinds :
                     \/ List'[i].det[k] = updates[i].det[k]
                     \/ /\ updates[i].type = "Deregister" /\ updates[i].det[k].state = "Real"
                        /\ List'[i].det[k] = NoDetails
           /\ \A i \in DOMAIN updates : i \notin DOMAIN List' => updates[i].state = "New"
           /\ LogDown(Replay(log))'
<1> DEFINE p == Replay(log)
<1>1. /\ phase' = "down" /\ phase \notin {"idle", "down"} /\ updates' = <<>> /\ result' = "died" /\ step' = "none"
      /\ UNCHANGED <<real, temp, logFile, log, full>>
  BY DEF Crash, diskVars, logVars
<1>2. /\ phase \in {"performing", "rollingBack", "closing"} /\ result # "error" /\ ~Recovering /\ List = updates
      /\ \A i \in DOMAIN updates, k \in AllKinds \ {Resource} :
            ~(updates[i].type = "Register" /\ updates[i].det[k].state = "Real")
      /\ phase = "performing" => step \notin {"note", "section", "Performing"}
      /\ phase = "closing" => step = "none"
  <2>1. phase \in {"performing", "rollingBack", "closing"}
    BY <1>1 DEF TypeInv, TypeOK
  <2>2. ~Recovering
    BY <1>1 DEF Recovering
  <2> QED
    BY <2>1, <2>2, SoundExcludes, WindowsAre, ListIs, UpdatesTyped DEF TypeInv, StepFits, Working
<1>3. /\ p \in Readings /\ p.list \in Seq(Updates) /\ DOMAIN p.list = 1..Len(p.list) /\ Len(p.list) \in Nat
      /\ Reopened(p.list) \in Seq(Updates) /\ Len(Reopened(p.list)) = Len(p.list)
      /\ DOMAIN Reopened(p.list) = DOMAIN p.list
      /\ \A i \in DOMAIN p.list :
                /\ Reopened(p.list)[i].type = p.list[i].type /\ Reopened(p.list)[i].app = p.list[i].app
                /\ Reopened(p.list)[i].state = p.list[i].state
                /\ \A k \in AllKinds : Reopened(p.list)[i].det[k] = Found(i, k, p.list[i].det[k])
  <2>1. p \in Readings /\ p.list \in Seq(Updates) /\ DOMAIN p.list = 1..Len(p.list) /\ Len(p.list) \in Nat
    BY LogRead
  <2> HIDE DEF p
  <2>2. Reopened(p.list) \in Seq(Updates) /\ Len(Reopened(p.list)) = Len(p.list)
    BY <2>1, ReopenedTyped
  <2>3. DOMAIN Reopened(p.list) = DOMAIN p.list
    BY <2>1, <2>2
  <2> QED
    BY <2>1, <2>2, <2>3, ReopenedTyped
<1>4. /\ p' = p /\ Recovering' /\ List' = Reopened(p.list) /\ Current' = p.cur
  <2>1. p' = p
    BY <1>1
  <2>2. Recovering'
    BY <1>1 DEF Recovering
  <2>3. \A i, k, l : Found(i, k, l)' = Found(i, k, l)
    BY <1>1 DEF Found
  <2>4. Reopened(p.list)' = Reopened(p.list)
    BY <2>1, <2>3 DEF Reopened
  <2> QED
    BY <2>1, <2>2, <2>4 DEF List, Current
<1>5. LogReads(p)
  BY <1>2 DEF LogInv
<1> HIDE DEF p
<1>6. /\ DOMAIN updates = 1..Len(updates) /\ Len(updates) \in Nat
      /\ Working => at \in 1..Len(updates)
  BY UpdatesTyped, AtWork
<1>7. /\ DOMAIN p.list \subseteq DOMAIN updates /\ (p.fix <=> p.section # "none")
      /\ \A i \in DOMAIN p.list : Logged(p, i)
  <2>1. CASE phase = "performing"
    BY <1>3, <1>5, <1>6, <2>1 DEF LogReads, LogPerforming, LoggedPerforming, InSection, Working
  <2>2. CASE phase = "rollingBack"
    BY <1>3, <1>5, <1>6, <2>2 DEF LogReads, LogRollingBack, LoggedRollingBack, InSection, Working
  <2>3. CASE phase = "closing"
    BY <1>3, <1>5, <1>6, <2>3 DEF LogReads, LogClosing, LoggedPerforming, InSection, Working
  <2> QED
    BY <1>2, <2>1, <2>2, <2>3
<1>8. ASSUME NEW i \in DOMAIN updates, NEW k \in AllKinds PROVE Found(i, k, updates[i].det[k]) = updates[i].det[k]
  <2>1. AreThere(updates)
    BY <1>2 DEF FilesInv, FilesFit
  <2> DEFINE d == updates[i].det[k]
  <2>2. /\ d.state = "Temporary" => temp[<<i, k>>] # Nothing
        /\ d.state = "Real" => real[d.path] # Nothing
    BY <2>1 DEF AreThere
  <2> HIDE DEF d
  <2>3. Found(i, k, d) = d
    BY <2>2 DEF Found
  <2> QED
    BY <2>3 DEF d
<1>9. ASSUME NEW i \in DOMAIN p.list, NEW k \in AllKinds
      PROVE  LET d == updates[i].det[k]
                 l == p.list[i].det[k]
             IN  /\ Found(i, k, l) = d \/ (updates[i].type = "Deregister" /\ d.state = "Real" /\ Found(i, k, l) = NoDetails)
                 /\ i # p.cur => Found(i, k, l) = l
  <2>1. CASE phase \in {"performing", "closing"}
    <3>1. DonePerforming(i, k, updates[i].det[k], p.list[i].det[k])
      BY <1>5, <2>1 DEF LogReads, LogPerforming, LogClosing, LoggedPerforming
    <3>2. \/ p.list[i].det[k] = updates[i].det[k]
          \/ /\ updates[i].type = "Deregister" /\ updates[i].det[k].state = "Real"
             /\ p.list[i].det[k] = NoDetails
      BY <1>2, <1>7, <2>1, <3>1 DEF DonePerforming
    <3> QED
      BY <1>7, <1>8, <3>2, FoundIs
  <2>2. CASE phase = "rollingBack"
    <3>1. DoneRollingBack(i, k, updates[i].det[k], p.list[i].det[k]) /\ p.cur = at
      BY <1>5, <2>2 DEF LogReads, LogRollingBack, LoggedRollingBack
    <3> QED
      BY <1>7, <1>8, <3>1 DEF DoneRollingBack
  <2> QED
    BY <1>2, <2>1, <2>2
<1>10. LogDown(p)'
  <2>1. \A i, k, l : Found(i, k, l)' = Found(i, k, l)
    BY <1>1 DEF Found
  <2>2. \A i \in DOMAIN p.list : RealLogged(p.list[i])' /\ RealLogged(p'.list[i])
    BY <1>4, <1>7 DEF Logged, RealLogged
  <2> QED
    BY <1>4, <1>7, <1>9, <2>1, <2>2 DEF LogDown
<1>11. \A i \in DOMAIN List' :
          /\ List'[i].type = updates[i].type /\ List'[i].app = updates[i].app
          /\ List'[i].state = updates[i].state
          /\ \A k \in AllKinds :
                 \/ List'[i].det[k] = updates[i].det[k]
                 \/ /\ updates[i].type = "Deregister" /\ updates[i].det[k].state = "Real"
                    /\ List'[i].det[k] = NoDetails
  BY <1>3, <1>4, <1>7, <1>9 DEF Logged
<1>12. DOMAIN List' = 1..Len(List') /\ Len(List') = Len(p.list) /\ DOMAIN List' \subseteq DOMAIN updates
  BY <1>3, <1>4, <1>7
<1>13. \A i \in DOMAIN updates : i \notin DOMAIN List' => updates[i].state = "New"
  <2> SUFFICES ASSUME NEW i \in DOMAIN updates, i \notin DOMAIN p.list PROVE updates[i].state = "New"
    BY <1>3, <1>4
  <2>1. CASE phase = "performing"
    <3>1. Len(p.list) = (IF step = "new" THEN at - 1 ELSE at) /\ at \in Nat /\ i \in Nat
      BY <1>5, <1>6, <2>1 DEF LogReads, LogPerforming, Working
    <3>2. i > at \/ (i = at /\ step = "new")
      BY <1>3, <1>6, <3>1
    <3>3. updates[i].state = IF i < at THEN "Performed" ELSE IF i > at THEN "New" ELSE StatePerforming
      BY <2>1 DEF Shape
    <3> QED
      BY <3>1, <3>2, <3>3 DEF StatePerforming
  <2>2. CASE phase \in {"rollingBack", "closing"}
    <3>1. Len(p.list) = Len(updates)
      BY <1>5, <2>2 DEF LogReads, LogRollingBack, LogClosing
    <3> QED
      BY <1>3, <1>6, <3>1
  <2> QED
    BY <1>2, <2>1, <2>2
<1> QED
  BY <1>1, <1>2, <1>4, <1>5, <1>10, <1>11, <1>12, <1>13 DEF p

(* What a crash leaves to the recovery has the shape of a batch to roll      *)
(* back.                                                                     *)
LEMMA ShapeCrash == TypeInv /\ Shape /\ FilesInv /\ LogInv /\ Sound /\ Crash => Shape'
<1> SUFFICES ASSUME TypeInv, Shape, FilesInv, LogInv, Sound, Crash PROVE Shape'
  OBVIOUS
<1>1. /\ phase' = "down" /\ updates' = <<>> /\ at' = 0 /\ step' = "none" /\ result' = "died" /\ full' = FALSE
      /\ UNCHANGED logFile
  BY DEF Crash, Shape, logVars
<1>2. CASE ~logFile
  BY <1>1, <1>2 DEF Shape, Recovering
<1>3. CASE logFile
  <2> DEFINE p == Replay(log)
  <2>1. /\ Recovering' /\ Current' = p.cur /\ List = updates /\ LogReads(p)
        /\ phase \in {"performing", "rollingBack", "closing"} /\ result # "error"
        /\ DOMAIN List' = 1..Len(List') /\ Len(List') = Len(p.list)
        /\ DOMAIN List' \subseteq DOMAIN updates
        /\ \A i \in DOMAIN List' : List'[i].state = updates[i].state
    BY <1>3, CrashList
  <2>2. p \in Readings /\ Len(p.list) \in Nat /\ p.cur \in 0..Len(p.list)
    BY LogRead
  <2> HIDE DEF p
  <2>3. StatesRollingBack' = {"Performing", "Performed", "RollingBack"}
    BY <1>1 DEF StatesRollingBack
  <2>4. Len(updates) \in Nat /\ DOMAIN updates = 1..Len(updates)
    BY UpdatesTyped
  <2>5. /\ \A j \in DOMAIN List' : j < p.cur => updates[j].state = "Performed"
        /\ p.cur # 0 => updates[p.cur].state \in {"Performing", "Performed", "RollingBack"}
        /\ \A j \in DOMAIN List' : j > p.cur => updates[j].state = "RolledBack"
    <3>1. CASE phase = "performing"
      <4>1. /\ Len(p.list) = IF step = "new" THEN at - 1 ELSE at
            /\ p.cur = Len(p.list)
        BY <2>1, <3>1 DEF LogReads, LogPerforming
      <4>2. at \in 1..Len(updates)
        BY <3>1, AtWork DEF Working
      <4>3. step \notin {"section", "Performing"}
        BY <3>1, SoundExcludes, WindowsAre
      <4>4. \A i \in DOMAIN updates :
               /\ i < at => updates[i].state = "Performed"
               /\ i = at => updates[i].state = StatePerforming
        BY <2>4, <3>1, <4>2, ShapePerforming
      <4>5. step # "new" => StatePerforming \in {"Performing", "Performed"}
        BY <4>3 DEF StatePerforming
      <4>6. p.cur # 0 => p.cur \in DOMAIN updates
        <5>1. p.cur \in Nat /\ DOMAIN List' = 1..p.cur
          BY <2>1, <2>2, <4>1
        <5>2. DOMAIN List' \subseteq DOMAIN updates
          BY <2>1
        <5>3. p.cur # 0 => p.cur \in DOMAIN List'
          BY <5>1
        <5> QED
          BY <5>2, <5>3
      <4>7. p.cur < at \/ (p.cur = at /\ step # "new")
        BY <4>1, <4>2
      <4>8. \A j \in DOMAIN List' : ~(j > p.cur)
        <5>1. p.cur \in Nat /\ DOMAIN List' = 1..p.cur
          BY <2>1, <2>2, <4>1
        <5> QED
          BY <5>1
      <4>9. \A j \in DOMAIN List' : j < p.cur => j < at
        BY <2>1, <2>2, <4>1, <4>2
      <4> QED
        BY <2>1, <4>4, <4>5, <4>6, <4>7, <4>8, <4>9
    <3>2. CASE phase = "rollingBack"
      <4>1. p.cur = at /\ Len(p.list) = Len(updates)
        BY <2>1, <3>2 DEF LogReads, LogRollingBack
      <4>2. step # "end"
        BY <3>2, SoundExcludes, WindowsAre
      <4>3. \A i \in DOMAIN updates :
                /\ i < at => updates[i].state = "Performed"
                /\ i = at => updates[i].state \in StatesRollingBack
                /\ i > at => updates[i].state = "RolledBack"
        BY <2>1, <3>2, ShapeRollingBack
      <4>4. StatesRollingBack \subseteq {"Performing", "Performed", "RollingBack"}
                \/ StatesRollingBack \subseteq {"RollingBack"}
        BY <4>2 DEF StatesRollingBack
      <4>5. at \in DOMAIN updates
        BY <2>4, <3>2, ShapeRollingBack
      <4> QED
        BY <2>1, <4>1, <4>3, <4>4, <4>5
    <3>3. CASE phase = "closing"
      <4>1. p.cur = IF result = "ok" THEN Len(updates) ELSE 0
        BY <2>1, <3>3 DEF LogReads, LogClosing
      <4>2. CASE result = "ok"
        <5>1. \A j \in DOMAIN updates : updates[j].state = "Performed" /\ ~(j > p.cur)
          BY <2>4, <3>3, <4>1, <4>2 DEF Shape, AllPerformed
        <5>2. p.cur # 0 => p.cur \in DOMAIN updates
          BY <2>4, <4>1, <4>2
        <5> QED
          BY <2>1, <5>1, <5>2
      <4>3. CASE result # "ok"
        <5>1. p.cur = 0 /\ UndoneAfter(updates, 0)
          BY <3>3, <4>1, <4>3 DEF Shape
        <5>2. \A j \in DOMAIN updates : j > 0 /\ updates[j].state = "RolledBack"
          BY <2>1, <2>4, <5>1 DEF UndoneAfter
        <5>3. \A j \in DOMAIN List' : ~(j < p.cur)
          BY <2>1, <5>1
        <5> QED
          BY <2>1, <5>1, <5>2, <5>3
      <4> QED
        BY <4>2, <4>3
    <3> QED
      BY <2>1, <3>1, <3>2, <3>3
  <2>6. p.cur # 0 => p.cur \in DOMAIN List'
    BY <2>1, <2>2
  <2>7. RollingBack(List, Current)'
    <3>1. UndoneAfter(List, Current)'
      BY <2>1, <2>5 DEF UndoneAfter
    <3> QED
      BY <2>1, <2>2, <2>3, <2>5, <2>6, <3>1 DEF RollingBack
  <2> QED
    BY <1>1, <2>7 DEF Shape
<1> QED
  BY <1>2, <1>3

(* And it fits the files.                                                    *)
LEMMA FilesCrash == TypeInv /\ Shape /\ FilesInv /\ LogInv /\ Sound /\ Crash => FilesInv'
<1> SUFFICES ASSUME TypeInv, Shape, FilesInv, LogInv, Sound, Crash PROVE FilesInv'
  OBVIOUS
<1>1. /\ phase' = "down" /\ updates' = <<>> /\ step' = "none" /\ crashes' = crashes + 1
      /\ UNCHANGED <<logFile, real, temp>> /\ crashes \in Nat
  BY BoundsAssumption DEF Crash, logVars, diskVars, TypeInv, TypeOK
<1>2. DetailsAtWork'
  BY <1>1, NothingAtWork
<1>3. TemporariesKnown'
  BY <1>1 DEF TemporariesKnown
<1>4. CASE ~logFile
  <2>1. ~Recovering' /\ List' = <<>>
    BY <1>1, <1>4 DEF Recovering, List
  <2>2. FilesFit(List)'
    BY <2>1 DEF FilesFit, FitDetails, AreThere, Openable, InOrder
  <2> QED
    BY <1>2, <1>3, <2>2 DEF FilesInv
<1>5. CASE logFile
  <2>1. /\ List = updates
        /\ DOMAIN List' = 1..Len(List')
        /\ DOMAIN List' \subseteq DOMAIN updates
        /\ \A i \in DOMAIN List' :
                /\ List'[i].type = updates[i].type /\ List'[i].app = updates[i].app
                /\ List'[i].state = updates[i].state
                /\ \A k \in AllKinds :
                     \/ List'[i].det[k] = updates[i].det[k]
                     \/ updates[i].type = "Deregister" /\ List'[i].det[k] = NoDetails
    BY <1>5, CrashList
  <2>2. FilesFit(updates)
    BY <2>1 DEF FilesInv
  <2>3. \A i \in DOMAIN List', k \in AllKinds :
           List'[i].det[k].state # "Null" => List'[i].det[k] = updates[i].det[k]
    BY <2>1 DEF NoDetails
  <2>4. FitDetails(List)'
    <3> SUFFICES ASSUME NEW i \in DOMAIN List', NEW k \in AllKinds PROVE FitDetail(List[i], k)'
      BY DEF FitDetails
    <3>1. FitDetail(updates[i], k) /\ i \in DOMAIN updates
      BY <2>1, <2>2 DEF FilesFit, FitDetails
    <3>2. NoDetails.state \notin {"Temporary", "Real"}
      BY DEF NoDetails
    <3> QED
      BY <2>1, <3>1, <3>2 DEF FitDetail
  <2>5. AreThere(List)'
    <3> SUFFICES ASSUME NEW i \in DOMAIN List', NEW k \in AllKinds
                 PROVE  /\ List'[i].det[k].state = "Temporary" => temp'[<<i, k>>] # Nothing
                        /\ List'[i].det[k].state = "Real" => real'[List'[i].det[k].path] # Nothing
      BY DEF AreThere
    <3> QED
      BY <1>1, <2>1, <2>2, <2>3 DEF FilesFit, AreThere
  <2>6. Openable(List)'
    <3> SUFFICES ASSUME NEW i \in DOMAIN List', NEW j \in DOMAIN List', NEW k \in AllKinds, NEW l \in AllKinds,
                        List'[i].det[k].state = "Real", List'[i].det[k] = List'[j].det[l]
                 PROVE  i = j /\ k = l
      BY <2>1 DEF Openable
    <3>1. updates[i].det[k].state = "Real" /\ updates[i].det[k] = updates[j].det[l]
      BY <2>3
    <3>2. i \in 1..Len(updates) /\ j \in 1..Len(updates)
      BY <2>1, UpdatesTyped
    <3> QED
      BY <2>2, <3>1, <3>2 DEF FilesFit, Openable
  <2>7. InOrder(List)'
    <3> SUFFICES ASSUME NEW i \in DOMAIN List', NEW j \in DOMAIN List', NEW k \in AllKinds, NEW l \in AllKinds,
                        List'[i].type = "Deregister", List'[i].det[k].state = "Temporary",
                        List'[j].det[l].state = "Real", List'[j].det[l].path = List'[i].det[k].path
                 PROVE  i < j
      BY DEF InOrder
    <3>1. List'[i].det[k] = updates[i].det[k] /\ List'[j].det[l] = updates[j].det[l] /\ updates[i].type = "Deregister"
      BY <2>1, <2>3
    <3> QED
      BY <2>1, <2>2, <3>1 DEF FilesFit, InOrder
  <2> QED
    BY <1>2, <1>3, <2>4, <2>5, <2>6, <2>7 DEF FilesInv, FilesFit
<1> QED
  BY <1>4, <1>5

(* And the log tells of nothing else.                                        *)
LEMMA LogCrash == TypeInv /\ Shape /\ FilesInv /\ LogInv /\ Sound /\ Crash => LogInv'
<1> SUFFICES ASSUME TypeInv, Shape, FilesInv, LogInv, Sound, Crash PROVE LogInv'
  OBVIOUS
<1> DEFINE p == Replay(log)
<1>1. phase' = "down" /\ UNCHANGED <<logFile, log>>
  BY DEF Crash, logVars
<1>2. CASE ~logFile
  BY <1>1, <1>2, LogIgnored
<1>3. CASE logFile
  <2>1. p' = p /\ LogReads(p) /\ LogDown(p)'
    BY <1>3, CrashList
  <2> HIDE DEF p
  <2>2. LogReads(p)'
    BY <1>1, <2>1 DEF LogReads
  <2> QED
    BY <2>2 DEF LogInv, p
<1> QED
  BY <1>2, <1>3

(* Outside the windows the recovery never abandons its list: it has the log  *)
(* read to its end, and rolls back what it rebuilt.                          *)
LEMMA RecoverIs ==
    ASSUME TypeInv, Shape, FilesInv, LogInv, Recover
    PROVE  LET p == Replay(log) IN
           /\ phase = "down" /\ logFile /\ result = "died" /\ Recovering /\ updates = <<>> /\ step = "none"
           /\ List = Reopened(p.list) /\ Current = p.cur
           /\ LogReads(p) /\ LogDown(p)
           /\ FilesFit(List) /\ RollingBack(List, p.cur)
           /\ p.cur # 0 => p.list[p.cur].state \in {"Performing", "Performed", "RollingBack"}
           /\ updates' = List /\ RollBackFrom(p.cur)
           /\ log' = IF p.fix THEN Append(log, EndRecord) ELSE log
           /\ UNCHANGED <<real, temp, logFile, full, result, batch, before, crashes>>
<1> DEFINE p == Replay(log)
<1>1. phase = "down" /\ logFile /\ Recovering /\ result = "died" /\ updates = <<>> /\ full = FALSE /\ step = "none"
  BY DEF Recover, Shape, Recovering, TypeInv, StepFits, Working
<1>2. /\ List = Reopened(p.list) /\ Current = p.cur
      /\ FilesFit(List) /\ RollingBack(List, p.cur) /\ LogReads(p)
  BY <1>1 DEF List, Current, FilesInv, LogInv, Shape
<1>3. LogDown(p) /\ p.length = Len(log)
  BY <1>1, <1>2 DEF LogReads
<1>4. /\ p \in Readings /\ p.list \in Seq(Updates) /\ DOMAIN p.list = 1..Len(p.list) /\ Len(p.list) \in Nat
      /\ p.cur \in 0..Len(p.list) /\ log \in Seq(LogRecords) /\ Len(log) \in Nat
      /\ Reopened(p.list) \in Seq(Updates) /\ Len(Reopened(p.list)) = Len(p.list)
      /\ \A i \in DOMAIN p.list : Reopened(p.list)[i].state = p.list[i].state
  <2>1. /\ p \in Readings /\ p.list \in Seq(Updates) /\ DOMAIN p.list = 1..Len(p.list) /\ Len(p.list) \in Nat
        /\ p.cur \in 0..Len(p.list) /\ log \in Seq(LogRecords) /\ Len(log) \in Nat
    BY LogRead
  <2> HIDE DEF p
  <2> QED
    BY <2>1, ReopenedTyped
<1> HIDE DEF p
<1>5. p.cur # 0 => p.list[p.cur].state \in {"Performing", "Performed", "RollingBack"}
  <2>1. StatesRollingBack = {"Performing", "Performed", "RollingBack"}
    BY <1>1 DEF StatesRollingBack
  <2>2. p.cur # 0 => p.cur \in DOMAIN p.list
    BY <1>4
  <2> QED
    BY <1>2, <1>4, <2>1, <2>2 DEF RollingBack
<1>6. Openable(Reopened(p.list))
  BY <1>2 DEF FilesFit
<1>7. /\ log' = SubSeq(log, 1, p.length) \o (IF p.fix THEN <<EndRecord>> ELSE <<>>)
      /\ updates' = Reopened(p.list)
      /\ RollBackFrom(p.cur)
      /\ UNCHANGED <<real, temp, logFile, full, result, batch, before, crashes>>
  <2>1. /\ IF \/ ~Openable(Reopened(p.list))
              \/ p.fix /\ full
              \/ p.cur # 0 /\ p.list[p.cur].state = "RolledBack"
           THEN Abandon(Reopened(p.list))
           ELSE /\ log' = SubSeq(log, 1, p.length) \o (IF p.fix THEN <<EndRecord>> ELSE <<>>)
                /\ updates' = Reopened(p.list)
                /\ RollBackFrom(IF p.cur # 0 /\ p.list[p.cur].state = "New" THEN p.cur - 1 ELSE p.cur)
                /\ UNCHANGED <<diskVars, logFile, full>>
        /\ UNCHANGED <<result, ghostVars>>
    BY DEF Recover, p
  <2>2. ~(\/ ~Openable(Reopened(p.list))
          \/ p.fix /\ full
          \/ p.cur # 0 /\ p.list[p.cur].state = "RolledBack")
    BY <1>1, <1>5, <1>6
  <2>3. ~(p.cur # 0 /\ p.list[p.cur].state = "New")
    BY <1>5
  <2> QED
    BY <2>1, <2>2, <2>3 DEF diskVars, ghostVars
<1>8. log' = IF p.fix THEN Append(log, EndRecord) ELSE log
  <2>1. SubSeq(log, 1, p.length) = log
    BY <1>3, <1>4
  <2>2. log \o <<EndRecord>> = Append(log, EndRecord) /\ log \o <<>> = log
    BY <1>4
  <2> QED
    BY <1>7, <2>1, <2>2
<1> QED
  BY <1>1, <1>2, <1>3, <1>5, <1>7, <1>8 DEF p

(* The recovery rolls back what the log tells of.                            *)
LEMMA ShapeRecover == TypeInv /\ Shape /\ FilesInv /\ LogInv /\ Recover => Shape'
<1> SUFFICES ASSUME TypeInv, Shape, FilesInv, LogInv, Recover PROVE Shape'
  OBVIOUS
<1> DEFINE p == Replay(log)
<1>1. /\ result = "died" /\ step = "none" /\ full' = FALSE /\ result' = "died" /\ updates' = List
      /\ RollingBack(List, p.cur) /\ RollBackFrom(p.cur)
  BY RecoverIs DEF Shape
<1> HIDE DEF p
<1>2. at' = p.cur /\ ~Recovering'
  BY <1>1 DEF RollBackFrom, Recovering
<1>3. UndoneAfter(updates, at)'
  BY <1>1, <1>2 DEF RollingBack, UndoneAfter
<1>4. CASE p.cur = 0
  BY <1>1, <1>2, <1>3, <1>4 DEF Shape, RollBackFrom
<1>5. CASE p.cur # 0
  <2>1. phase' = "rollingBack" /\ step' = "section"
    BY <1>1, <1>5 DEF RollBackFrom
  <2>2. StatesRollingBack' = StatesRollingBack
    BY <1>1, <2>1 DEF StatesRollingBack
  <2>3. RollingBack(updates, at)'
    BY <1>1, <1>2, <1>3, <2>2 DEF RollingBack
  <2> QED
    BY <1>1, <1>2, <2>1, <2>3 DEF Shape
<1> QED
  BY <1>4, <1>5

(* The recovery touches no file before it rolls back.                        *)
LEMMA FilesRecover == TypeInv /\ Shape /\ FilesInv /\ LogInv /\ Recover => FilesInv'
<1> SUFFICES ASSUME TypeInv, Shape, FilesInv, LogInv, Recover PROVE FilesInv'
  OBVIOUS
<1>1. /\ updates' = List /\ FilesFit(List) /\ updates = <<>>
      /\ UNCHANGED <<real, temp, crashes>> /\ step' \in {"none", "section"} /\ phase' # "down"
  BY RecoverIs DEF RollBackFrom
<1>2. List' = List /\ DetailsAtWork'
  BY <1>1, NothingAtWork DEF List, Recovering
<1>3. FilesFit(List)'
  BY <1>1, <1>2 DEF FilesFit, FitDetails, FitDetail, AreThere, Openable, InOrder
<1>4. TemporariesKnown'
  BY <1>1 DEF FilesInv, TemporariesKnown
<1> QED
  BY <1>2, <1>3, <1>4 DEF FilesInv

(* The recovery ends the section that the crash left open, and goes on with  *)
(* the log.                                                                  *)
LEMMA LogRecover == TypeInv /\ Shape /\ FilesInv /\ LogInv /\ Recover => LogInv'
<1> SUFFICES ASSUME TypeInv, Shape, FilesInv, LogInv, Recover PROVE LogInv'
  OBVIOUS
<1> DEFINE p == Replay(log)
<1>1. /\ result' = "died" /\ updates' = Reopened(p.list)
      /\ LogReads(p) /\ LogDown(p) /\ phase = "down"
      /\ p.cur # 0 => p.list[p.cur].state \in {"Performing", "Performed", "RollingBack"}
      /\ RollBackFrom(p.cur)
      /\ log' = IF p.fix THEN Append(log, EndRecord) ELSE log
      /\ UNCHANGED <<real, temp>>
  BY RecoverIs
<1>2. /\ GoodReading(p) /\ p \in Readings /\ p.list \in Seq(Updates) /\ DOMAIN p.list = 1..Len(p.list)
      /\ Len(p.list) \in Nat /\ p.cur \in 0..Len(p.list)
  BY LogRead
<1>3. /\ p'.list = p.list /\ p'.cur = p.cur /\ p'.section = "none" /\ p'.fix = FALSE /\ p'.reading = TRUE
      /\ p'.length = Len(log')
  <2>1. p.reading = TRUE /\ p.length = Len(log) /\ (p.fix <=> p.section # "none")
    BY <1>1 DEF LogReads, LogDown
  <2>2. CASE p.fix
    <3>1. EndRecord \in LogRecords
      BY DEF EndRecord, LogRecords
    <3>2. p' = ReadRecord(p, EndRecord) /\ Len(log') = Len(log) + 1
      BY <1>1, <2>2, <3>1, LogAppended
    <3> HIDE DEF p
    <3>3. p.list[p.cur].state # "RolledBack"
      BY <1>1, <1>2, <2>1, <2>2 DEF GoodReading
    <3> QED
      BY <1>2, <2>1, <2>2, <3>2, <3>3, ReadEnd
  <2>3. CASE ~p.fix
    <3>1. log' = log /\ p' = p
      BY <1>1, <2>3
    <3> HIDE DEF p
    <3> QED
      BY <1>2, <2>1, <2>3, <3>1 DEF Readings
  <2> QED
    BY <2>2, <2>3
<1> HIDE DEF p
<1>4. /\ Len(updates') = Len(p.list)
      /\ \A i \in DOMAIN p.list :
                /\ updates'[i].type = p.list[i].type /\ updates'[i].app = p.list[i].app
                /\ updates'[i].state = p.list[i].state
                /\ \A k \in AllKinds : updates'[i].det[k] = Found(i, k, p.list[i].det[k])
  BY <1>1, <1>2, ReopenedTyped
<1>5. \A i, k, l : Found(i, k, l)' = Found(i, k, l) /\ Found(i, k, l) \in {l, NoDetails}
  BY <1>1 DEF Found
<1>6. ASSUME NEW i \in DOMAIN p.list PROVE Logged(p, i)'
  BY <1>1, <1>3, <1>4, <1>6 DEF LogDown, Logged, RealLogged
<1>7. at' = p.cur
  BY <1>1 DEF RollBackFrom
<1>8. CASE p.cur = 0
  <2>1. phase' = "closing"
    BY <1>1, <1>8 DEF RollBackFrom
  <2>2. \A i \in DOMAIN p.list, k \in AllKinds : updates'[i].det[k] = p.list[i].det[k]
    BY <1>1, <1>2, <1>4, <1>8 DEF LogDown
  <2>3. LoggedPerforming(p)'
    BY <1>3, <1>6, <2>2 DEF LoggedPerforming, DonePerforming
  <2>4. LogClosing(p)'
    BY <1>1, <1>3, <1>4, <1>8, <2>3 DEF LogClosing, InSection
  <2>5. LogReads(p)'
    BY <1>3, <2>1, <2>4 DEF LogReads
  <2> QED
    BY <2>5 DEF LogInv, p
<1>9. CASE p.cur # 0
  <2>1. phase' = "rollingBack" /\ step' = "section"
    BY <1>1, <1>9 DEF RollBackFrom
  <2>2. ASSUME NEW i \in DOMAIN p.list, NEW k \in AllKinds
        PROVE  DoneRollingBack(i, k, updates[i].det[k], p.list[i].det[k])'
    <3>1. updates'[i].det[k] = Found(i, k, p.list[i].det[k]) /\ p'.list[i].det[k] = p.list[i].det[k]
      BY <1>3, <1>4
    <3>2. CASE Found(i, k, p.list[i].det[k]) = p.list[i].det[k]
      BY <3>1, <3>2 DEF DoneRollingBack
    <3>3. CASE Found(i, k, p.list[i].det[k]) # p.list[i].det[k]
      <4>1. i = p.cur /\ Found(i, k, p.list[i].det[k]) = NoDetails
        BY <1>1, <1>5, <3>3 DEF LogDown
      <4> QED
        BY <1>3, <1>5, <1>7, <2>1, <3>1, <4>1 DEF DoneRollingBack
    <3> QED
      BY <3>2, <3>3
  <2>3. LoggedRollingBack(p)'
    BY <1>3, <1>6, <2>2 DEF LoggedRollingBack
  <2>4. LogRollingBack(p)'
    BY <1>3, <1>4, <1>7, <2>1, <2>3 DEF LogRollingBack, InSection
  <2>5. LogReads(p)'
    BY <1>3, <2>1, <2>4 DEF LogReads
  <2> QED
    BY <2>5 DEF LogInv, p
<1> QED
  BY <1>8, <1>9

-------------------------------------------------------------------------------
(* The invariant. *)

(* The invariant holds when the server starts for the first time.            *)
LEMMA BasedInit == Init => LogBased
<1> SUFFICES ASSUME Init PROVE LogBased
  OBVIOUS
<1>1. TypeInv
  BY TypeInit
<1>2. /\ full = FALSE /\ phase = "idle" /\ updates = <<>> /\ at = 0 /\ step = "none" /\ result = "aborted"
      /\ logFile = FALSE /\ temp = [s \in Slots |-> Nothing]
  BY DEF Init
<1>3. Shape
  BY <1>2 DEF Shape, Recovering
<1>4. FilesInv
  <2>1. List = <<>> /\ DetailsAtWork
    BY <1>2 DEF List, Recovering, DetailsAtWork
  <2>2. FilesFit(List)
    BY <2>1 DEF FilesFit, FitDetails, AreThere, Openable, InOrder
  <2>3. TemporariesKnown
    BY <1>2 DEF TemporariesKnown
  <2> QED
    BY <2>1, <2>2, <2>3 DEF FilesInv
<1>5. LogInv
  BY <1>2 DEF LogInv
<1> QED
  BY <1>1, <1>3, <1>4, <1>5 DEF LogBased

(* The invariant, step by step: none.                                        *)
LEMMA BasedStutter == LogBased /\ UNCHANGED vars => LogBased'
<1> SUFFICES ASSUME LogBased, UNCHANGED vars PROVE LogBased'
  OBVIOUS
<1>1. TypeInv'
  BY TypeNext DEF LogBased
<1>2. UNCHANGED <<real, temp, logFile, log, full, phase, updates, at, step, left, result, crashes>>
  BY DEF vars
<1>3. cur' = cur /\ Kind' = Kind /\ Pending' = Pending
  <2>1. cur' = cur
    BY <1>2 DEF cur
  <2>2. Kind' = Kind
    BY <1>2, <2>1 DEF Kind
  <2> QED
    BY <1>2, <2>1, <2>2 DEF Pending
<1>4. List' = List /\ Current' = Current
  BY <1>2 DEF List, Current, Recovering, Reopened, Found
<1>5. Shape'
  BY <1>2, <1>4 DEF LogBased, Shape, AllPerformed, UndoneAfter, RollingBack, StatePerforming, StatesRollingBack, Recovering
<1>6. FilesInv'
  <2>1. DetailsAtWork' /\ TemporariesKnown'
    BY <1>2, <1>3 DEF LogBased, FilesInv, DetailsAtWork, TemporariesKnown
  <2>2. FilesFit(List)'
    BY <1>2, <1>4 DEF LogBased, FilesInv, FilesFit, FitDetails, FitDetail, AreThere, Openable, InOrder
  <2> QED
    BY <2>1, <2>2 DEF FilesInv
<1>7. LogInv'
  <2> DEFINE p == Replay(log)
  <2>1. p' = p
    BY <1>2
  <2>2. \A i, k, l : Found(i, k, l)' = Found(i, k, l)
    BY <1>2 DEF Found
  <2> SUFFICES ASSUME logFile, result # "error" PROVE LogReads(p)'
    BY <1>2 DEF LogInv
  <2>3. LogReads(p)
    BY DEF LogBased, LogInv
  <2> HIDE DEF p
  <2>4. LoggedPerforming(p) => LoggedPerforming(p)'
    BY <1>2, <1>3, <2>1 DEF LoggedPerforming, Logged, RealLogged, DonePerforming
  <2>5. LoggedRollingBack(p) => LoggedRollingBack(p)'
    BY <1>2, <2>1, <2>2 DEF LoggedRollingBack, Logged, RealLogged, DoneRollingBack
  <2>6. LogDown(p) => LogDown(p)'
    BY <1>2, <2>1, <2>2 DEF LogDown, RealLogged
  <2> QED
    BY <1>2, <2>1, <2>3, <2>4, <2>5, <2>6 DEF LogReads, LogPerforming, LogRollingBack, LogClosing, InSection
<1> QED
  BY <1>1, <1>5, <1>6, <1>7 DEF LogBased

(* The invariant, step by step: the steps of the client.                     *)
LEMMA BasedClient == Sound /\ LogBased /\ Client => LogBased'
<1> SUFFICES ASSUME Sound, LogBased, Client PROVE LogBased'
  OBVIOUS
<1>1. TypeInv /\ Shape /\ FilesInv /\ LogInv /\ TypeInv'
  <2>1. [Next]_vars
    BY DEF Next
  <2> QED
    BY <2>1, TypeNext DEF LogBased
<1>2. CASE Prepare
  BY <1>1, <1>2, ShapeClient, FilesPrepare, LogClient DEF LogBased
<1>3. ASSUME NEW a \in Apps, NEW kinds \in Bundles, Register(a, kinds) PROVE LogBased'
  <2>1. Asked("Register", a, kinds) /\ "Register" \in Types
    BY <1>3 DEF Register, Types
  <2>2. phase = "prepared" /\ UNCHANGED logFile
    BY <2>1 DEF Asked, logVars
  <2>3. Shape'
    BY <1>1, <2>1, ShapeAsked
  <2>4. FilesInv' /\ LogInv'
    BY <1>1, <1>3, <2>2, FilesRegister, LogClient
  <2> QED
    BY <1>1, <2>3, <2>4 DEF LogBased
<1>4. ASSUME NEW a \in Apps, Deregister(a) PROVE LogBased'
  <2>1. Asked("Deregister", a, {}) /\ "Deregister" \in Types
    BY <1>4 DEF Deregister, Types
  <2>2. phase = "prepared" /\ UNCHANGED logFile
    BY <2>1 DEF Asked, logVars
  <2>3. Shape'
    BY <1>1, <2>1, ShapeAsked
  <2>4. FilesInv' /\ LogInv'
    BY <1>1, <1>4, <2>2, FilesDeregister, LogClient
  <2> QED
    BY <1>1, <2>3, <2>4 DEF LogBased
<1>5. CASE Abort
  BY <1>1, <1>5, ShapeClient, FilesAbort, LogClient DEF LogBased
<1>6. CASE Commit
  BY <1>1, <1>6, ShapeClient, FilesUntouched, LogCommit DEF LogBased
<1>7. CASE CommitRefused
  BY <1>1, <1>7, ShapeClient, FilesUntouched, LogClient DEF LogBased
<1> QED
  BY <1>2, <1>3, <1>4, <1>5, <1>6, <1>7 DEF Client

(* The invariant, step by step: the server's.                                *)
LEMMA BasedServer == Sound /\ LogBased /\ Server => LogBased'
<1> SUFFICES ASSUME Sound, LogBased, Server PROVE LogBased'
  OBVIOUS
<1>1. TypeInv /\ Shape /\ FilesInv /\ LogInv /\ TypeInv'
  <2>1. [Next]_vars
    BY DEF Next
  <2> QED
    BY <2>1, TypeNext DEF LogBased
<1>2. CASE WriteNew
  BY <1>1, <1>2, ShapeLogStep, FilesLogStep, LogWriteNew DEF LogBased
<1>3. CASE WriteSection
  BY <1>1, <1>3, ShapeLogStep, FilesLogStep, LogWriteSection DEF LogBased
<1>4. CASE StateChange
  BY <1>1, <1>4, ShapeStateChange, FilesStateChange, LogStateChange DEF LogBased
<1>5. CASE Continuation
  BY <1>1, <1>5, ShapeLogStep, FilesContinuation, LogContinuation DEF LogBased
<1>6. CASE EndOfUpdate
  BY <1>1, <1>6, ShapeEndOfUpdate, FilesLogStep, LogEndOfUpdate DEF LogBased
<1>7. CASE Find
  BY <1>1, <1>7, ShapeFind, FilesFind, LogFind DEF LogBased
<1>8. CASE RenameToReal
  BY <1>1, <1>8, ShapeFileStep, FilesRenameToReal, LogRename DEF LogBased
<1>9. CASE RenameToTemporary
  BY <1>1, <1>9, ShapeFileStep, FilesRenameToTemporary, LogRename DEF LogBased
<1>10. CASE PerformLeaves
  <2>1. FilesInv'
    BY <1>1, <1>10, FilesFails DEF PerformLeaves, diskVars, ghostVars
  <2> QED
    BY <1>1, <1>10, <2>1, ShapePerformLeaves, LogPerformLeaves DEF LogBased
<1>11. CASE Delete
  BY <1>1, <1>11, ShapeFileStep, FilesDelete, LogDelete DEF LogBased
<1>12. CASE RestoreReal
  BY <1>1, <1>12, ShapeFileStep, FilesRestoreReal, LogRestoreReal DEF LogBased
<1>13. CASE LogWriteFails
  BY <1>1, <1>13, NotFull
<1>14. CASE CloseLog
  BY <1>1, <1>14, ShapeFinish, FilesUntouched, LogClient DEF LogBased
<1>15. CASE Destroy
  BY <1>1, <1>15, ShapeFinish, FilesDestroy, LogClient DEF LogBased
<1>16. CASE Recover
  BY <1>1, <1>16, ShapeRecover, FilesRecover, LogRecover DEF LogBased
<1>17. CASE StartUp
  BY <1>1, <1>17, ShapeFinish, FilesUntouched, LogClient DEF LogBased
<1>18. CASE DeleteFails \/ RestoreRealFails \/ RecoverFails
  BY <1>18, SoundExcludes
<1> QED
  BY <1>2, <1>3, <1>4, <1>5, <1>6, <1>7, <1>8, <1>9, <1>10, <1>11, <1>12, <1>13, <1>14, <1>15, <1>16, <1>17,
     <1>18
  DEF Server

(* The invariant, step by step: all of them.                                 *)
LEMMA BasedNext == Sound /\ LogBased /\ [Next]_vars => LogBased'
<1> SUFFICES ASSUME Sound, LogBased, [Next]_vars PROVE LogBased'
  OBVIOUS
<1>1. CASE Client
  BY <1>1, BasedClient
<1>2. CASE Server
  BY <1>2, BasedServer
<1>3. CASE FillUp
  BY <1>3, SoundExcludes
<1>4. CASE Crash
  <2>1. TypeInv'
    BY TypeNext DEF LogBased
  <2> QED
    BY <1>4, <2>1, ShapeCrash, FilesCrash, LogCrash DEF LogBased
<1>5. CASE UNCHANGED vars
  BY <1>5, BasedStutter
<1> QED
  BY <1>1, <1>2, <1>3, <1>4, <1>5 DEF Next

(* The batch's invariant: the types, the states the updates of the list may  *)
(* have, every file where its details say, and a log that tells of both; for *)
(* any failure of an update and any crash that Sound leaves.                 *)
THEOREM BasedCorrect == ASSUME Sound PROVE Spec => []LogBased
<1>1. Init => LogBased
  BY BasedInit
<1>2. LogBased /\ [Next]_vars => LogBased'
  BY BasedNext
<1> QED
  BY <1>1, <1>2, PTL DEF Spec

-------------------------------------------------------------------------------
(* What follows from it. *)

(* The places of the states in a list.                                       *)
LEMMA OrderOf ==
    /\ Order("Performed") = 1 /\ Order("Performing") = 2 /\ Order("RollingBack") = 2
    /\ Order("RolledBack") = 3 /\ Order("New") = 4
BY DEF Order

(* The states before the i-th update, its own and those after it.            *)
LEMMA ListInOrder ==
    ASSUME TypeInv, NEW i \in 0..Len(updates) + 1,
           \A j \in DOMAIN updates : j < i => updates[j].state = "Performed",
           i \in DOMAIN updates => updates[i].state # "New" \/ \A j \in DOMAIN updates : j > i => updates[j].state = "New",
           i \in DOMAIN updates /\ updates[i].state = "RolledBack" =>
             \A j \in DOMAIN updates : j > i => updates[j].state \in {"RolledBack", "New"},
           \A j \in DOMAIN updates : j > i =>
             /\ updates[j].state \in {"RolledBack", "New"}
             /\ updates[j].state = "RolledBack" =>
                  \A l \in DOMAIN updates : i < l /\ l < j => updates[l].state = "RolledBack"
    PROVE  \A j, l \in 1..Len(updates) : j < l =>
             /\ Order(updates[j].state) <= Order(updates[l].state)
             /\ Order(updates[l].state) # 2 \/ Order(updates[j].state) # 2
<1>1. DOMAIN updates = 1..Len(updates) /\ Len(updates) \in Nat /\ \A j \in DOMAIN updates : updates[j].state \in States
  <2>1. updates \in Seq(Updates) /\ DOMAIN updates = 1..Len(updates) /\ Len(updates) \in Nat
    BY UpdatesTyped
  <2>2. \A j \in DOMAIN updates : updates[j] \in Updates
    BY <2>1
  <2> QED
    BY <2>1, <2>2 DEF Updates
<1> SUFFICES ASSUME NEW j \in DOMAIN updates, NEW l \in DOMAIN updates, j < l
             PROVE  /\ Order(updates[j].state) <= Order(updates[l].state)
                    /\ Order(updates[l].state) # 2 \/ Order(updates[j].state) # 2
  BY <1>1
<1>2. CASE j < i
  <2>1. updates[j].state = "Performed"
    BY <1>2
  <2> QED
    BY <1>1, <2>1, OrderOf DEF States
<1>3. CASE j = i
  <2>1. updates[l].state \in {"RolledBack", "New"} /\ updates[j].state \in States
    BY <1>1, <1>3
  <2>2. updates[j].state = "New" => updates[l].state = "New"
    BY <1>3
  <2> QED
    BY <2>1, <2>2, OrderOf DEF States
<1>4. CASE j > i
  <2>1. updates[j].state \in {"RolledBack", "New"} /\ updates[l].state \in {"RolledBack", "New"}
    BY <1>1, <1>4
  <2>2. updates[l].state = "RolledBack" => updates[j].state = "RolledBack"
    BY <1>1, <1>4
  <2> QED
    BY <2>1, <2>2, OrderOf
<1> QED
  BY <1>1, <1>2, <1>3, <1>4

(* The shape of the list is the order that apsnnapps.h:80-89 gives.          *)
LEMMA ShapeHasOrder == TypeInv /\ Shape => ListShape
<1> SUFFICES ASSUME TypeInv, Shape PROVE ListShape
  OBVIOUS
<1> DEFINE InOrderNow == \A j, l \in 1..Len(updates) : j < l =>
                             /\ Order(updates[j].state) <= Order(updates[l].state)
                             /\ Order(updates[l].state) # 2 \/ Order(updates[j].state) # 2
           NoneAtWork == \A i \in 1..Len(updates) : Order(updates[i].state) # 2
<1>1. DOMAIN updates = 1..Len(updates) /\ Len(updates) \in Nat
  BY UpdatesTyped
<1>2. CASE phase \in {"idle", "down"}
  <2>1. Len(updates) = 0
    BY <1>2 DEF Shape
  <2> QED
    BY <1>2, <2>1 DEF ListShape
<1>3. CASE phase = "prepared"
  <2>1. \A i \in DOMAIN updates : updates[i].state = "New"
    BY <1>3 DEF Shape
  <2>2. InOrderNow
    BY <1>1, <2>1, OrderOf
  <2> QED
    BY <1>3, <2>2 DEF ListShape
<1>4. CASE phase = "performing"
  <2>1. \A i \in DOMAIN updates :
           updates[i].state = IF i < at THEN "Performed" ELSE IF i > at THEN "New" ELSE StatePerforming
    BY <1>4, ShapePerforming
  <2>2. at \in 0..Len(updates) + 1 /\ at \in DOMAIN updates
    BY <1>1, <1>4, AtWork DEF Working
  <2>3. StatePerforming # "RolledBack"
    BY DEF StatePerforming
  <2>4. InOrderNow
    <3>1. \A j \in DOMAIN updates : j < at => updates[j].state = "Performed"
      BY <2>1
    <3>2. \A j \in DOMAIN updates : j > at => updates[j].state = "New"
      BY <1>1, <2>1, <2>2
    <3> QED
      BY <2>2, <3>1, <3>2, ListInOrder
  <2> QED
    BY <1>4, <2>4 DEF ListShape
<1>5. CASE phase = "rollingBack"
  <2>1. at \in 0..Len(updates) + 1 /\ at \in DOMAIN updates
    BY <1>1, <1>5, AtWork DEF Working
  <2>2. /\ \A j \in DOMAIN updates : j < at => updates[j].state = "Performed"
        /\ updates[at].state # "New"
        /\ \A j \in DOMAIN updates : j > at => updates[j].state \in {"RolledBack", "New"}
        /\ UndoneAfter(updates, at)
    BY <1>5, <2>1, ShapeRollingBack DEF StatesRollingBack
  <2>3. InOrderNow
    BY <2>1, <2>2, ListInOrder DEF UndoneAfter
  <2> QED
    BY <1>5, <2>3 DEF ListShape
<1>6. CASE phase \in {"closing", "destroying"}
  <2>1. CASE result = "ok"
    <3>1. \A i \in DOMAIN updates : updates[i].state = "Performed"
      BY <1>6, <2>1 DEF Shape, AllPerformed
    <3>2. InOrderNow /\ NoneAtWork
      BY <1>1, <3>1, OrderOf
    <3> QED
      BY <3>2 DEF ListShape
  <2>2. CASE result # "ok"
    <3>1. UndoneAfter(updates, 0)
      BY <1>6, <2>2 DEF Shape
    <3>2. 0 \in 0..Len(updates) + 1 /\ 0 \notin DOMAIN updates /\ \A j \in DOMAIN updates : ~(j < 0) /\ j > 0
      BY <1>1
    <3>3. InOrderNow
      BY <3>1, <3>2, ListInOrder DEF UndoneAfter
    <3>4. \A i \in DOMAIN updates : updates[i].state \in {"RolledBack", "New"}
      BY <3>1, <3>2 DEF UndoneAfter
    <3>5. NoneAtWork
      BY <1>1, <3>4, OrderOf
    <3> QED
      BY <3>3, <3>5 DEF ListShape
  <2> QED
    BY <2>1, <2>2
<1> QED
  BY <1>2, <1>3, <1>4, <1>5, <1>6 DEF TypeInv, TypeOK, Phases

(* The log is faithful.                                                      *)
LEMMA LogRebuilds == LogBased => LogIsFaithful
<1> SUFFICES ASSUME LogBased, Working, \A w \in {"Misnoted", "Unlogged", "Failed"} : ~Window(w),
                    NEW i \in 1..Len(updates)
             PROVE  LET list == Reopened(Replay(log).list) IN
                    IF i > Len(list) THEN updates[i].state = "New"
                    ELSE /\ list[i].state = updates[i].state
                         /\ \A k \in AllKinds : SameDetails(updates[i], updates[i].det[k], list[i].det[k])
  BY DEF LogIsFaithful
<1> DEFINE p == Replay(log)
<1>1. TypeInv /\ Shape /\ FilesInv /\ LogInv
  BY DEF LogBased
<1>2. /\ logFile /\ result # "error" /\ ~(phase = "performing" /\ step = "note")
      /\ \A k \in AllKinds \ {Resource} : ~(updates[i].type = "Register" /\ updates[i].det[k].state = "Real")
  <2>1. logFile
    BY <1>1, WorkingTypes
  <2>2. /\ ~Window("Misnoted") /\ ~Window("Unlogged") /\ ~Window("Failed")
    OBVIOUS
  <2>3. \A k \in AllKinds \ {Resource} : ~(updates[i].type = "Register" /\ updates[i].det[k].state = "Real")
    BY <2>1, <2>2 DEF Window
  <2>4. ~(phase = "performing" /\ step = "note")
    BY <2>2 DEF Window
  <2>5. result # "error"
    BY <2>1, <2>2 DEF Window
  <2> QED
    BY <2>1, <2>3, <2>4, <2>5
<1>3. /\ p.list \in Seq(Updates) /\ DOMAIN p.list = 1..Len(p.list) /\ Len(p.list) \in Nat
      /\ Reopened(p.list) \in Seq(Updates) /\ Len(Reopened(p.list)) = Len(p.list)
      /\ \A j \in DOMAIN p.list :
           /\ Reopened(p.list)[j].state = p.list[j].state
           /\ \A k \in AllKinds : Reopened(p.list)[j].det[k] = Found(j, k, p.list[j].det[k])
  <2>1. p.list \in Seq(Updates) /\ DOMAIN p.list = 1..Len(p.list) /\ Len(p.list) \in Nat
    BY <1>1, LogRead
  <2> HIDE DEF p
  <2> QED
    BY <2>1, ReopenedTyped
<1>4. /\ phase = "performing" => LogPerforming(p)
      /\ phase = "rollingBack" => LogRollingBack(p)
  BY <1>1, <1>2, LogAtWork
<1> HIDE DEF p
<1>5. \A k \in AllKinds : Found(i, k, updates[i].det[k]) = updates[i].det[k]
  <2> SUFFICES ASSUME NEW k \in AllKinds PROVE Found(i, k, updates[i].det[k]) = updates[i].det[k]
    OBVIOUS
  <2> DEFINE d == updates[i].det[k]
  <2>1. AreThere(updates) /\ i \in DOMAIN updates
    BY <1>1, AtWork DEF FilesInv, FilesFit
  <2>2. /\ d.state = "Temporary" => temp[<<i, k>>] # Nothing
        /\ d.state = "Real" => real[d.path] # Nothing
    BY <2>1 DEF AreThere
  <2> HIDE DEF d
  <2>3. Found(i, k, d) = d
    BY <2>2 DEF Found
  <2> QED
    BY <2>3 DEF d
<1>6. CASE i > Len(p.list)
  <2>1. i \in DOMAIN updates /\ DOMAIN updates = 1..Len(updates) /\ at \in 1..Len(updates) /\ Len(updates) \in Nat
    BY <1>1, AtWork
  <2>2. phase = "performing"
    <3>1. phase # "rollingBack"
      BY <1>4, <1>6, <2>1 DEF LogRollingBack
    <3> QED
      BY <3>1 DEF Working
  <2>3. i > at \/ (i = at /\ step = "new")
    BY <1>4, <1>6, <2>1, <2>2 DEF LogPerforming
  <2>4. updates[i].state = IF i < at THEN "Performed" ELSE IF i > at THEN "New" ELSE StatePerforming
    BY <1>1, <2>1, <2>2, ShapePerforming
  <2>5. updates[i].state = "New"
    BY <2>1, <2>3, <2>4 DEF StatePerforming
  <2> QED
    BY <1>3, <1>6, <2>5 DEF p
<1>7. CASE ~(i > Len(p.list))
  <2>1. i \in DOMAIN p.list
    BY <1>3, <1>7
  <2>2. p.list[i].state = updates[i].state
    <3>1. CASE phase = "performing"
      BY <1>4, <2>1, <3>1 DEF LogPerforming, LoggedPerforming, Logged
    <3>2. CASE phase = "rollingBack"
      BY <1>4, <2>1, <3>2 DEF LogRollingBack, LoggedRollingBack, Logged
    <3> QED
      BY <3>1, <3>2 DEF Working
  <2>3. ASSUME NEW k \in AllKinds
        PROVE  SameDetails(updates[i], updates[i].det[k], Found(i, k, p.list[i].det[k]))
    <3>1. CASE phase = "performing"
      <4>1. DonePerforming(i, k, updates[i].det[k], p.list[i].det[k])
        BY <1>4, <2>1, <3>1 DEF LogPerforming, LoggedPerforming
      <4>2. \/ p.list[i].det[k] = updates[i].det[k]
            \/ updates[i].type = "Deregister" /\ updates[i].det[k].state = "Real" /\ p.list[i].det[k] = NoDetails
        BY <1>2, <3>1, <4>1 DEF DonePerforming
      <4> QED
        BY <1>5, <4>2, FoundIs DEF SameDetails
    <3>2. CASE phase = "rollingBack"
      <4>1. DoneRollingBack(i, k, updates[i].det[k], p.list[i].det[k])
        BY <1>4, <2>1, <3>2 DEF LogRollingBack, LoggedRollingBack
      <4> QED
        BY <1>5, <4>1 DEF DoneRollingBack, SameDetails
    <3> QED
      BY <3>1, <3>2 DEF Working
  <2>4. /\ Reopened(p.list)[i].state = updates[i].state
        /\ \A k \in AllKinds : SameDetails(updates[i], updates[i].det[k], Reopened(p.list)[i].det[k])
    BY <1>3, <2>1, <2>2, <2>3
  <2> QED
    BY <1>3, <1>7, <2>4 DEF p
<1> QED
  BY <1>6, <1>7

(* ListShape: at any time the updates performed come first in the list, then *)
(* at most one at work, then those rolled back, then those never begun; and  *)
(* none is at work when the list is destroyed.                               *)
THEOREM ListInShape == ASSUME Sound PROVE Spec => []ListShape
<1>1. LogBased => ListShape
  BY ShapeHasOrder DEF LogBased
<1> QED
  BY <1>1, BasedCorrect, PTL

(* LogIsFaithful: what a recovery would rebuild from the log, were the       *)
(* server to die now, is the list in memory.                                 *)
THEOREM LogFaithful == ASSUME Sound PROVE Spec => []LogIsFaithful
BY LogRebuilds, BasedCorrect, PTL

(* NothingLeftBehind: a batch that no crash interrupted, whatever its        *)
(* outcome, leaves no temporary file behind, as long as files can be deleted *)
(* and restored.                                                             *)
THEOREM NoneLeftBehind == ASSUME Sound PROVE Spec => []NothingLeftBehind
<1>1. LogBased => NothingLeftBehind
  <2> SUFFICES ASSUME LogBased, phase = "idle", crashes = 0, NEW s \in Slots PROVE temp[s] = Nothing
    BY DEF NothingLeftBehind
  <2>1. updates = <<>> /\ TemporariesKnown
    BY DEF LogBased, Shape, FilesInv
  <2> QED
    BY <2>1 DEF TemporariesKnown
<1> QED
  BY <1>1, BasedCorrect, PTL
=============================================================================
