---------------------------- MODULE NonNativeUpdates ---------------------------
(***************************************************************************)
(* Batches of non-native application updates (apserv/apsnnapps.cpp,        *)
(* apserv/apsnnappupdates.cpp): one session's manager, its update list,    *)
(* the update log UpdatedAppsList.bin, and the recovery that replays the   *)
(* log when the server starts again after a crash.  A registration writes  *)
(* temporary files and, at commit, renames them to their real names; a     *)
(* deregistration renames real files to temporary ones and deletes them    *)
(* when the batch is done.  One step is one file operation or one CommitL  *)
(* of the log.                                                             *)
(***************************************************************************)
EXTENDS Integers, Sequences, FiniteSets, SequencesExt

CONSTANTS
    Apps,        \* the applications clients register
    Kinds,       \* the kinds of file of an application, its registration file first
    MaxUpdates,  \* bound on the updates of a batch
    MaxCrashes,  \* bound on the crashes between two batches
    Happens      \* events of Events that may occur in this instance

Windows == {"Misnoted", "Unlogged", "Unperformed", "Failed", "Unended"}
Ignored == {"Undeleted", "Unrestored", "Unreplayed"}  \* failures the code meets and ignores
Events == {"Refused", "Leave", "LogFull", "Crash", "Overwrite", "Bundles"} \cup Windows \cup Ignored

ASSUME KindsAssumption == Kinds \in Seq(STRING) /\ Len(Kinds) > 0 /\ IsInjective(Kinds)
ASSUME BoundsAssumption ==
    MaxUpdates \in Nat /\ MaxCrashes \in Nat /\ Happens \subseteq Events

VARIABLES
    real,     \* real[<<a, k>>]: what a's file of kind k contains, Nothing if there is none
    temp,     \* temp[<<i, k>>]: the temporary file of kind k of the list's i-th update
    logFile,  \* the update log exists
    log,      \* the records in it
    full,     \* the log's drive is full: no record can be committed to it
    phase,    \* what the server is doing
    updates,  \* iUpdateList: updates [type, app, state, det], iUpdateListHead first
    at,       \* the update performed or rolled back, 0 if none
    step,     \* its next step, "none" if there is none
    left,     \* the kinds of its files that are still to be dealt with
    result,   \* of the batch: "open", "ok", "error", "aborted" or "died"
    batch,    \* ghost: the updates asked for since Prepare
    before,   \* ghost: the real files when the batch was committed
    crashes   \* crashes since Prepare

vars == <<real, temp, logFile, log, full, phase, updates, at, step, left, result, batch, before,
          crashes>>
diskVars == <<real, temp>>
logVars == <<logFile, log>>
ghostVars == <<batch, before, crashes>>

Promise == INSTANCE AtomicUpdates WITH
    installed <- IF logFile THEN before ELSE real,
    verdict <- IF logFile \/ phase = "prepared" THEN "open" ELSE result

Nothing == Promise!Nothing
Old == Promise!Old
Resource == Kinds[1]
AllKinds == Range(Kinds)
Names == Apps \X AllKinds
Slots == (1..MaxUpdates) \X AllKinds
NoName == <<>>

Phases == {"idle", "prepared", "performing", "rollingBack", "closing", "destroying", "down"}
States == {"New", "Performing", "Performed", "RollingBack", "RolledBack"}

(* TFileDetails: iState, and iPath (NoName if empty).  iTempPath names the   *)
(* temporary file of the update and kind whenever the state is "Temporary".  *)
Details == [state : {"Null", "Temporary", "Real"}, path : Names \cup {NoName}]
NoDetails == [state |-> "Null", path |-> NoName]

NewUpdate(type, app, kinds) ==
    [type |-> type, app |-> app, state |-> "New",
     det |-> [k \in AllKinds |-> IF k \in kinds
                                 THEN [state |-> "Temporary", path |-> <<app, k>>]
                                 ELSE NoDetails]]

(* What each record of the log says; "section" is an EPerformUpdate or an    *)
(* ERollbackUpdate header.                                                   *)
NewRecord(u) == [r |-> "new", type |-> u.type, app |-> u.app, det |-> u.det]
SectionRecord(what, u) == [r |-> "section", what |-> what, type |-> u.type, app |-> u.app]
StateRecord(s) == [r |-> "state", state |-> s]
EndRecord == [r |-> "end"]
NoteRecord(k, d) == [r |-> "note", kind |-> k, det |-> d]

(* Mutant: no continuation knows its own file.                               *)
NotedResource(u, k) == u.det[Resource]

(* The details a continuation of kind k records: a registration always       *)
(* externalizes iResourceFile, whatever the tag.                             *)
Noted(u, k) == IF u.type = "Register" THEN u.det[Resource] ELSE u.det[k]

-------------------------------------------------------------------------------
(* The steps of an update. *)

Deals == {"new", "section", "find", "move", "undo", "note", "end"}
Steps == Deals \cup (States \ {"New"})

cur == updates[at]

(* The file at work.  Files are dealt with in the order of Kinds; a          *)
(* deregistration moves them in the reverse order.                           *)
Position(k) == CHOOSE i \in 1..Len(Kinds) : Kinds[i] = k

FirstKind(kinds) == CHOOSE k \in kinds : \A l \in kinds : Position(k) <= Position(l)
LastKind(kinds) == CHOOSE k \in kinds : \A l \in kinds : Position(l) <= Position(k)

Kind == IF phase = "performing" /\ cur.type = "Deregister" THEN LastKind(left) ELSE FirstKind(left)

(* The files of kinds come next, then the state that says all is done.       *)
Handle(kinds) ==
    /\ left' = kinds
    /\ step' = IF phase = "performing"
               THEN IF kinds = {} THEN "Performed" ELSE "move"
               ELSE IF kinds = {} THEN "RolledBack" ELSE "undo"

(* Some update holds an exclusive handle on real file n.                     *)
Open(n) == \E i \in 1..Len(updates), k \in AllKinds :
    updates[i].det[k] = [state |-> "Real", path |-> n]

PerformFrom(i) ==
    /\ at' = i
    /\ phase' = IF i > Len(updates) THEN "closing" ELSE "performing"
    /\ step' = IF i > Len(updates) THEN "none" ELSE "new"
    /\ left' = {}
    /\ result' = IF i > Len(updates) THEN "ok" ELSE "open"

(* Mutant: the update that left is not rolled back.                          *)
RollBackFromPrevious(i) ==
    /\ at' = i - 1
    /\ phase' = IF i <= 1 THEN "closing" ELSE "rollingBack"
    /\ step' = IF i <= 1 THEN "none" ELSE "section"
    /\ left' = {}

RollBackFrom(i) ==
    /\ at' = i
    /\ phase' = IF i = 0 THEN "closing" ELSE "rollingBack"
    /\ step' = IF i = 0 THEN "none" ELSE "section"
    /\ left' = {}

(* Mutant: the same, in ExecuteL's handler.                                  *)
FailsSkipping ==
    /\ RollBackFrom(at - 1)
    /\ result' = "error"

(* ExecuteL's handler: the update that left is rolled back first.            *)
Fails ==
    /\ RollBackFrom(at)
    /\ result' = "error"

-------------------------------------------------------------------------------
Init ==
    /\ real \in {f \in [Names -> {Nothing, Old}] :
                    \A n \in Names : f[n] # Nothing => f[<<n[1], Resource>>] # Nothing}
    /\ temp = [s \in Slots |-> Nothing]
    /\ logFile = FALSE /\ log = <<>> /\ full = FALSE
    /\ phase = "idle" /\ updates = <<>> /\ at = 0 /\ step = "none" /\ left = {} /\ result = "aborted"
    /\ batch = <<>> /\ before = real /\ crashes = 0

(* PrepareNonNativeApplicationsUpdatesL.  Temporary files left behind by     *)
(* earlier batches keep names no later one uses and are forgotten here.      *)
Prepare ==
    /\ phase = "idle"
    /\ phase' = "prepared"
    /\ result' = "open"
    /\ batch' = <<>> /\ crashes' = 0
    /\ temp' = [s \in Slots |-> Nothing]
    /\ UNCHANGED <<real, logVars, full, updates, at, step, left, before>>

Asked(type, a, kinds) ==
    /\ phase = "prepared" /\ Len(updates) < MaxUpdates
    /\ updates' = Append(updates, NewUpdate(type, a, IF type = "Register" THEN kinds ELSE {}))
    /\ batch' = Append(batch, [type |-> type, app |-> a, kinds |-> kinds])
    /\ UNCHANGED <<real, logVars, full, phase, at, step, left, result, before, crashes>>

(* The registration would replace a file that is there already and that no   *)
(* deregistration of this batch moves away first.                            *)
Overwrites(a, kinds) ==
    /\ \E k \in kinds : real[<<a, k>>] # Nothing
    /\ \A i \in 1..Len(batch) : batch[i].type = "Deregister" => batch[i].app # a

(* The kinds of file a registration may bring: each only with those before. *)
Bundles ==
    {Range(SubSeq(Kinds, 1, n)) : n \in IF "Bundles" \in Happens THEN 1..Len(Kinds) ELSE {1}}

(* RegisterNonNativeApplicationL: the temporary files are written.           *)
Register(a, kinds) ==
    /\ "Overwrite" \in Happens \/ ~Overwrites(a, kinds)
    /\ Asked("Register", a, kinds)
    /\ temp' = [s \in Slots |-> IF s[1] = Len(updates) + 1 /\ s[2] \in kinds
                                THEN Len(updates) + 1 ELSE temp[s]]

Deregister(a) ==
    /\ Asked("Deregister", a, {})
    /\ UNCHANGED temp

(* Mutant: a registration that was not performed keeps its temporary files.  *)
DropsDeregistered(list, s) ==
    /\ s[1] \in 1..Len(list)
    /\ list[s[1]].det[s[2]].state = "Temporary"
    /\ list[s[1]].state = "Performed" /\ list[s[1]].type = "Deregister"

(* The updates' destructors: a registration that was not performed deletes   *)
(* the files it still has, a deregistration that was performed deletes its   *)
(* temporary ones.  A file that cannot be deleted is left where it is.       *)
Drops(list, s) ==
    /\ s[1] \in 1..Len(list)
    /\ list[s[1]].det[s[2]].state = "Temporary"
    /\ list[s[1]].state = "Performed" <=> list[s[1]].type = "Deregister"

Withdraws(list, n) == \E i \in 1..Len(list), k \in AllKinds :
    /\ list[i].type = "Register" /\ list[i].state # "Performed"
    /\ list[i].det[k] = [state |-> "Real", path |-> n]

Stuck(list) ==
    IF "Undeleted" \in Happens
    THEN SUBSET ({s \in Slots : Drops(list, s)} \cup {n \in Names : Withdraws(list, n)})
    ELSE {{}}

DestroyList(list) ==
    /\ \E stuck \in Stuck(list) :
         /\ temp' = [s \in Slots |-> IF Drops(list, s) /\ s \notin stuck THEN Nothing ELSE temp[s]]
         /\ real' = [n \in Names |-> IF Withdraws(list, n) /\ n \notin stuck THEN Nothing ELSE real[n]]
    /\ updates' = <<>>
    /\ phase' = "idle"

(* AbortNonNativeApplicationsUpdates: the client rolls back or closes its    *)
(* session, or a registration leaves.                                        *)
Abort ==
    /\ phase = "prepared"
    /\ DestroyList(updates)
    /\ result' = "aborted"
    /\ UNCHANGED <<logVars, full, at, step, left, ghostVars>>

(* CommitNonNativeApplicationsUpdatesL, to the first update of ExecuteL.     *)
Commit ==
    /\ phase = "prepared"
    /\ logFile' = TRUE /\ log' = <<>>
    /\ PerformFrom(1)
    /\ before' = real
    /\ UNCHANGED <<diskVars, full, updates, batch, crashes>>

(* The log cannot be opened.                                                 *)
CommitRefused ==
    /\ "Refused" \in Happens
    /\ phase = "prepared"
    /\ phase' = "destroying"
    /\ result' = "error"
    /\ UNCHANGED <<diskVars, logVars, full, updates, at, step, left, ghostVars>>

-------------------------------------------------------------------------------
(* Performing and rolling back. *)

Working == phase \in {"performing", "rollingBack"}

Logs(record) ==
    /\ Working /\ ~full
    /\ log' = Append(log, record)
    /\ UNCHANGED <<diskVars, logFile, full, ghostVars>>

Goes(next) == step' = next /\ UNCHANGED <<phase, at, left, result>>

WriteNew ==
    /\ step = "new"
    /\ Logs(NewRecord(cur))
    /\ Goes("section") /\ UNCHANGED updates

WriteSection ==
    /\ step = "section"
    /\ IF phase = "performing"
       THEN Logs(SectionRecord("perform", cur)) /\ Goes("Performing")
       ELSE Logs(SectionRecord("rollback", cur)) /\ Goes("RollingBack")
    /\ UNCHANGED updates

InState(s) == [updates EXCEPT ![at].state = s]

(* What comes after a change of state; a deregistration finds out only then  *)
(* which files it has.                                                       *)
Begin ==
    CASE step = "Performing" ->
            IF cur.type = "Deregister" THEN Goes("find")
            ELSE Handle({k \in AllKinds : cur.det[k].path # NoName}) /\ UNCHANGED <<phase, at, result>>
      [] step = "RollingBack" -> Handle(AllKinds) /\ UNCHANGED <<phase, at, result>>
      [] OTHER -> Goes("end")

(* StateChangeL *)
StateChange ==
    /\ step \in States
    /\ Logs(StateRecord(step))
    /\ updates' = InState(step)
    /\ Begin

(* ExternalizeContinuationL *)
Continuation ==
    /\ step = "note"
    /\ Logs(NoteRecord(Kind, Noted(cur, Kind)))
    /\ Handle(left \ {Kind})
    /\ UNCHANGED <<phase, updates, at, result>>

EndOfUpdate ==
    /\ step = "end"
    /\ Logs(EndRecord)
    /\ \/ phase = "performing" /\ PerformFrom(at + 1)
       \/ phase = "rollingBack" /\ RollBackFrom(at - 1) /\ UNCHANGED result
    /\ UNCHANGED updates

(* FindAppDataLC: an application is found by its registration file.          *)
FilesOf(a) ==
    {k \in AllKinds : real[<<a, Resource>>] # Nothing /\ real[<<a, k>>] # Nothing}

(* The opening of the files found.  No application: nothing is to be done.   *)
Find ==
    /\ phase = "performing" /\ step = "find"
    /\ LET found == FilesOf(cur.app)
       IN  IF \E k \in found : Open(<<cur.app, k>>)
           THEN Fails /\ UNCHANGED updates
           ELSE /\ updates' = [updates EXCEPT ![at].det =
                    [k \in AllKinds |-> IF k \in found
                                        THEN [state |-> "Real", path |-> <<cur.app, k>>]
                                        ELSE NoDetails]]
                /\ Handle(found)
                /\ UNCHANGED <<phase, at, result>>
    /\ UNCHANGED <<diskVars, logVars, full, ghostVars>>

(* TFileDetails::RenameToRealL: whatever has the real name is deleted, which *)
(* fails while another update holds it open.                                 *)
RenameToReal ==
    /\ phase = "performing" /\ step = "move" /\ cur.type = "Register"
    /\ LET n == cur.det[Kind].path IN
       IF Open(n)
       THEN Fails /\ UNCHANGED <<diskVars, updates>>
       ELSE /\ real' = [real EXCEPT ![n] = temp[<<at, Kind>>]]
            /\ temp' = [temp EXCEPT ![<<at, Kind>>] = Nothing]
            /\ updates' = [updates EXCEPT ![at].det[Kind].state = "Real"]
            /\ Goes("note")
    /\ UNCHANGED <<logVars, full, ghostVars>>

RenameToTemporary ==
    /\ phase = "performing" /\ step = "move" /\ cur.type = "Deregister"
    /\ LET n == cur.det[Kind].path IN
       /\ temp' = [temp EXCEPT ![<<at, Kind>>] = real[n]]
       /\ real' = [real EXCEPT ![n] = Nothing]
    /\ updates' = [updates EXCEPT ![at].det[Kind].state = "Temporary"]
    /\ Goes("note")
    /\ UNCHANGED <<logVars, full, ghostVars>>

(* DoPerformUpdateL leaves, for want of memory or because a file operation   *)
(* fails; the last allocation comes after the last continuation.             *)
PerformLeaves ==
    /\ "Leave" \in Happens
    /\ phase = "performing" /\ step \in {"find", "move", "Performed"}
    /\ Fails
    /\ UNCHANGED <<diskVars, logVars, full, updates, ghostVars>>

(* TFileDetails::Delete, for a registration.                                 *)
Delete ==
    /\ phase = "rollingBack" /\ step = "undo" /\ cur.type = "Register"
    /\ LET d == cur.det[Kind] IN
       /\ real' = IF d.state = "Real" THEN [real EXCEPT ![d.path] = Nothing] ELSE real
       /\ temp' = IF d.state = "Temporary" THEN [temp EXCEPT ![<<at, Kind>>] = Nothing] ELSE temp
    /\ updates' = [updates EXCEPT ![at].det[Kind] = NoDetails]
    /\ Goes("note")
    /\ UNCHANGED <<logVars, full, ghostVars>>

(* ... when aFs.Delete fails: the error is ignored, and the file forgotten.  *)
DeleteFails ==
    /\ "Undeleted" \in Happens
    /\ phase = "rollingBack" /\ step = "undo" /\ cur.type = "Register"
    /\ cur.det[Kind].state # "Null"
    /\ updates' = [updates EXCEPT ![at].det[Kind] = NoDetails]
    /\ Goes("note")
    /\ UNCHANGED <<diskVars, logVars, full, ghostVars>>

(* TFileDetails::RestoreReal, for a deregistration.                          *)
RestoreReal ==
    /\ phase = "rollingBack" /\ step = "undo" /\ cur.type = "Deregister"
    /\ LET d == cur.det[Kind]
           back == d.state = "Temporary" /\ ~Open(d.path)
       IN  /\ real' = IF back THEN [real EXCEPT ![d.path] = temp[<<at, Kind>>]] ELSE real
           /\ temp' = IF back THEN [temp EXCEPT ![<<at, Kind>>] = Nothing] ELSE temp
    /\ updates' = [updates EXCEPT ![at].det[Kind] = NoDetails]
    /\ Goes("note")
    /\ UNCHANGED <<logVars, full, ghostVars>>

(* ... when RenameToReal fails otherwise, before or after it has deleted what *)
(* has the real name: the error is ignored, and the temporary file forgotten. *)
RestoreRealFails ==
    /\ "Unrestored" \in Happens
    /\ phase = "rollingBack" /\ step = "undo" /\ cur.type = "Deregister"
    /\ LET d == cur.det[Kind] IN
       /\ d.state = "Temporary" /\ ~Open(d.path)
       /\ real' \in {real, [real EXCEPT ![d.path] = Nothing]}
    /\ updates' = [updates EXCEPT ![at].det[Kind] = NoDetails]
    /\ Goes("note")
    /\ UNCHANGED <<temp, logVars, full, ghostVars>>

FillUp ==
    /\ "LogFull" \in Happens
    /\ Working /\ ~full
    /\ full' = TRUE
    /\ UNCHANGED <<diskVars, logVars, phase, updates, at, step, left, result, ghostVars>>

(* Mutant: a rollback that leaves is tried again.                            *)
LogWriteFailsRetries ==
    /\ Working /\ full
    /\ step \in {"new", "section", "note", "end"} \cup States
    /\ updates' = IF step \in States THEN InState(step) ELSE updates
    /\ \/ phase = "performing" /\ Fails
       \/ phase = "rollingBack" /\ step = "note" /\ Handle(left \ {Kind})
                                /\ UNCHANGED <<phase, at, result>>
       \/ phase = "rollingBack" /\ step # "note" /\ RollBackFrom(at) /\ UNCHANGED result
    /\ UNCHANGED <<diskVars, logVars, full, ghostVars>>

(* A record that cannot be committed: PerformUpdateL leaves; RollbackUpdateL *)
(* ignores a lost continuation, leaves otherwise, and its leave is trapped.  *)
(* StateChangeL has set the state by then.                                   *)
LogWriteFails ==
    /\ Working /\ full
    /\ step \in {"new", "section", "note", "end"} \cup States
    /\ updates' = IF step \in States THEN InState(step) ELSE updates
    /\ \/ phase = "performing" /\ Fails
       \/ phase = "rollingBack" /\ step = "note" /\ Handle(left \ {Kind})
                                /\ UNCHANGED <<phase, at, result>>
       \/ phase = "rollingBack" /\ step # "note" /\ RollBackFrom(at - 1) /\ UNCHANGED result
    /\ UNCHANGED <<diskVars, logVars, full, ghostVars>>

(* RApsUpdateLog::Close deletes the log, which is taken to succeed.          *)
CloseLog ==
    /\ phase = "closing"
    /\ logFile' = FALSE /\ log' = <<>>
    /\ phase' = "destroying"
    /\ UNCHANGED <<diskVars, full, updates, at, step, left, result, ghostVars>>

Destroy ==
    /\ phase = "destroying"
    /\ DestroyList(updates)
    /\ at' = 0 /\ full' = FALSE
    /\ UNCHANGED <<logVars, step, left, result, ghostVars>>

-------------------------------------------------------------------------------
(* Crash and recovery. *)

(* Moments at which the log does not let a recovery restore what there was.  *)
(* Misnoted: a second file of a registration is in place, and the log has    *)
(* the name of the first for it.                                             *)
(* Unlogged: a file has been moved and the log does not say so yet.          *)
(* Unperformed: the last update logged is new; a rollback section of an      *)
(* update before it will be taken for one of its own, and never be read.     *)
(* Failed: an update has left, its section has no EEndOfUpdate, and none of  *)
(* the rollback records after it is ever read.                               *)
(* Unended: an update is rolled back but has no EEndOfUpdate.                *)
Window(w) ==
    CASE w = "Misnoted" -> logFile /\ \E i \in 1..Len(updates), k \in AllKinds \ {Resource} :
            updates[i].type = "Register" /\ updates[i].det[k].state = "Real"
      [] w = "Unlogged" -> phase = "performing" /\ step = "note"
      [] w = "Unperformed" -> phase = "performing" /\ step \in {"section", "Performing"}
      [] w = "Failed" -> logFile /\ result = "error"
      [] w = "Unended" -> phase = "rollingBack" /\ step = "end"

(* The server panics or the device loses power.  A record cut short is       *)
(* truncated by the recovery, so a crash during a CommitL is one before it.  *)
Crash ==
    /\ "Crash" \in Happens /\ crashes < MaxCrashes
    /\ phase \notin {"idle", "down"}
    /\ \A w \in Windows \ Happens : ~Window(w)
    /\ phase' = "down"
    /\ updates' = <<>> /\ at' = 0 /\ step' = "none" /\ left' = {}
    /\ result' = "died"
    /\ crashes' = crashes + 1
    /\ UNCHANGED <<diskVars, logVars, full, batch, before>>

(* Replaying the log: the list so far, iLogReplayCurrentUpdate (0: NULL),    *)
(* the section being read, whether reading goes on, the length up to the     *)
(* last stopping point, and iEEndOfUpdateRequiredToFixLog.                   *)
Start == [list |-> <<>>, cur |-> 0, section |-> "none", reading |-> TRUE,
          length |-> 0, fix |-> FALSE]

Corrupt(p) == [p EXCEPT !.reading = FALSE]

(* InternalizeNewUpdateL *)
ReadNew(p, rec) ==
    IF p.cur # 0 /\ (p.list[p.cur].state # "Performed" \/ p.cur # Len(p.list))
    THEN Corrupt(p)
    ELSE [p EXCEPT !.list = Append(@, [type |-> rec.type, app |-> rec.app,
                                       state |-> "New", det |-> rec.det]),
                   !.cur = Len(p.list) + 1,
                   !.length = @ + 1]

(* InternalizePerformUpdateL and InternalizeRollbackUpdateL, their headers.  *)
ReadSection(p, rec) ==
    LET q == [p EXCEPT !.length = @ + 1, !.fix = TRUE]
        allowed == IF rec.what = "perform" THEN {"New"}
                   ELSE {"Performing", "Performed", "RollingBack"}
    IN  IF \/ p.cur = 0
           \/ p.list[p.cur].state \notin allowed
           \/ <<p.list[p.cur].type, p.list[p.cur].app>> # <<rec.type, rec.app>>
        THEN Corrupt(q)
        ELSE [q EXCEPT !.section = rec.what]

(* Mutant: an update whose rollback has ended stays current.                 *)
ReadInSectionStays(p, rec) ==
    LET q == [p EXCEPT !.length = @ + 1] IN
    CASE rec.r = "state" -> [q EXCEPT !.list[p.cur].state = rec.state]
      [] rec.r = "note" -> [q EXCEPT !.list[p.cur].det[rec.kind] = rec.det]
      [] rec.r = "end" -> [q EXCEPT !.section = "none", !.fix = FALSE]
      [] OTHER -> Corrupt(p)

(* SharedInternalizeLoopL *)
ReadInSection(p, rec) ==
    LET q == [p EXCEPT !.length = @ + 1] IN
    CASE rec.r = "state" -> [q EXCEPT !.list[p.cur].state = rec.state]
      [] rec.r = "note" -> [q EXCEPT !.list[p.cur].det[rec.kind] = rec.det]
      [] rec.r = "end" ->
            [q EXCEPT !.section = "none", !.fix = FALSE,
                      !.cur = IF p.section = "rollback" /\ p.list[p.cur].state = "RolledBack"
                              THEN p.cur - 1 ELSE p.cur]
      [] OTHER -> Corrupt(p)

ReadRecord(p, rec) ==
    IF ~p.reading THEN p
    ELSE IF p.section # "none" THEN ReadInSection(p, rec)
    ELSE IF rec.r = "new" THEN ReadNew(p, rec)
    ELSE IF rec.r = "section" THEN ReadSection(p, rec)
    ELSE Corrupt(p)

(* InternalizeL, up to the opening of the files.  The choice is ReadRecord   *)
(* of what came before: bound, TLC evaluates that once.                      *)
Replay(records) ==
    LET after[n \in 0..Len(records)] ==
            IF n = 0 THEN Start
            ELSE CHOOSE q \in {ReadRecord(p, records[n]) : p \in {after[n - 1]}} : TRUE
    IN  after[Len(records)]

(* TFileDetails::PostInternalizeL: a file that is not where the log says is  *)
(* taken for handled.                                                        *)
Found(i, k, d) ==
    IF \/ d.state = "Temporary" /\ temp[<<i, k>>] = Nothing
       \/ d.state = "Real" /\ real[d.path] = Nothing
    THEN NoDetails ELSE d

Reopened(list) ==
    [i \in 1..Len(list) |->
        [list[i] EXCEPT !.det = [k \in AllKinds |-> Found(i, k, list[i].det[k])]]]

(* Every file is opened for exclusive use, so no two details may name one.   *)
Openable(list) ==
    \A i, j \in 1..Len(list), k, l \in AllKinds :
        /\ list[i].det[k].state = "Real"
        /\ list[i].det[k] = list[j].det[l]
        => i = j /\ k = l

(* Recovery leaves: its list is destroyed, the log is deleted.               *)
Abandon(list) ==
    /\ DestroyList(list)
    /\ logFile' = FALSE /\ log' = <<>>
    /\ at' = 0 /\ step' = "none" /\ left' = {} /\ full' = FALSE

(* RecoverFromUpdateLogL.  If the log is there but cannot be opened, the     *)
(* server does not start, and all stays as it is until it does.              *)
Recover ==
    /\ phase = "down" /\ logFile
    /\ \E p \in {Replay(log)} :
       LET list == Reopened(p.list)
           tail == IF p.fix THEN <<EndRecord>> ELSE <<>>
       IN  IF \/ ~Openable(list)
              \/ p.fix /\ full
              \/ p.cur # 0 /\ p.list[p.cur].state = "RolledBack"
           THEN Abandon(list)
           ELSE /\ log' = SubSeq(log, 1, p.length) \o tail
                /\ updates' = list
                /\ RollBackFrom(IF p.cur # 0 /\ p.list[p.cur].state = "New"
                                THEN p.cur - 1 ELSE p.cur)
                /\ UNCHANGED <<diskVars, logFile, full>>
    /\ UNCHANGED <<result, ghostVars>>

(* It leaves when memory runs out while it reads the log, or when the log    *)
(* cannot be cut to length: the updates read so far are destroyed.           *)
RecoverFails ==
    /\ "Unreplayed" \in Happens
    /\ phase = "down" /\ logFile
    /\ \E n \in 0..Len(log) : Abandon(Replay(SubSeq(log, 1, n)).list)
    /\ UNCHANGED <<result, ghostVars>>

(* The server starts and finds no log.                                       *)
StartUp ==
    /\ phase = "down" /\ ~logFile
    /\ phase' = "idle"
    /\ full' = FALSE
    /\ UNCHANGED <<diskVars, logVars, updates, at, step, left, result, ghostVars>>

-------------------------------------------------------------------------------
Client ==
    \/ Prepare
    \/ \E a \in Apps, kinds \in Bundles : Register(a, kinds)
    \/ \E a \in Apps : Deregister(a)
    \/ Abort
    \/ Commit
    \/ CommitRefused

Server ==
    \/ WriteNew
    \/ WriteSection
    \/ StateChange
    \/ Continuation
    \/ EndOfUpdate
    \/ Find
    \/ RenameToReal
    \/ RenameToTemporary
    \/ PerformLeaves
    \/ Delete
    \/ DeleteFails
    \/ RestoreReal
    \/ RestoreRealFails
    \/ LogWriteFails
    \/ CloseLog
    \/ Destroy
    \/ Recover
    \/ RecoverFails
    \/ StartUp

Next == Client \/ Server \/ FillUp \/ Crash

Spec == Init /\ [][Next]_vars /\ WF_vars(Server)

-------------------------------------------------------------------------------
Contents == {Nothing, Old} \cup 1..MaxUpdates

TypeOK ==
    /\ real \in [Names -> Contents] /\ before \in [Names -> Contents]
    /\ temp \in [Slots -> Contents]
    /\ logFile \in BOOLEAN /\ full \in BOOLEAN
    /\ phase \in Phases
    /\ updates \in Seq([type : {"Register", "Deregister"}, app : Apps, state : States,
                        det : [AllKinds -> Details]])
    /\ Len(updates) <= MaxUpdates
    /\ at \in 0..MaxUpdates + 1
    /\ step \in Steps \cup {"none"} /\ left \subseteq AllKinds
    /\ result \in Promise!Verdicts
    /\ crashes \in 0..MaxCrashes
    /\ phase \in {"performing", "rollingBack", "closing"} => logFile
    /\ logFile => phase \in {"performing", "rollingBack", "closing", "down"}

(* The list has one of the shapes apsnnapps.h:80-89 allows: performed        *)
(* updates, then the one at work, then those rolled back, then new ones; and *)
(* none is at work when the list is destroyed.                               *)
Order(s) == CASE s = "Performed" -> 1
              [] s \in {"Performing", "RollingBack"} -> 2
              [] s = "RolledBack" -> 3
              [] s = "New" -> 4

ListShape ==
    /\ \A i, j \in 1..Len(updates) : i < j =>
        /\ Order(updates[i].state) <= Order(updates[j].state)
        /\ Order(updates[j].state) # 2 \/ Order(updates[i].state) # 2
    /\ phase = "destroying" => \A i \in 1..Len(updates) : Order(updates[i].state) # 2

(* Outside the windows that Crash names, what a recovery would rebuild from  *)
(* the log is the list in memory: each update's state, and where each of its *)
(* files is.  A file that a deregistration has opened and not moved is in no *)
(* log.                                                                      *)
SameDetails(u, d, dLogged) ==
    \/ dLogged = d
    \/ u.type = "Deregister" /\ dLogged = NoDetails /\ d.state = "Real"

LogIsFaithful ==
    (Working /\ ~full /\ \A w \in {"Misnoted", "Unlogged", "Failed"} : ~Window(w)) =>
        LET list == Reopened(Replay(log).list) IN
        \A i \in 1..Len(updates) :
            IF i > Len(list) THEN updates[i].state = "New"
            ELSE /\ list[i].state = updates[i].state
                 /\ \A k \in AllKinds : SameDetails(updates[i], updates[i].det[k], list[i].det[k])

(* A batch that no crash interrupted leaves no temporary file behind, if     *)
(* files can be deleted and moved back.                                      *)
NothingLeftBehind ==
    phase = "idle" /\ crashes = 0 => \A s \in Slots : temp[s] = Nothing

(* The whole: all or nothing, whichever step of an update fails and whenever *)
(* the server dies outside Windows, and the client is never told the         *)
(* opposite; as long as a rollback's deletions and renames succeed, and a    *)
(* recovery has memory (Ignored).                                            *)
KeepsPromise == Promise!Spec

(* Once a batch is being committed the server becomes idle again, whatever   *)
(* of all this fails or is interrupted.                                      *)
Settles == phase \notin {"idle", "prepared"} ~> phase = "idle"
================================================================================
