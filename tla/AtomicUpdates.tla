----------------------------- MODULE AtomicUpdates -----------------------------
(***************************************************************************)
(* What a batch of non-native application updates promises: it is          *)
(* "performed as one transaction" (apserv/apsnnapps.h:74).  The batch is   *)
(* installed in one step or not at all, and the client is never told the   *)
(* opposite.  NonNativeUpdates, with its files, log and crashes,           *)
(* implements this.                                                        *)
(***************************************************************************)
EXTENDS Integers, Sequences, SequencesExt

CONSTANTS
    Apps,   \* the applications clients register
    Kinds   \* the kinds of file of an application, its registration file first

VARIABLES
    installed,  \* installed[<<a, k>>]: a's file of kind k; Nothing if there is none
    batch,      \* the updates asked for since Prepare
    verdict     \* "open" until the batch is settled, then what became of it

atomicVars == <<installed, batch, verdict>>

Nothing == 0
Old == -1
Resource == Kinds[1]
Names == {<<a, Kinds[k]>> : a \in Apps, k \in 1..Len(Kinds)}
Verdicts == {"open", "ok", "error", "aborted", "died"}

(* An update is [type, app, kinds]; kinds matter to a registration only.  A  *)
(* file that the i-th update of a batch writes has content i.                *)
Installs(files, update, i) ==
    [n \in DOMAIN files |->
        IF n[1] # update.app THEN files[n]
        ELSE IF update.type = "Deregister"
             THEN IF files[<<n[1], Resource>>] = Nothing THEN files[n] ELSE Nothing
        ELSE IF n[2] \in update.kinds THEN i ELSE files[n]]

Effect(files, updates) ==
    LET after[i \in 0..Len(updates)] ==
            IF i = 0 THEN files ELSE Installs(after[i - 1], updates[i], i)
    IN  after[Len(updates)]

Init ==
    /\ installed \in [Names -> {Nothing, Old}]
    /\ batch = <<>>
    /\ verdict = "aborted"

Prepare ==
    /\ verdict # "open"
    /\ verdict' = "open"
    /\ batch' = <<>>
    /\ UNCHANGED installed

Ask(update) ==
    /\ verdict = "open"
    /\ batch' = Append(batch, update)
    /\ UNCHANGED <<installed, verdict>>

Commit ==
    /\ verdict = "open"
    /\ verdict' = "ok"
    /\ installed' = Effect(installed, batch)
    /\ UNCHANGED batch

Fail ==
    /\ verdict = "open"
    /\ verdict' \in {"error", "aborted", "died"}
    /\ UNCHANGED <<installed, batch>>

(* The server dies after the batch is settled, before it has answered.       *)
Die ==
    /\ verdict # "open"
    /\ verdict' = "died"
    /\ UNCHANGED <<installed, batch>>

Requests == [type : {"Register", "Deregister"}, app : Apps, kinds : SUBSET Range(Kinds)]

Next ==
    \/ Prepare
    \/ \E update \in Requests : Ask(update)
    \/ Commit
    \/ Fail
    \/ Die

Spec == Init /\ [][Next]_atomicVars
================================================================================
