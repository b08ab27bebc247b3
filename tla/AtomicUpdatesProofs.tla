----------------------------- MODULE AtomicUpdatesProofs ----------------------------
(***************************************************************************)
(* NonNativeUpdates implements AtomicUpdates: a batch is installed as a    *)
(* whole or not at all, as long as every record can be committed, no crash *)
(* comes in a window in which the log is behind the files, a rollback can  *)
(* delete and rename files, a recovery can read the log, and no            *)
(* registration replaces files that no update of the batch has moved away. *)
(***************************************************************************)
EXTENDS NonNativeUpdatesProofs


-------------------------------------------------------------------------------
(* The files, against those there were when the batch was committed. *)

NoOverwrite == "Overwrite" \notin Happens

(* The real files before the batch.                                          *)
Base == IF logFile THEN before ELSE real

Positions == 1..MaxUpdates

(* The i-th update of the list has its file of kind n[2] in place as n; the  *)
(* i-th update has moved n away.                                             *)
Placed(i, n) ==
    /\ i \in DOMAIN List
    /\ List[i].type = "Register" /\ List[i].app = n[1] /\ List[i].det[n[2]].state = "Real"
Moved(i, n) ==
    /\ i \in DOMAIN List
    /\ List[i].type = "Deregister" /\ List[i].app = n[1] /\ List[i].det[n[2]].state = "Temporary"

IsPlaced(n) == \E i \in Positions : Placed(i, n)
IsMoved(n) == \E i \in Positions : Moved(i, n)

PlacedKnown == \A n \in Names, i \in Positions : Placed(i, n) => real[n] = i

MovedKnown ==
    \A n \in Names, i \in Positions :
        Moved(i, n) => /\ temp[<<i, n[2]>>] = before[n]
                       /\ \A j \in Positions : Moved(j, n) => j = i

NamesKnown ==
    \A n \in Names :
        /\ IsMoved(n) => real[n] = Nothing \/ IsPlaced(n)
        /\ IsPlaced(n) => before[n] = Nothing \/ IsMoved(n)
        /\ ~IsPlaced(n) /\ ~IsMoved(n) => real[n] = before[n]

FilesKnown == logFile => PlacedKnown /\ MovedKnown /\ NamesKnown

(* The temporary files of a registration are its own.                        *)
TemporariesOwn ==
    \A i \in Positions, k \in AllKinds :
        /\ i \in DOMAIN List /\ List[i].type = "Register" /\ List[i].det[k].state = "Temporary"
        => temp[<<i, k>>] = i

(* The batch asked for is the list.                                          *)
BatchKnown ==
    /\ batch \in Seq(Promise!Requests)
    /\ \A i \in DOMAIN batch : batch[i].type = "Register" => Resource \in batch[i].kinds
    /\ phase \in {"prepared", "performing"} =>
         /\ Len(batch) = Len(updates)
         /\ \A i \in DOMAIN batch :
              /\ batch[i].type = updates[i].type /\ batch[i].app = updates[i].app
              /\ updates[i].type = "Register" =>
                   \A k \in AllKinds : updates[i].det[k].path # NoName <=> k \in batch[i].kinds

(* No application has files and no registration file.                        *)
Led(files) == \A n \in Names : files[n] # Nothing => files[<<n[1], Resource>>] # Nothing

ResourceFirst == Led(Base)

(* A registration of the batch replaces no file but one moved away before.   *)
NoneReplaced ==
    phase \in {"prepared", "performing"} =>
      \A j \in DOMAIN batch : batch[j].type = "Register" =>
        \/ \A k \in batch[j].kinds : Base[<<batch[j].app, k>>] = Nothing
        \/ \E i \in DOMAIN batch : i < j /\ batch[i].type = "Deregister" /\ batch[i].app = batch[j].app

BatchInv == BatchKnown /\ ResourceFirst /\ NoneReplaced

(* The deregistrations that are done with a file of kind k.                  *)
DoneWith(i, k) ==
    /\ updates[i].type = "Deregister"
    /\ \/ i < at
       \/ i = at /\ step \in {"move", "note", "Performed", "end"} /\ k \notin Pending

(* They have moved away what there was.                                      *)
MovedAway ==
    phase = "performing" =>
      \A i \in DOMAIN updates, k \in AllKinds :
        DoneWith(i, k) => before[<<updates[i].app, k>>] = Nothing \/ IsMoved(<<updates[i].app, k>>)

(* What the first i updates of the batch install.                            *)
After(i) == Promise!Effect(before, SubSeq(batch, 1, i))

(* The files of the update at work come from what the updates before it      *)
(* installed to what it installs.                                            *)
Advances ==
    /\ \A n \in Names :
         real[n] = IF n[1] = cur.app /\ n[2] \in Pending THEN After(at - 1)[n] ELSE After(at)[n]
    /\ cur.type = "Deregister" /\ Pending # {} => After(at - 1)[<<cur.app, Resource>>] # Nothing

Forward ==
    /\ phase = "performing" =>
         IF step \in {"move", "note", "Performed", "end"} THEN Advances ELSE real = After(at - 1)
    /\ phase = "closing" /\ result = "ok" => real = Promise!Effect(before, batch)

PromiseInv == FilesKnown /\ TemporariesOwn /\ BatchInv /\ MovedAway /\ Forward

-------------------------------------------------------------------------------
(* What a batch installs, update by update. *)

StepsOf(g, files, asked, m) ==
    g = [i \in 0..m |-> IF i = 0 THEN files ELSE Promise!Installs(g[i - 1], asked[i], i)]

(* A function that starts with the files and installs one update after the   *)
(* other is the one Effect picks.                                            *)
LEMMA StepsAre ==
    ASSUME NEW g, NEW files, NEW asked, NEW m \in Nat
    PROVE  StepsOf(g, files, asked, m)
           <=> /\ FunctionUpTo(g, m)
               /\ g[0] = files
               /\ \A i \in 1..m : g[i] = Promise!Installs(g[i - 1], asked[i], i)
<1> DEFINE body(i) == IF i = 0 THEN files ELSE Promise!Installs(g[i - 1], asked[i], i)
<1>1. body(0) = files
  OBVIOUS
<1>2. \A i \in 1..m : body(i) = Promise!Installs(g[i - 1], asked[i], i)
  OBVIOUS
<1>3. StepsOf(g, files, asked, m) <=> g = [i \in 0..m |-> body(i)]
  BY DEF StepsOf
<1> HIDE DEF body
<1>4. g = [i \in 0..m |-> body(i)] <=> FunctionUpTo(g, m) /\ \A i \in 0..m : g[i] = body(i)
  BY DEF FunctionUpTo
<1>5. \A i \in 0..m : i = 0 \/ i \in 1..m
  OBVIOUS
<1> QED
  BY <1>1, <1>2, <1>3, <1>4, <1>5

(* Such a function exists.                                                   *)
LEMMA StepsExist ==
    ASSUME NEW files, NEW asked, NEW m \in Nat
    PROVE  \E g : StepsOf(g, files, asked, m)
<1> DEFINE T == {l \in 0..m : \E g : StepsOf(g, files, asked, l)}
<1>1. 0 \in T
  <2> DEFINE g == [i \in 0..0 |-> files]
  <2>1. StepsOf(g, files, asked, 0)
    <3>1. FunctionUpTo(g, 0) /\ g[0] = files
      BY DEF FunctionUpTo
    <3> HIDE DEF g
    <3> QED
      BY <3>1, StepsAre
  <2> QED
    BY <2>1
<1>2. ASSUME NEW l \in 1..m, l - 1 \in T PROVE l \in T
  <2>1. PICK f : StepsOf(f, files, asked, l - 1)
    BY <1>2
  <2>2. /\ FunctionUpTo(f, l - 1) /\ f[0] = files
        /\ \A i \in 1..(l - 1) : f[i] = Promise!Installs(f[i - 1], asked[i], i)
    <3>1. l - 1 \in Nat
      OBVIOUS
    <3> QED
      BY <2>1, <3>1, StepsAre
  <2> DEFINE g == [i \in 0..l |-> IF i = l THEN Promise!Installs(f[l - 1], asked[l], l) ELSE f[i]]
  <2>3. g[0] = files
    BY <2>2
  <2>4. ASSUME NEW i \in 1..l PROVE g[i] = Promise!Installs(g[i - 1], asked[i], i)
    <3>1. i - 1 \in 0..l /\ i - 1 # l /\ i - 1 \in 0..(l - 1)
      OBVIOUS
    <3>2. g[i - 1] = f[i - 1]
      BY <3>1
    <3>3. CASE i = l
      BY <3>2, <3>3
    <3>4. CASE i # l
      <4>1. i \in 1..(l - 1)
        BY <3>4
      <4>2. f[i] = Promise!Installs(f[i - 1], asked[i], i)
        BY <2>2, <4>1
      <4> QED
        BY <3>2, <3>4, <4>2
    <3> QED
      BY <3>3, <3>4
  <2>5. FunctionUpTo(g, l) /\ l \in Nat
    BY DEF FunctionUpTo
  <2> HIDE DEF g
  <2>6. StepsOf(g, files, asked, l)
    BY <2>3, <2>4, <2>5, StepsAre
  <2> QED
    BY <2>6
<1> HIDE DEF T
<1>3. 0..m \subseteq T
  BY <1>1, <1>2, UpTo
<1> QED
  BY <1>3 DEF T

(* What a batch installs: the files, then one update after the other.        *)
LEMMA EffectIs ==
    ASSUME NEW files, NEW asked, Len(asked) \in Nat
    PROVE  \E g : StepsOf(g, files, asked, Len(asked)) /\ Promise!Effect(files, asked) = g[Len(asked)]
<1> DEFINE after == CHOOSE g : StepsOf(g, files, asked, Len(asked))
<1>1. StepsOf(after, files, asked, Len(asked))
  BY StepsExist
<1>2. Promise!Effect(files, asked) = after[Len(asked)]
  BY DEF Promise!Effect, StepsOf
<1> QED
  BY <1>1, <1>2

(* Batches that begin alike install alike so far.                            *)
LEMMA StepsAgree ==
    ASSUME NEW files, NEW f, NEW s, NEW m \in Nat, StepsOf(f, files, s, m),
           NEW g, NEW t, NEW l \in Nat, StepsOf(g, files, t, l),
           m <= l, \A i \in 1..m : s[i] = t[i]
    PROVE  f[m] = g[m]
<1> DEFINE T == {i \in 0..m : f[i] = g[i]}
<1>1. f[0] = files /\ \A i \in 1..m : f[i] = Promise!Installs(f[i - 1], s[i], i)
  BY StepsAre
<1>2. g[0] = files /\ \A i \in 1..l : g[i] = Promise!Installs(g[i - 1], t[i], i)
  BY StepsAre
<1>3. 0 \in T
  BY <1>1, <1>2
<1>4. ASSUME NEW i \in 1..m, i - 1 \in T PROVE i \in T
  <2>1. f[i] = Promise!Installs(f[i - 1], s[i], i)
    BY <1>1
  <2>2. g[i] = Promise!Installs(g[i - 1], t[i], i)
    BY <1>2
  <2> QED
    BY <1>4, <2>1, <2>2
<1> HIDE DEF T
<1>5. 0..m \subseteq T
  BY <1>3, <1>4, UpTo
<1> QED
  BY <1>5 DEF T

(* No update installs nothing, and one more is installed after the others.   *)
LEMMA EffectSteps ==
    ASSUME NEW S, NEW asked \in Seq(S), NEW files
    PROVE  /\ Promise!Effect(files, SubSeq(asked, 1, 0)) = files
           /\ \A i \in 1..Len(asked) :
                Promise!Effect(files, SubSeq(asked, 1, i)) =
                  Promise!Installs(Promise!Effect(files, SubSeq(asked, 1, i - 1)), asked[i], i)
           /\ Promise!Effect(files, SubSeq(asked, 1, Len(asked))) = Promise!Effect(files, asked)
<1>1. Len(asked) \in Nat
  OBVIOUS
<1>2. PICK g : StepsOf(g, files, asked, Len(asked)) /\ Promise!Effect(files, asked) = g[Len(asked)]
  BY <1>1, EffectIs
<1>3. g[0] = files /\ \A i \in 1..Len(asked) : g[i] = Promise!Installs(g[i - 1], asked[i], i)
  BY <1>1, <1>2, StepsAre
<1>4. ASSUME NEW m \in 0..Len(asked) PROVE Promise!Effect(files, SubSeq(asked, 1, m)) = g[m]
  <2> DEFINE s == SubSeq(asked, 1, m)
  <2>1. m \in Nat /\ m <= Len(asked) /\ Len(s) = m /\ \A i \in 1..m : s[i] = asked[i]
    OBVIOUS
  <2> HIDE DEF s
  <2>2. PICK f : StepsOf(f, files, s, m) /\ Promise!Effect(files, s) = f[m]
    BY <2>1, EffectIs
  <2>3. f[m] = g[m]
    BY <1>1, <1>2, <2>1, <2>2, StepsAgree
  <2> QED
    BY <2>2, <2>3 DEF s
<1>5. ASSUME NEW i \in 1..Len(asked)
      PROVE  Promise!Effect(files, SubSeq(asked, 1, i)) =
               Promise!Installs(Promise!Effect(files, SubSeq(asked, 1, i - 1)), asked[i], i)
  <2>1. i \in 0..Len(asked) /\ i - 1 \in 0..Len(asked)
    BY <1>1
  <2>2. Promise!Effect(files, SubSeq(asked, 1, i)) = g[i]
    BY <1>4, <2>1
  <2>3. Promise!Effect(files, SubSeq(asked, 1, i - 1)) = g[i - 1]
    BY <1>4, <2>1
  <2> QED
    BY <1>3, <2>2, <2>3
<1>6. Promise!Effect(files, SubSeq(asked, 1, 0)) = files
  <2>1. 0 \in 0..Len(asked)
    BY <1>1
  <2> QED
    BY <1>3, <1>4, <2>1
<1>7. Promise!Effect(files, SubSeq(asked, 1, Len(asked))) = Promise!Effect(files, asked)
  <2>1. Len(asked) \in 0..Len(asked)
    BY <1>1
  <2> QED
    BY <1>2, <1>4, <2>1
<1> QED
  BY <1>5, <1>6, <1>7

(* What every update keeps is true of what the batch installs.               *)
LEMMA EffectKeeps ==
    ASSUME NEW S, NEW asked \in Seq(S), NEW T, NEW files \in T,
           \A f \in T, i \in 1..Len(asked) : Promise!Installs(f, asked[i], i) \in T
    PROVE  \A i \in 0..Len(asked) : Promise!Effect(files, SubSeq(asked, 1, i)) \in T
<1> DEFINE D == {i \in 0..Len(asked) : Promise!Effect(files, SubSeq(asked, 1, i)) \in T}
<1>1. Len(asked) \in Nat
  OBVIOUS
<1>2. 0 \in D
  BY <1>1, EffectSteps
<1>3. ASSUME NEW i \in 1..Len(asked), i - 1 \in D PROVE i \in D
  <2>1. Promise!Effect(files, SubSeq(asked, 1, i - 1)) \in T
    BY <1>3
  <2>2. Promise!Effect(files, SubSeq(asked, 1, i)) =
          Promise!Installs(Promise!Effect(files, SubSeq(asked, 1, i - 1)), asked[i], i)
    BY EffectSteps
  <2>3. Promise!Effect(files, SubSeq(asked, 1, i)) \in T
    BY <2>1, <2>2
  <2> QED
    BY <2>3
<1> HIDE DEF D
<1>4. 0..Len(asked) \subseteq D
  BY <1>1, <1>2, <1>3, UpTo
<1> QED
  BY <1>4 DEF D

(* One update installs its files, or removes those of its application if     *)
(* there is one; and every file it leaves has its registration file.         *)
LEMMA InstallsIs ==
    ASSUME NEW files \in [Names -> Int], NEW u \in Promise!Requests, NEW i \in Nat \ {0}
    PROVE  LET g == Promise!Installs(files, u, i) IN
           /\ g \in [Names -> Int]
           /\ \A n \in Names :
                g[n] = IF n[1] # u.app THEN files[n]
                       ELSE IF u.type = "Deregister"
                            THEN IF files[<<n[1], Resource>>] = Nothing THEN files[n] ELSE Nothing
                       ELSE IF n[2] \in u.kinds THEN i ELSE files[n]
           /\ Led(files) /\ (u.type = "Register" => Resource \in u.kinds) => Led(g)
<1> DEFINE g == Promise!Installs(files, u, i)
<1>1. /\ Nothing = 0 /\ Promise!Nothing = 0 /\ Promise!Resource = Resource /\ DOMAIN files = Names
      /\ u.type \in {"Register", "Deregister"} /\ Resource \in AllKinds
  BY ResourceIsKind DEF Nothing, Promise!Nothing, Promise!Resource, Resource, Promise!Requests
<1>2. g = [n \in Names |->
             IF n[1] # u.app THEN files[n]
             ELSE IF u.type = "Deregister"
                  THEN IF files[<<n[1], Resource>>] = Nothing THEN files[n] ELSE Nothing
             ELSE IF n[2] \in u.kinds THEN i ELSE files[n]]
  BY <1>1 DEF Promise!Installs
<1> HIDE DEF g
<1>3. \A n \in Names :
         g[n] = IF n[1] # u.app THEN files[n]
                ELSE IF u.type = "Deregister"
                     THEN IF files[<<n[1], Resource>>] = Nothing THEN files[n] ELSE Nothing
                ELSE IF n[2] \in u.kinds THEN i ELSE files[n]
  BY <1>2
<1>4. g \in [Names -> Int]
  <2>1. ASSUME NEW n \in Names PROVE g[n] \in Int
    <3>1. files[n] \in Int /\ i \in Int /\ Nothing \in Int
      BY <1>1
    <3> QED
      BY <1>3, <3>1
  <2> QED
    BY <1>2, <2>1
<1>5. ASSUME Led(files), u.type = "Register" => Resource \in u.kinds PROVE Led(g)
  <2> SUFFICES ASSUME NEW n \in Names, g[n] # Nothing PROVE g[<<n[1], Resource>>] # Nothing
    BY DEF Led
  <2> DEFINE m == <<n[1], Resource>>
  <2>1. m \in Names /\ m[1] = n[1] /\ m[2] = Resource /\ <<m[1], Resource>> = m
    BY <1>1 DEF Names
  <2>2. files[n] # Nothing => files[m] # Nothing
    BY <1>5 DEF Led
  <2> HIDE DEF m
  <2>3. g[m] # Nothing
    <3>1. CASE n[1] # u.app
      BY <1>3, <2>1, <2>2, <3>1
    <3>2. CASE n[1] = u.app /\ u.type = "Deregister"
      BY <1>3, <2>1, <2>2, <3>2 DEF m
    <3>3. CASE n[1] = u.app /\ u.type = "Register"
      <4>1. g[m] = i
        BY <1>3, <1>5, <2>1, <3>3
      <4> QED
        BY <1>1, <4>1
    <3> QED
      BY <1>1, <3>1, <3>2, <3>3
  <2> QED
    BY <2>3 DEF m
<1> QED
  BY <1>3, <1>4, <1>5 DEF g

(* What is in the files.                                                     *)
LEMMA FilesTyped ==
    ASSUME TypeInv
    PROVE  /\ real \in [Names -> Int] /\ before \in [Names -> Int] /\ temp \in [Slots -> Int]
           /\ DOMAIN real = Names /\ DOMAIN temp = Slots
<1>1. Contents \subseteq Int
  BY BoundsAssumption DEF Contents, Nothing, Old, Promise!Nothing, Promise!Old
<1>2. real \in [Names -> Contents] /\ before \in [Names -> Contents] /\ temp \in [Slots -> Contents]
  BY DEF TypeInv, TypeOK
<1> QED
  BY <1>1, <1>2

(* What the first updates of the batch install.                              *)
LEMMA AfterTyped ==
    ASSUME TypeInv, BatchKnown
    PROVE  /\ \A i \in 0..Len(batch) : After(i) \in [Names -> Int] /\ (Led(before) => Led(After(i)))
           /\ After(0) = before /\ After(Len(batch)) = Promise!Effect(before, batch)
           /\ Len(batch) \in Nat /\ DOMAIN batch = 1..Len(batch)
           /\ \A i \in 1..Len(batch) : batch[i] \in Promise!Requests
<1>1. /\ batch \in Seq(Promise!Requests) /\ Len(batch) \in Nat /\ DOMAIN batch = 1..Len(batch)
      /\ \A i \in 1..Len(batch) :
            batch[i] \in Promise!Requests /\ (batch[i].type = "Register" => Resource \in batch[i].kinds)
  BY DEF BatchKnown
<1>2. before \in [Names -> Int]
  BY FilesTyped
<1> DEFINE T == [Names -> Int]
           L == {f \in [Names -> Int] : Led(f)}
<1>3. \A i \in 0..Len(batch) : After(i) \in T
  <2>1. \A f \in T, i \in 1..Len(batch) : Promise!Installs(f, batch[i], i) \in T
    <3> SUFFICES ASSUME NEW f \in T, NEW i \in 1..Len(batch) PROVE Promise!Installs(f, batch[i], i) \in T
      OBVIOUS
    <3>1. i \in Nat \ {0} /\ batch[i] \in Promise!Requests
      BY <1>1
    <3> QED
      BY <3>1, InstallsIs
  <2>2. before \in T
    BY <1>2
  <2> HIDE DEF T
  <2> QED
    BY <1>1, <2>1, <2>2, EffectKeeps DEF After
<1>4. ASSUME Led(before) PROVE \A i \in 0..Len(batch) : After(i) \in L
  <2>1. \A f \in L, i \in 1..Len(batch) : Promise!Installs(f, batch[i], i) \in L
    <3> SUFFICES ASSUME NEW f \in L, NEW i \in 1..Len(batch) PROVE Promise!Installs(f, batch[i], i) \in L
      OBVIOUS
    <3>1. i \in Nat \ {0} /\ batch[i] \in Promise!Requests /\ (batch[i].type = "Register" => Resource \in batch[i].kinds)
      BY <1>1
    <3> QED
      BY <3>1, InstallsIs
  <2>2. before \in L
    BY <1>2, <1>4
  <2> HIDE DEF L
  <2> QED
    BY <1>1, <2>1, <2>2, EffectKeeps DEF After
<1>5. After(0) = before /\ After(Len(batch)) = Promise!Effect(before, batch)
  BY <1>1, EffectSteps DEF After
<1> QED
  BY <1>1, <1>3, <1>4, <1>5

(* The update at work installs on what those before it installed.            *)
LEMMA AfterSteps ==
    ASSUME TypeInv, BatchKnown, phase = "performing"
    PROVE  /\ at \in 1..Len(batch) /\ Len(batch) = Len(updates)
           /\ After(at - 1) \in [Names -> Int] /\ After(at) \in [Names -> Int]
           /\ \A n \in Names :
                After(at)[n] =
                  IF n[1] # cur.app THEN After(at - 1)[n]
                  ELSE IF cur.type = "Deregister"
                       THEN IF After(at - 1)[<<cur.app, Resource>>] = Nothing THEN After(at - 1)[n] ELSE Nothing
                  ELSE IF cur.det[n[2]].path # NoName THEN at ELSE After(at - 1)[n]
<1>1. at \in 1..Len(updates) /\ Len(updates) \in Nat /\ cur.type \in {"Register", "Deregister"}
  <2>1. at \in 1..Len(updates) /\ Len(updates) \in Nat /\ cur \in Updates
    BY AtWork DEF Working, cur
  <2> QED
    BY <2>1 DEF Updates, Types
<1>2. /\ Len(batch) = Len(updates) /\ at \in DOMAIN batch /\ batch \in Seq(Promise!Requests)
      /\ batch[at].type = cur.type /\ batch[at].app = cur.app
      /\ cur.type = "Register" => \A k \in AllKinds : cur.det[k].path # NoName <=> k \in batch[at].kinds
  BY <1>1 DEF BatchKnown, cur
<1>3. After(at - 1) \in [Names -> Int] /\ After(at) \in [Names -> Int] /\ batch[at] \in Promise!Requests
  <2>1. at - 1 \in 0..Len(batch) /\ at \in 0..Len(batch) /\ at \in 1..Len(batch)
    BY <1>1, <1>2
  <2> QED
    BY <2>1, AfterTyped
<1>4. After(at) = Promise!Installs(After(at - 1), batch[at], at)
  <2>1. \A i \in 1..Len(batch) :
           Promise!Effect(before, SubSeq(batch, 1, i)) =
             Promise!Installs(Promise!Effect(before, SubSeq(batch, 1, i - 1)), batch[i], i)
    <3>1. \A asked \in Seq(Promise!Requests) : \A files : \A i \in 1..Len(asked) :
             Promise!Effect(files, SubSeq(asked, 1, i)) =
               Promise!Installs(Promise!Effect(files, SubSeq(asked, 1, i - 1)), asked[i], i)
      BY EffectSteps
    <3> QED
      BY <1>2, <3>1
  <2>2. at \in 1..Len(batch)
    BY <1>1, <1>2
  <2> QED
    BY <2>1, <2>2 DEF After
<1>5. at \in Nat \ {0}
  BY <1>1
<1> DEFINE f == After(at - 1)
           g == After(at)
<1> HIDE DEF f, g
<1>6. \A n \in Names :
         g[n] = IF n[1] # batch[at].app THEN f[n]
                ELSE IF batch[at].type = "Deregister"
                     THEN IF f[<<n[1], Resource>>] = Nothing THEN f[n] ELSE Nothing
                ELSE IF n[2] \in batch[at].kinds THEN at ELSE f[n]
  BY <1>3, <1>4, <1>5, InstallsIs DEF f, g
<1>7. ASSUME NEW n \in Names
      PROVE  g[n] = IF n[1] # cur.app THEN f[n]
                    ELSE IF cur.type = "Deregister"
                         THEN IF f[<<cur.app, Resource>>] = Nothing THEN f[n] ELSE Nothing
                    ELSE IF cur.det[n[2]].path # NoName THEN at ELSE f[n]
  <2>1. n[2] \in AllKinds
    BY DEF Names
  <2> QED
    BY <1>1, <1>2, <1>6, <2>1
<1> QED
  BY <1>1, <1>2, <1>3, <1>7 DEF f, g

-------------------------------------------------------------------------------
(* The end of a batch. *)

(* An update that is new or undone has put no file in place and moved none   *)
(* away.                                                                     *)
LEMMA NoneInPlace ==
    ASSUME TypeInv, Shape, FilesInv, phase \in {"prepared", "destroying", "closing"},
           NEW i \in DOMAIN updates, NEW k \in AllKinds
    PROVE  \/ updates[i].state = "Performed" /\ result = "ok"
           \/ /\ updates[i].state # "Performed" /\ result # "ok"
              /\ ~(updates[i].type = "Register" /\ updates[i].det[k].state = "Real")
              /\ ~(updates[i].type = "Deregister" /\ updates[i].det[k].state = "Temporary")
<1>1. List = updates
  BY ListIs DEF Recovering
<1>2. FitDetail(updates[i], k) /\ updates[i].type \in {"Register", "Deregister"} /\ NoDetails.state = "Null" /\ i > 0
  <2>1. FitDetail(updates[i], k)
    BY <1>1 DEF FilesInv, FilesFit, FitDetails
  <2>2. updates[i] \in Updates /\ i \in Nat /\ i > 0
    BY UpdatesTyped
  <2> QED
    BY <2>1, <2>2 DEF Updates, Types, NoDetails
<1>3. CASE phase = "prepared"
  <2>1. updates[i].state = "New" /\ result = "open"
    BY <1>3 DEF Shape
  <2> QED
    BY <1>2, <2>1 DEF FitDetail
<1>4. CASE phase # "prepared" /\ result = "ok"
  BY <1>4 DEF Shape, AllPerformed
<1>5. CASE phase # "prepared" /\ result # "ok"
  <2>1. updates[i].state \in {"RolledBack", "New"}
    BY <1>2, <1>5 DEF Shape, UndoneAfter
  <2> QED
    BY <1>2, <1>5, <2>1 DEF FitDetail
<1> QED
  BY <1>3, <1>4, <1>5

(* The destruction of a list takes no file that is in place.                 *)
LEMMA SafeDestroy ==
    ASSUME TypeInv, Shape, FilesInv, phase \in {"prepared", "destroying"}, DestroyList(updates)
    PROVE  real' = real
<1>1. ASSUME NEW n \in Names PROVE ~Withdraws(updates, n)
  <2> SUFFICES ASSUME NEW i \in 1..Len(updates), NEW k \in AllKinds,
                      updates[i].type = "Register", updates[i].state # "Performed",
                      updates[i].det[k] = [state |-> "Real", path |-> n]
               PROVE  FALSE
    BY DEF Withdraws
  <2>1. i \in DOMAIN updates /\ updates[i].det[k].state = "Real"
    BY UpdatesTyped
  <2> QED
    BY <2>1, NoneInPlace
<1>2. PICK stuck \in Stuck(updates) :
          real' = [n \in Names |-> IF Withdraws(updates, n) /\ n \notin stuck THEN Nothing ELSE real[n]]
  BY DEF DestroyList
<1>3. DOMAIN real = Names /\ real = [n \in Names |-> real[n]]
  BY FilesTyped
<1> QED
  BY <1>1, <1>2, <1>3

(* A batch that failed leaves the files there were.                          *)
LEMMA FailureRestores ==
    ASSUME TypeInv, Shape, FilesInv, FilesKnown, phase = "closing", result # "ok"
    PROVE  real = before
<1>1. logFile /\ List = updates
  BY ListIs DEF TypeInv, TypeOK, Recovering
<1>2. ASSUME NEW n \in Names PROVE real[n] = before[n]
  <2>1. n[2] \in AllKinds
    BY DEF Names
  <2>2. \A i \in DOMAIN updates :
           /\ ~(updates[i].type = "Register" /\ updates[i].det[n[2]].state = "Real")
           /\ ~(updates[i].type = "Deregister" /\ updates[i].det[n[2]].state = "Temporary")
    BY <2>1, NoneInPlace
  <2>3. ~IsPlaced(n) /\ ~IsMoved(n)
    BY <1>1, <2>2 DEF IsPlaced, IsMoved, Placed, Moved
  <2> QED
    BY <1>1, <2>3 DEF FilesKnown, NamesKnown
<1>3. real \in [Names -> Int] /\ before \in [Names -> Int]
  BY FilesTyped
<1> QED
  BY <1>2, <1>3

-------------------------------------------------------------------------------
(* The batch asked for, step by step. *)

(* A step of the server on a list whose updates it does not replace.         *)
ListKept ==
    /\ logFile /\ UNCHANGED <<batch, before, logFile>>
    /\ phase # "prepared" /\ phase' # "prepared"
    /\ phase' = "performing" =>
         /\ phase = "performing" /\ Len(updates') = Len(updates)
         /\ \A i \in DOMAIN updates :
              /\ updates'[i].type = updates[i].type /\ updates'[i].app = updates[i].app
              /\ updates[i].type = "Register" =>
                   \A k \in AllKinds : updates'[i].det[k].path = updates[i].det[k].path

(* The steps that perform an update or roll it back are such.                *)
LEMMA WorkKeepsList ==
    ASSUME TypeInv, \/ WriteNew \/ WriteSection \/ StateChange \/ Continuation \/ EndOfUpdate \/ Find
                    \/ RenameToReal \/ RenameToTemporary \/ PerformLeaves \/ Delete \/ RestoreReal
    PROVE  ListKept
<1>1. Working => logFile /\ phase \in {"performing", "rollingBack"}
  BY DEF TypeInv, TypeOK, Working
<1>2. ASSUME UNCHANGED updates, Working, UNCHANGED <<batch, before, logFile>>,
             phase' \in {"performing", "rollingBack", "closing"}, phase' = "performing" => phase = "performing"
      PROVE  ListKept
  BY <1>1, <1>2 DEF ListKept
<1>3. CASE WriteNew \/ WriteSection
  BY <1>1, <1>2, <1>3 DEF WriteNew, WriteSection, Logs, Goes, logVars, ghostVars, Working
<1>4. CASE StateChange
  <2>1. Working /\ step \in States /\ updates' = InState(step) /\ UNCHANGED <<batch, before, logFile, phase>>
    BY <1>4 DEF StateChange, Logs, Begin, Goes, ghostVars
  <2> QED
    BY <1>1, <2>1, StateSet DEF ListKept
<1>5. CASE Continuation
  BY <1>1, <1>2, <1>5 DEF Continuation, Logs, ghostVars, Working
<1>6. CASE EndOfUpdate
  <2>1. Working /\ UNCHANGED <<updates, batch, before, logFile>>
    BY <1>6 DEF EndOfUpdate, Logs, ghostVars
  <2>2. phase' \in {"performing", "rollingBack", "closing"} /\ (phase' = "performing" => phase = "performing")
    BY <1>6 DEF EndOfUpdate, PerformFrom, RollBackFrom
  <2> QED
    BY <1>2, <2>1, <2>2
<1>7. CASE Find
  <2>1. Working /\ phase = "performing" /\ cur.type = "Deregister" /\ UNCHANGED <<batch, before, logFile>>
    BY <1>7, FindIs
  <2>2. CASE Fails /\ UNCHANGED updates
    BY <1>2, <2>1, <2>2 DEF Fails, RollBackFrom
  <2>3. CASE /\ UNCHANGED phase /\ Len(updates') = Len(updates)
             /\ \A i \in DOMAIN updates :
                  /\ updates'[i].type = updates[i].type /\ updates'[i].app = updates[i].app
                  /\ \A k \in AllKinds :
                       updates'[i].det[k] = IF i = at THEN FilesFound[k] ELSE updates[i].det[k]
    <3>1. \A i \in DOMAIN updates : updates[i].type = "Register" =>
             \A k \in AllKinds : updates'[i].det[k].path = updates[i].det[k].path
      BY <2>1, <2>3 DEF cur
    <3> QED
      BY <1>1, <2>1, <2>3, <3>1 DEF ListKept
  <2> QED
    BY <1>7, <2>2, <2>3, FindIs
<1>8. ASSUME NEW d, Dealing(d), UNCHANGED <<batch, before, logFile>>,
             phase = "performing" => d.path = cur.det[Kind].path
      PROVE  ListKept
  <2>1. /\ Working /\ UNCHANGED phase /\ Len(updates') = Len(updates)
        /\ \A i \in DOMAIN updates :
             /\ updates'[i].type = updates[i].type /\ updates'[i].app = updates[i].app
             /\ \A k \in AllKinds : updates'[i].det[k] = IF i = at /\ k = Kind THEN d ELSE updates[i].det[k]
    BY <1>8, Dealt DEF Dealing
  <2> QED
    BY <1>1, <1>8, <2>1 DEF ListKept, cur
<1>9. CASE RenameToReal
  <2>1. Working /\ phase = "performing" /\ UNCHANGED <<batch, before, logFile>>
    BY <1>9 DEF RenameToReal, logVars, ghostVars, Working
  <2>2. CASE Fails /\ UNCHANGED <<diskVars, updates>>
    BY <1>2, <2>1, <2>2 DEF Fails, RollBackFrom
  <2> QED
    BY <1>8, <1>9, <2>1, <2>2, Renaming
<1>10. CASE RenameToTemporary
  <2>1. UNCHANGED <<batch, before, logFile>>
    BY <1>10 DEF RenameToTemporary, logVars, ghostVars
  <2> QED
    BY <1>8, <1>10, <2>1, RenamingAway
<1>11. CASE PerformLeaves
  BY <1>2, <1>11 DEF PerformLeaves, Fails, RollBackFrom, logVars, ghostVars, Working
<1>12. CASE Delete \/ RestoreReal
  <2>1. UNCHANGED <<batch, before, logFile>> /\ phase = "rollingBack"
    BY <1>12 DEF Delete, RestoreReal, logVars, ghostVars
  <2> QED
    BY <1>8, <1>12, <2>1, Undoing
<1> QED
  BY <1>3, <1>4, <1>5, <1>6, <1>7, <1>9, <1>10, <1>11, <1>12

(* BatchInv, step by step: one that keeps the list.                          *)
LEMMA BatchKept == ASSUME TypeInv, BatchInv, ListKept PROVE BatchInv'
<1>1. Base' = Base
  BY DEF ListKept, Base
<1>2. ResourceFirst'
  BY <1>1 DEF BatchInv, ResourceFirst, Led
<1>3. NoneReplaced'
  BY <1>1 DEF BatchInv, NoneReplaced, ListKept
<1>4. BatchKnown'
  <2>1. batch' = batch /\ batch \in Seq(Promise!Requests)
        /\ \A i \in DOMAIN batch : batch[i].type = "Register" => Resource \in batch[i].kinds
    BY DEF BatchInv, BatchKnown, ListKept
  <2>2. CASE phase' \notin {"prepared", "performing"}
    BY <2>1, <2>2 DEF BatchKnown
  <2>3. CASE phase' = "performing"
    <3>1. /\ phase = "performing" /\ Len(updates') = Len(updates)
          /\ \A i \in DOMAIN updates :
              /\ updates'[i].type = updates[i].type /\ updates'[i].app = updates[i].app
              /\ updates[i].type = "Register" =>
                   \A k \in AllKinds : updates'[i].det[k].path = updates[i].det[k].path
      BY <2>3 DEF ListKept
    <3>2. /\ Len(batch) = Len(updates)
          /\ \A i \in DOMAIN batch :
              /\ batch[i].type = updates[i].type /\ batch[i].app = updates[i].app
              /\ updates[i].type = "Register" =>
                   \A k \in AllKinds : updates[i].det[k].path # NoName <=> k \in batch[i].kinds
      BY <3>1 DEF BatchInv, BatchKnown
    <3>3. DOMAIN batch = DOMAIN updates
      BY <2>1, <3>2, UpdatesTyped
    <3> QED
      BY <2>1, <3>1, <3>2, <3>3 DEF BatchKnown
  <2> QED
    BY <2>2, <2>3 DEF ListKept
<1> QED
  BY <1>2, <1>3, <1>4 DEF BatchInv

(* One after which there is no list to compare the batch with.               *)
LEMMA BatchElsewhere ==
    ASSUME BatchInv, UNCHANGED batch, ResourceFirst', phase' \notin {"prepared", "performing"}
    PROVE  BatchInv'
BY DEF BatchInv, BatchKnown, NoneReplaced

(* Prepare.                                                                  *)
LEMMA BatchPrepare == TypeInv /\ Shape /\ BatchInv /\ Prepare => BatchInv'
<1> SUFFICES ASSUME TypeInv, Shape, BatchInv, Prepare PROVE BatchInv'
  OBVIOUS
<1>1. phase = "idle" /\ phase' = "prepared" /\ batch' = <<>> /\ UNCHANGED <<real, logFile, updates, before>> /\ updates = <<>>
  BY DEF Prepare, logVars, Shape
<1>2. Base' = Base
  BY <1>1 DEF Base
<1> QED
  BY <1>1, <1>2 DEF BatchInv, BatchKnown, ResourceFirst, Led, NoneReplaced

(* A registration brings a registration file, and files of the kinds there   *)
(* are.                                                                      *)
LEMMA BundlesAre == ASSUME NEW kinds \in Bundles PROVE Resource \in kinds /\ kinds \subseteq AllKinds
<1>1. Kinds \in Seq(STRING) /\ Len(Kinds) \in Nat \ {0} /\ AllKinds = {Kinds[i] : i \in 1..Len(Kinds)}
  BY KindsTyped
<1>2. PICK n \in 1..Len(Kinds) : kinds = Range(SubSeq(Kinds, 1, n))
  BY <1>1 DEF Bundles
<1>3. DOMAIN SubSeq(Kinds, 1, n) = 1..n /\ \A i \in 1..n : SubSeq(Kinds, 1, n)[i] = Kinds[i]
  BY <1>1
<1>4. kinds = {Kinds[i] : i \in 1..n}
  BY <1>2, <1>3 DEF Range
<1>5. 1 \in 1..n /\ 1..n \subseteq 1..Len(Kinds)
  BY <1>1, <1>2
<1> QED
  BY <1>1, <1>4, <1>5 DEF Resource

(* A request, on the list and in the batch.                                  *)
LEMMA BatchAsked ==
    ASSUME TypeInv, Shape, BatchInv, NEW type \in Types, NEW a \in Apps, NEW kinds \in SUBSET AllKinds,
           Asked(type, a, kinds),
           type = "Register" => Resource \in kinds /\ ~Overwrites(a, kinds)
    PROVE  BatchInv'
<1> DEFINE m == Len(batch) + 1
           request == [type |-> type, app |-> a, kinds |-> kinds]
<1>1. /\ phase = "prepared" /\ UNCHANGED <<real, logFile, phase, before>>
      /\ updates' = Append(updates, NewUpdate(type, a, IF type = "Register" THEN kinds ELSE {}))
      /\ batch' = Append(batch, request)
  BY DEF Asked, logVars
<1>2. Base = real /\ Base' = real
  BY <1>1 DEF TypeInv, TypeOK, Base
<1>3. /\ batch \in Seq(Promise!Requests) /\ Len(batch) = Len(updates)
      /\ \A i \in DOMAIN batch :
              /\ batch[i].type = "Register" => Resource \in batch[i].kinds
              /\ batch[i].type = updates[i].type /\ batch[i].app = updates[i].app
              /\ updates[i].type = "Register" =>
                   \A k \in AllKinds : updates[i].det[k].path # NoName <=> k \in batch[i].kinds
  BY <1>1 DEF BatchInv, BatchKnown
<1>4. request \in Promise!Requests
  BY DEF Promise!Requests, Types, AllKinds, Range, Promise!Range
<1> HIDE DEF request
<1>5. /\ batch' \in Seq(Promise!Requests) /\ Len(batch') = m /\ DOMAIN batch' = 1..m /\ DOMAIN batch = 1..Len(batch)
      /\ \A i \in DOMAIN batch : i \in DOMAIN batch' /\ batch'[i] = batch[i]
      /\ batch'[m] = request
      /\ \A i \in DOMAIN batch' : i \in DOMAIN batch \/ i = m
      /\ \A i \in DOMAIN batch : i < m
  BY <1>1, <1>3, <1>4
<1>6. /\ DOMAIN updates = DOMAIN batch /\ DOMAIN updates' = DOMAIN batch'
      /\ \A i \in DOMAIN updates : updates'[i] = updates[i]
      /\ updates'[m].type = type /\ updates'[m].app = a
      /\ type = "Register" => \A k \in AllKinds : updates'[m].det[k].path # NoName <=> k \in kinds
  <2>1. DOMAIN updates = 1..Len(updates) /\ Len(updates') = m /\ DOMAIN updates' = 1..m
    BY <1>1, <1>3, UpdatesTyped
  <2>2. /\ \A i \in DOMAIN updates : updates'[i] = updates[i]
        /\ updates'[m].type = type /\ updates'[m].app = a
        /\ \A k \in AllKinds : updates'[m].det[k] = IF type = "Register" /\ k \in kinds
                                             THEN [state |-> "Temporary", path |-> <<a, k>>]
                                             ELSE NoDetails
    BY <1>1, <1>3, NewUpdateParts
  <2>3. type = "Register" => \A k \in AllKinds : updates'[m].det[k].path # NoName <=> k \in kinds
    <3> SUFFICES ASSUME type = "Register", NEW k \in AllKinds
                 PROVE  updates'[m].det[k].path # NoName <=> k \in kinds
      OBVIOUS
    <3>1. CASE k \in kinds
      <4>1. updates'[m].det[k].path = <<a, k>>
        <5>1. updates'[m].det[k] = [state |-> "Temporary", path |-> <<a, k>>]
          BY <2>2, <3>1
        <5> QED
          BY <5>1
      <4> QED
        BY <3>1, <4>1, NamesNotEmpty
    <3>2. CASE k \notin kinds
      <4>1. updates'[m].det[k] = NoDetails /\ NoDetails.path = NoName
        BY <2>2, <3>2 DEF NoDetails
      <4> QED
        BY <3>2, <4>1
    <3> QED
      BY <3>1, <3>2
  <2> QED
    BY <1>3, <1>5, <2>1, <2>2, <2>3
<1>7. request.type = type /\ request.app = a /\ request.kinds = kinds
  BY DEF request
<1>8. BatchKnown'
  <2>1. ASSUME NEW i \in DOMAIN batch'
        PROVE  /\ batch'[i].type = "Register" => Resource \in batch'[i].kinds
               /\ batch'[i].type = updates'[i].type /\ batch'[i].app = updates'[i].app
               /\ updates'[i].type = "Register" =>
                     \A k \in AllKinds : updates'[i].det[k].path # NoName <=> k \in batch'[i].kinds
    <3>1. CASE i \in DOMAIN batch
      BY <1>3, <1>5, <1>6, <3>1
    <3>2. CASE i = m
      BY <1>5, <1>6, <1>7, <3>2
    <3> QED
      BY <1>5, <3>1, <3>2
  <2>2. Len(batch') = Len(updates')
    BY <1>1, <1>3, <1>5, UpdatesTyped
  <2> QED
    BY <1>5, <2>1, <2>2 DEF BatchKnown
<1>9. NoneReplaced'
  <2> SUFFICES ASSUME NEW j \in DOMAIN batch', batch'[j].type = "Register"
               PROVE  \/ \A k \in batch'[j].kinds : real[<<batch'[j].app, k>>] = Nothing
                      \/ \E i \in DOMAIN batch' : i < j /\ batch'[i].type = "Deregister" /\ batch'[i].app = batch'[j].app
    BY <1>2 DEF NoneReplaced
  <2>1. CASE j \in DOMAIN batch
    <3>1. batch'[j] = batch[j]
      BY <1>5, <2>1
    <3>2. \/ \A k \in batch[j].kinds : real[<<batch[j].app, k>>] = Nothing
          \/ \E i \in DOMAIN batch : i < j /\ batch[i].type = "Deregister" /\ batch[i].app = batch[j].app
      BY <1>1, <1>2, <2>1, <3>1 DEF BatchInv, NoneReplaced
    <3> QED
      BY <1>5, <3>1, <3>2
  <2>2. CASE j = m
    <3>1. \/ \A k \in kinds : real[<<a, k>>] = Nothing
          \/ \E i \in 1..Len(batch) : batch[i].type = "Deregister" /\ batch[i].app = a
      BY <1>5, <1>7, <2>2 DEF Overwrites
    <3> QED
      BY <1>5, <1>7, <2>2, <3>1
  <2> QED
    BY <1>5, <2>1, <2>2
<1>10. ResourceFirst'
  BY <1>2 DEF BatchInv, ResourceFirst, Led
<1> QED
  BY <1>8, <1>9, <1>10 DEF BatchInv

(* Register and Deregister.                                                  *)
LEMMA BatchRegister ==
    ASSUME NoOverwrite, TypeInv, Shape, BatchInv, NEW a \in Apps, NEW kinds \in Bundles, Register(a, kinds)
    PROVE  BatchInv'
<1>1. Resource \in kinds /\ kinds \in SUBSET AllKinds
  BY BundlesAre
<1>2. Asked("Register", a, kinds) /\ ~Overwrites(a, kinds)
  BY DEF Register, NoOverwrite
<1> QED
  BY <1>1, <1>2, BatchAsked DEF Types

(* The same.                                                                 *)
LEMMA BatchDeregister ==
    ASSUME TypeInv, Shape, BatchInv, NEW a \in Apps, Deregister(a)
    PROVE  BatchInv'
<1>1. Asked("Deregister", a, {}) /\ {} \in SUBSET AllKinds
  BY DEF Deregister
<1> QED
  BY <1>1, BatchAsked DEF Types

(* Commit.                                                                   *)
LEMMA BatchCommit == TypeInv /\ BatchInv /\ Commit => BatchInv'
<1> SUFFICES ASSUME TypeInv, BatchInv, Commit PROVE BatchInv'
  OBVIOUS
<1>1. /\ phase = "prepared" /\ logFile' = TRUE /\ before' = real /\ UNCHANGED <<real, updates, batch>>
      /\ phase' \in {"performing", "closing"}
  BY DEF Commit, PerformFrom, diskVars
<1>2. Base = real /\ Base' = real
  BY <1>1 DEF TypeInv, TypeOK, Base
<1>3. ResourceFirst'
  BY <1>2 DEF BatchInv, ResourceFirst, Led
<1>4. NoneReplaced'
  BY <1>1, <1>2 DEF BatchInv, NoneReplaced
<1>5. BatchKnown'
  BY <1>1 DEF BatchInv, BatchKnown
<1> QED
  BY <1>3, <1>4, <1>5 DEF BatchInv

(* CloseLog: the files are those of the whole batch, or those before it.     *)
LEMMA FilesAtClose ==
    ASSUME TypeInv, Shape, FilesInv, FilesKnown, Forward, phase = "closing"
    PROVE  real = IF result = "ok" THEN Promise!Effect(before, batch) ELSE before
BY FailureRestores DEF Forward

(* The same, for BatchInv.                                                   *)
LEMMA BatchCloseLog == TypeInv /\ Shape /\ FilesInv /\ PromiseInv /\ CloseLog => BatchInv'
<1> SUFFICES ASSUME TypeInv, Shape, FilesInv, PromiseInv, CloseLog PROVE BatchInv'
  OBVIOUS
<1>1. phase = "closing" /\ logFile /\ logFile' = FALSE /\ phase' = "destroying" /\ UNCHANGED <<real, batch>>
  BY DEF CloseLog, diskVars, ghostVars, TypeInv, TypeOK
<1>2. Base = before /\ Base' = real /\ BatchInv /\ FilesKnown /\ Forward
  BY <1>1 DEF Base, PromiseInv
<1>3. Led(before) /\ BatchKnown
  BY <1>2 DEF BatchInv, ResourceFirst
<1>4. Led(real)
  <2>1. After(Len(batch)) = Promise!Effect(before, batch) /\ Led(After(Len(batch)))
    <3>1. Len(batch) \in Nat
      BY <1>3, AfterTyped
    <3>2. Len(batch) \in 0..Len(batch)
      BY <3>1
    <3> QED
      BY <1>3, <3>2, AfterTyped
  <2> QED
    BY <1>1, <1>2, <1>3, <2>1, FilesAtClose
<1>5. ResourceFirst'
  BY <1>1, <1>2, <1>4 DEF ResourceFirst, Led
<1> QED
  BY <1>1, <1>2, <1>5, BatchElsewhere

(* The other steps install nothing and ask for nothing.                      *)
LEMMA BatchRest ==
    ASSUME TypeInv, Shape, FilesInv, LogInv, BatchInv,
           Abort \/ CommitRefused \/ Destroy \/ StartUp \/ Recover \/ Crash
    PROVE  BatchInv'
<1>1. UNCHANGED <<batch, before, logFile, real>> /\ phase' \notin {"prepared", "performing"}
  <2>1. CASE Abort \/ Destroy
    <3>1. DestroyList(updates) /\ phase \in {"prepared", "destroying"} /\ UNCHANGED <<batch, before, logFile>>
      BY <2>1 DEF Abort, Destroy, logVars, ghostVars
    <3> QED
      BY <3>1, SafeDestroy DEF DestroyList
  <2>2. CASE CommitRefused \/ StartUp \/ Crash
    BY <2>2 DEF CommitRefused, StartUp, Crash, diskVars, logVars, ghostVars
  <2>3. CASE Recover
    <3>1. UNCHANGED <<batch, before, logFile, real>> /\ RollBackFrom(Replay(log).cur)
      BY <2>3, RecoverIs
    <3> QED
      BY <3>1 DEF RollBackFrom
  <2> QED
    BY <2>1, <2>2, <2>3
<1>2. ResourceFirst'
  BY <1>1 DEF BatchInv, ResourceFirst, Led, Base
<1> QED
  BY <1>1, <1>2, BatchElsewhere

-------------------------------------------------------------------------------
(* The files, against those there were. *)

(* A name of a file, and the list in memory.                                 *)
LEMMA NamesAre ==
    ASSUME NEW n \in Names
    PROVE  n[1] \in Apps /\ n[2] \in AllKinds /\ n = <<n[1], n[2]>>
BY DEF Names

(* The updates in memory have places in the list.                            *)
LEMMA ListedUpdates ==
    ASSUME TypeInv, ~Recovering
    PROVE  /\ List = updates /\ DOMAIN updates \subseteq Positions
           /\ \A i \in DOMAIN updates : updates[i] \in Updates /\ updates[i].type \in {"Register", "Deregister"}
<1>1. List = updates /\ Len(updates) <= MaxUpdates /\ MaxUpdates \in Nat
  BY ListIs, BoundsAssumption DEF TypeInv, TypeOK
<1>2. Len(updates) \in Nat /\ DOMAIN updates = 1..Len(updates) /\ \A i \in DOMAIN updates : updates[i] \in Updates
  BY UpdatesTyped
<1> QED
  BY <1>1, <1>2 DEF Positions, Updates, Types

(* A file that is in place is held open under its real name.                 *)
LEMMA PlacedIs ==
    ASSUME TypeInv, ~Recovering, FilesFit(updates), NEW n \in Names, NEW i, Placed(i, n)
    PROVE  /\ i \in DOMAIN updates /\ updates[i].type = "Register" /\ updates[i].app = n[1]
           /\ updates[i].det[n[2]] = [state |-> "Real", path |-> n] /\ Open(n)
<1>1. i \in DOMAIN updates /\ updates[i].type = "Register" /\ updates[i].app = n[1] /\ updates[i].det[n[2]].state = "Real"
  BY ListIs DEF Placed
<1>2. n[2] \in AllKinds /\ n = <<n[1], n[2]>>
  BY NamesAre
<1> DEFINE d == updates[i].det[n[2]]
<1>3. d \in Details /\ FitDetail(updates[i], n[2])
  <2>1. updates[i] \in Updates
    BY <1>1, ListedUpdates
  <2> QED
    BY <1>1, <1>2, <2>1 DEF Updates, FilesFit, FitDetails
<1>4. d.path = n /\ d.state = "Real"
  BY <1>1, <1>2, <1>3 DEF FitDetail, NoDetails
<1>5. d = [state |-> "Real", path |-> n]
  <2> HIDE DEF d
  <2> QED
    BY <1>3, <1>4 DEF Details
<1>6. Open(n)
  BY <1>1, <1>2, <1>5, UpdatesTyped DEF Open
<1> QED
  BY <1>1, <1>5, <1>6

(* A file that is moved away has its temporary name.                         *)
LEMMA MovedIs ==
    ASSUME TypeInv, ~Recovering, FilesFit(updates), NEW n \in Names, NEW i, Moved(i, n)
    PROVE  /\ i \in DOMAIN updates /\ updates[i].type = "Deregister" /\ updates[i].app = n[1]
           /\ updates[i].det[n[2]].state = "Temporary"
           /\ temp[<<i, n[2]>>] # Nothing
<1>1. i \in DOMAIN updates /\ updates[i].type = "Deregister" /\ updates[i].app = n[1] /\ updates[i].det[n[2]].state = "Temporary"
  BY ListIs DEF Moved
<1> QED
  BY <1>1, NamesAre DEF FilesFit, AreThere

(* Without the files, or the places of the list, changing.                   *)
LEMMA FilesSame ==
    ASSUME FilesKnown, logFile, UNCHANGED <<real, temp, before>>,
           \A n \in Names, i \in Positions :
              (Placed(i, n)' <=> Placed(i, n)) /\ (Moved(i, n)' <=> Moved(i, n))
    PROVE  FilesKnown'
<1>1. PlacedKnown /\ MovedKnown /\ NamesKnown
  BY DEF FilesKnown
<1>2. \A n \in Names : (IsPlaced(n)' <=> IsPlaced(n)) /\ (IsMoved(n)' <=> IsMoved(n))
  BY DEF IsPlaced, IsMoved
<1>3. PlacedKnown'
  BY <1>1 DEF PlacedKnown
<1>4. MovedKnown'
  BY <1>1 DEF MovedKnown
<1>5. NamesKnown'
  BY <1>1, <1>2 DEF NamesKnown
<1> QED
  BY <1>3, <1>4, <1>5 DEF FilesKnown

(* The list is the same but for states, and so are its places.               *)
LEMMA SameListSamePlaces ==
    ASSUME DOMAIN List' = DOMAIN List,
           \A i \in DOMAIN List : /\ List'[i].type = List[i].type /\ List'[i].app = List[i].app
                                  /\ List'[i].det = List[i].det
    PROVE  /\ \A n \in Names, i \in Positions :
                 (Placed(i, n)' <=> Placed(i, n)) /\ (Moved(i, n)' <=> Moved(i, n))
           /\ TemporariesOwn /\ temp' = temp => TemporariesOwn'
<1>1. \A n \in Names, i \in Positions :
         (Placed(i, n)' <=> Placed(i, n)) /\ (Moved(i, n)' <=> Moved(i, n))
  BY DEF Placed, Moved
<1>2. TemporariesOwn /\ temp' = temp => TemporariesOwn'
  BY DEF TemporariesOwn
<1> QED
  BY <1>1, <1>2

(* The steps that touch no file and no details.                              *)
LEMMA KnownQuiet ==
    ASSUME TypeInv, FilesKnown, TemporariesOwn,
           WriteNew \/ WriteSection \/ StateChange \/ Continuation \/ EndOfUpdate \/ PerformLeaves
             \/ (Find /\ Fails /\ UNCHANGED updates)
             \/ (RenameToReal /\ Fails /\ UNCHANGED <<diskVars, updates>>)
    PROVE  FilesKnown' /\ TemporariesOwn'
<1>1. Working /\ logFile /\ ~Recovering /\ UNCHANGED <<real, temp, before>>
  <2>1. Working /\ UNCHANGED <<real, temp, before>>
    BY DEF WriteNew, WriteSection, StateChange, Continuation, EndOfUpdate, PerformLeaves, Find, RenameToReal,
           Logs, diskVars, ghostVars, Working
  <2> QED
    BY <2>1 DEF TypeInv, TypeOK, Working, Recovering
<1>2. /\ ~Recovering' /\ DOMAIN updates' = DOMAIN updates
      /\ \A i \in DOMAIN updates : /\ updates'[i].type = updates[i].type /\ updates'[i].app = updates[i].app
                                   /\ updates'[i].det = updates[i].det
  <2>1. CASE WriteNew \/ WriteSection \/ Continuation
    BY <1>1, <2>1 DEF WriteNew, WriteSection, Continuation, Logs, Goes, Recovering, Working
  <2>2. CASE StateChange
    <3>1. updates' = InState(step) /\ step \in States /\ UNCHANGED phase
      BY <2>2 DEF StateChange, Begin, Goes
    <3> QED
      BY <1>1, <3>1, StateSet DEF Recovering, Working
  <2>3. CASE EndOfUpdate
    BY <1>1, <2>3 DEF EndOfUpdate, PerformFrom, RollBackFrom, Recovering
  <2>4. CASE Fails /\ UNCHANGED updates
    BY <1>1, <2>4 DEF Fails, RollBackFrom, Recovering
  <2> QED
    BY <2>1, <2>2, <2>3, <2>4 DEF PerformLeaves
<1>3. List = updates /\ List' = updates'
  BY <1>1, <1>2 DEF List
<1> QED
  BY <1>1, <1>2, <1>3, SameListSamePlaces, FilesSame

(* Find: a deregistration opens its files, and moves none yet.               *)
LEMMA KnownFind ==
    ASSUME TypeInv, FilesInv, FilesKnown, TemporariesOwn, Find
    PROVE  FilesKnown' /\ TemporariesOwn'
<1>1. CASE Fails /\ UNCHANGED updates
  BY <1>1, KnownQuiet
<1>2. CASE /\ UNCHANGED <<phase, at, result>> /\ DOMAIN updates' = DOMAIN updates
           /\ \A i \in DOMAIN updates :
                /\ updates'[i].type = updates[i].type /\ updates'[i].app = updates[i].app
                /\ \A k \in AllKinds : updates'[i].det[k] = IF i = at THEN FilesFound[k] ELSE updates[i].det[k]
  <2>1. /\ Working /\ step = "find" /\ cur.type = "Deregister"
        /\ UNCHANGED <<real, temp, logFile, before>>
    BY FindIs
  <2>2. logFile /\ ~Recovering /\ ~Recovering'
    BY <1>2, <2>1 DEF TypeInv, TypeOK, Working, Recovering
  <2>3. List = updates /\ List' = updates'
    BY <2>2 DEF List
  <2>4. /\ updates[at].type = "Deregister"
        /\ \A k \in AllKinds : updates[at].det[k].state # "Temporary" /\ FilesFound[k].state # "Temporary"
    <3>1. \A k \in AllKinds : cur.det[k] = NoDetails
      BY <2>1 DEF FilesInv, DetailsAtWork
    <3>2. NoDetails.state # "Temporary"
      BY DEF NoDetails
    <3>3. \A k \in AllKinds : FilesFound[k].state # "Temporary"
      BY FilesFoundAre
    <3> QED
      BY <2>1, <3>1, <3>2, <3>3 DEF cur
  <2>5. \A n \in Names, i \in Positions :
           (Placed(i, n)' <=> Placed(i, n)) /\ (Moved(i, n)' <=> Moved(i, n))
    <3> SUFFICES ASSUME NEW n \in Names, NEW i \in Positions
                 PROVE  (Placed(i, n)' <=> Placed(i, n)) /\ (Moved(i, n)' <=> Moved(i, n))
      OBVIOUS
    <3>1. n[2] \in AllKinds
      BY NamesAre
    <3>2. CASE i = at
      BY <1>2, <2>3, <2>4, <3>1, <3>2 DEF Placed, Moved
    <3>3. CASE i # at
      BY <1>2, <2>3, <3>1, <3>3 DEF Placed, Moved
    <3> QED
      BY <3>2, <3>3
  <2>6. TemporariesOwn'
    <3>1. \A i \in DOMAIN updates', k \in AllKinds : updates'[i].type = "Register" => updates'[i].det[k] = updates[i].det[k]
      BY <1>2, <2>4
    <3> QED
      BY <1>2, <2>1, <2>3, <3>1 DEF TemporariesOwn
  <2> QED
    BY <2>1, <2>2, <2>5, <2>6, FilesSame
<1> QED
  BY <1>1, <1>2, FindIs

(* What dealing with the file at work makes of the places.                   *)
LEMMA DealtPlaces ==
    ASSUME TypeInv, NEW d, Dealing(d), UNCHANGED <<logFile, before>>
    PROVE  /\ logFile /\ logFile' /\ ~Recovering /\ ~Recovering' /\ at \in Positions /\ at \in DOMAIN updates
           /\ cur.type \in {"Register", "Deregister"}
           /\ \A n \in Names, i \in Positions :
                /\ Placed(i, n)' <=> IF i = at /\ n[2] = Kind
                                     THEN cur.type = "Register" /\ cur.app = n[1] /\ d.state = "Real"
                                     ELSE Placed(i, n)
                /\ Moved(i, n)' <=> IF i = at /\ n[2] = Kind
                                    THEN cur.type = "Deregister" /\ cur.app = n[1] /\ d.state = "Temporary"
                                    ELSE Moved(i, n)
           /\ \A i \in Positions, k \in AllKinds :
                i \in DOMAIN List' /\ List'[i].type = "Register" /\ List'[i].det[k].state = "Temporary"
                => \/ i = at /\ k = Kind /\ cur.type = "Register" /\ d.state = "Temporary"
                   \/ i \in DOMAIN List /\ List[i].type = "Register" /\ List[i].det[k].state = "Temporary"
                      /\ (i # at \/ k # Kind)
<1>1. /\ UNCHANGED phase /\ DOMAIN updates' = DOMAIN updates
      /\ \A i \in DOMAIN updates :
           /\ updates'[i].type = updates[i].type /\ updates'[i].app = updates[i].app
           /\ \A k \in AllKinds : updates'[i].det[k] = IF i = at /\ k = Kind THEN d ELSE updates[i].det[k]
  BY Dealt
<1>2. logFile /\ logFile' /\ ~Recovering /\ ~Recovering' /\ Working
  BY <1>1 DEF TypeInv, TypeOK, Working, Recovering, Dealing
<1>3. List = updates /\ List' = updates'
  BY <1>2 DEF List
<1>4. at \in DOMAIN updates /\ at \in Positions /\ cur.type \in {"Register", "Deregister"}
  BY <1>2, AtWork, ListedUpdates DEF cur
<1>5. ASSUME NEW n \in Names, NEW i \in Positions
      PROVE  /\ Placed(i, n)' <=> IF i = at /\ n[2] = Kind
                                     THEN cur.type = "Register" /\ cur.app = n[1] /\ d.state = "Real"
                                     ELSE Placed(i, n)
             /\ Moved(i, n)' <=> IF i = at /\ n[2] = Kind
                                    THEN cur.type = "Deregister" /\ cur.app = n[1] /\ d.state = "Temporary"
                                    ELSE Moved(i, n)
  <2>1. n[2] \in AllKinds
    BY NamesAre
  <2>2. CASE i = at /\ n[2] = Kind
    BY <1>1, <1>3, <1>4, <2>1, <2>2 DEF Placed, Moved, cur
  <2>3. CASE ~(i = at /\ n[2] = Kind)
    <3>1. i \in DOMAIN updates => updates'[i].det[n[2]] = updates[i].det[n[2]]
      BY <1>1, <2>1, <2>3
    <3> QED
      BY <1>1, <1>3, <2>3, <3>1 DEF Placed, Moved
  <2> QED
    BY <2>2, <2>3
<1>6. ASSUME NEW i \in Positions, NEW k \in AllKinds,
             i \in DOMAIN List', List'[i].type = "Register", List'[i].det[k].state = "Temporary"
      PROVE  \/ i = at /\ k = Kind /\ cur.type = "Register" /\ d.state = "Temporary"
             \/ i \in DOMAIN List /\ List[i].type = "Register" /\ List[i].det[k].state = "Temporary"
                      /\ (i # at \/ k # Kind)
  BY <1>1, <1>3, <1>6 DEF cur
<1> QED
  BY <1>2, <1>4, <1>5, <1>6

(* RenameToReal, when the name is free.                                      *)
LEMMA KnownRenameToReal ==
    ASSUME TypeInv, Shape, FilesInv, FilesKnown, TemporariesOwn, BatchInv, MovedAway, RenameToReal
    PROVE  FilesKnown' /\ TemporariesOwn'
<1>1. CASE Fails /\ UNCHANGED <<diskVars, updates>>
  BY <1>1, KnownQuiet
<1>2. CASE ~(Fails /\ UNCHANGED <<diskVars, updates>>)
  <2> DEFINE kind == Kind
             m == cur.det[Kind].path
             d == [state |-> "Real", path |-> m]
  <2>1. /\ phase = "performing" /\ step = "move" /\ Working /\ cur.type = "Register" /\ ~Open(m)
        /\ real' = [real EXCEPT ![m] = temp[<<at, kind>>]]
        /\ temp' = [temp EXCEPT ![<<at, kind>>] = Nothing]
        /\ UNCHANGED <<logFile, before, batch>>
    BY <1>2 DEF RenameToReal, Working, logVars, ghostVars
  <2>2. Dealing(d)
    BY <1>2, Renaming
  <2>3. /\ kind \in AllKinds /\ <<at, kind>> \in Slots /\ FilesFit(updates)
        /\ cur.det[kind].state = "Temporary" /\ m = <<cur.app, kind>> /\ m \in Names
    BY <2>1, FileAtWork
  <2>4. m[1] = cur.app /\ m[2] = kind
    BY <2>3
  <2> HIDE DEF m
  <2>5. d.state = "Real"
    OBVIOUS
  <2> HIDE DEF d
  <2>6. /\ logFile /\ logFile' /\ ~Recovering /\ ~Recovering' /\ at \in Positions /\ at \in DOMAIN updates
        /\ \A n \in Names, i \in Positions :
              /\ Placed(i, n)' <=> (i = at /\ n = m) \/ Placed(i, n)
              /\ Moved(i, n)' <=> Moved(i, n)
    <3>1. logFile /\ logFile' /\ ~Recovering /\ ~Recovering' /\ at \in Positions /\ at \in DOMAIN updates
      BY <2>1, <2>2, DealtPlaces
    <3>2. ASSUME NEW n \in Names, NEW i \in Positions
          PROVE  /\ Placed(i, n)' <=> (i = at /\ n = m) \/ Placed(i, n)
                 /\ Moved(i, n)' <=> Moved(i, n)
      <4>1. /\ Placed(i, n)' <=> IF i = at /\ n[2] = kind THEN cur.app = n[1] ELSE Placed(i, n)
            /\ Moved(i, n)' <=> IF i = at /\ n[2] = kind THEN FALSE ELSE Moved(i, n)
        BY <2>1, <2>2, <2>5, DealtPlaces
      <4>2. n = m <=> n[1] = cur.app /\ n[2] = kind
        BY <2>3, NamesAre
      <4>3. ~Moved(at, n)
        BY <2>1, <3>1, ListIs DEF Moved, cur
      <4>4. n[2] = kind => ~Placed(at, n)
        BY <2>3, <3>1, ListIs DEF Placed, cur
      <4> QED
        BY <4>1, <4>2, <4>3, <4>4
    <3> QED
      BY <3>1, <3>2
  <2>7. real' = [real EXCEPT ![m] = at]
    <3>1. temp[<<at, kind>>] = at
      BY <2>1, <2>3, <2>6, ListIs DEF TemporariesOwn, cur
    <3> QED
      BY <2>1, <3>1
  <2>8. DOMAIN real = Names /\ DOMAIN temp = Slots /\ PlacedKnown /\ MovedKnown /\ NamesKnown
    BY <2>6, FilesTyped DEF FilesKnown
  <2>9. \A i \in Positions : ~Placed(i, m)
    BY <2>1, <2>3, <2>6, PlacedIs
  <2>10. PlacedKnown'
    <3> SUFFICES ASSUME NEW n \in Names, NEW i \in Positions, Placed(i, n)' PROVE real'[n] = i
      BY DEF PlacedKnown
    <3>1. CASE n = m
      BY <2>3, <2>6, <2>7, <2>8, <2>9, <3>1
    <3>2. CASE n # m
      <4>1. Placed(i, n)
        BY <2>6, <3>2
      <4> QED
        BY <2>7, <2>8, <3>2, <4>1 DEF PlacedKnown
    <3> QED
      BY <3>1, <3>2
  <2>11. MovedKnown'
    <3> SUFFICES ASSUME NEW n \in Names, NEW i \in Positions, Moved(i, n)'
                 PROVE  temp'[<<i, n[2]>>] = before'[n] /\ \A j \in Positions : Moved(j, n)' => j = i
      BY DEF MovedKnown
    <3>1. Moved(i, n) /\ i # at
      <4>1. Moved(i, n)
        BY <2>6
      <4> QED
        BY <2>1, <2>6, <4>1, ListIs DEF Moved, cur
    <3>2. temp'[<<i, n[2]>>] = temp[<<i, n[2]>>]
      BY <2>1, <2>8, <3>1
    <3> QED
      BY <2>1, <2>6, <2>8, <3>1, <3>2 DEF MovedKnown
  <2>12. before[m] = Nothing \/ IsMoved(m)
    <3>1. /\ Base = before /\ Len(batch) = Len(updates) /\ batch \in Seq(Promise!Requests)
          /\ \A i \in DOMAIN batch :
              /\ batch[i].type = updates[i].type /\ batch[i].app = updates[i].app
              /\ updates[i].type = "Register" =>
                   \A k \in AllKinds : updates[i].det[k].path # NoName <=> k \in batch[i].kinds
      BY <2>1, <2>6 DEF Base, BatchInv, BatchKnown
    <3>2. DOMAIN batch = DOMAIN updates /\ \A i \in DOMAIN updates : i \in Nat
      BY <3>1, UpdatesTyped
    <3>3. cur.det[kind].path # NoName
      BY <2>3, NamesNotEmpty DEF m
    <3>4. batch[at].type = "Register" /\ batch[at].app = cur.app /\ kind \in batch[at].kinds
      BY <2>1, <2>3, <2>6, <3>1, <3>2, <3>3 DEF cur
    <3>5. \/ \A k \in batch[at].kinds : before[<<batch[at].app, k>>] = Nothing
          \/ \E i \in DOMAIN batch : i < at /\ batch[i].type = "Deregister" /\ batch[i].app = batch[at].app
      BY <2>1, <2>6, <3>1, <3>2, <3>4 DEF BatchInv, NoneReplaced
    <3>6. CASE \E i \in DOMAIN batch : i < at /\ batch[i].type = "Deregister" /\ batch[i].app = batch[at].app
      <4>1. PICK i \in DOMAIN updates : i < at /\ updates[i].type = "Deregister" /\ updates[i].app = cur.app
        BY <3>1, <3>2, <3>4, <3>6
      <4>2. DoneWith(i, kind)
        BY <4>1 DEF DoneWith
      <4> QED
        BY <2>1, <2>3, <4>1, <4>2 DEF MovedAway
    <3> QED
      BY <2>3, <3>4, <3>5, <3>6
  <2>13. NamesKnown'
    <3> SUFFICES ASSUME NEW n \in Names
                 PROVE  /\ IsMoved(n)' => real'[n] = Nothing \/ IsPlaced(n)'
                        /\ IsPlaced(n)' => before'[n] = Nothing \/ IsMoved(n)'
                        /\ ~IsPlaced(n)' /\ ~IsMoved(n)' => real'[n] = before'[n]
      BY DEF NamesKnown
    <3>1. IsMoved(n)' <=> IsMoved(n)
      BY <2>6 DEF IsMoved
    <3>2. CASE n = m
      <4>1. IsPlaced(n)'
        BY <2>6, <3>2 DEF IsPlaced
      <4> QED
        BY <2>1, <2>12, <3>1, <3>2, <4>1
    <3>3. CASE n # m
      <4>1. IsPlaced(n)' <=> IsPlaced(n)
        BY <2>6, <3>3 DEF IsPlaced
      <4>2. real'[n] = real[n]
        BY <2>7, <2>8, <3>3
      <4> QED
        BY <2>1, <2>8, <3>1, <4>1, <4>2 DEF NamesKnown
    <3> QED
      BY <3>2, <3>3
  <2>14. TemporariesOwn'
    <3> SUFFICES ASSUME NEW i \in Positions, NEW k \in AllKinds,
                        i \in DOMAIN List', List'[i].type = "Register", List'[i].det[k].state = "Temporary"
                 PROVE  temp'[<<i, k>>] = i
      BY DEF TemporariesOwn
    <3>1. /\ i \in DOMAIN List /\ List[i].type = "Register" /\ List[i].det[k].state = "Temporary"
          /\ (i # at \/ k # kind)
      BY <2>1, <2>2, <2>5, DealtPlaces
    <3>2. temp[<<i, k>>] = i
      BY <3>1 DEF TemporariesOwn
    <3> QED
      BY <2>1, <2>8, <3>1, <3>2
  <2> QED
    BY <2>10, <2>11, <2>13, <2>14 DEF FilesKnown
<1> QED
  BY <1>1, <1>2

(* RenameToTemporary: what a deregistration moves away was there before the  *)
(* batch.                                                                    *)
LEMMA KnownRenameToTemporary ==
    ASSUME TypeInv, Shape, FilesInv, FilesKnown, TemporariesOwn, RenameToTemporary
    PROVE  FilesKnown' /\ TemporariesOwn'
<1> DEFINE kind == Kind
           m == cur.det[Kind].path
           d == [state |-> "Temporary", path |-> m]
<1>1. /\ phase = "performing" /\ step = "move" /\ Working /\ cur.type = "Deregister"
      /\ temp' = [temp EXCEPT ![<<at, kind>>] = real[m]]
      /\ real' = [real EXCEPT ![m] = Nothing]
      /\ UNCHANGED <<logFile, before>>
  BY DEF RenameToTemporary, Working, logVars, ghostVars
<1>2. Dealing(d)
  BY RenamingAway
<1>3. /\ kind \in AllKinds /\ <<at, kind>> \in Slots /\ FilesFit(updates)
      /\ cur.det[kind].state = "Real" /\ m = <<cur.app, kind>> /\ m \in Names
  BY <1>1, FileAtWork
<1>4. m[1] = cur.app /\ m[2] = kind
  BY <1>3
<1>5. cur.det[kind].path = m
  OBVIOUS
<1> HIDE DEF m
<1>6. d.state = "Temporary"
  OBVIOUS
<1> HIDE DEF d
<1>7. /\ logFile /\ logFile' /\ ~Recovering /\ ~Recovering' /\ at \in Positions /\ at \in DOMAIN updates
      /\ \A n \in Names, i \in Positions :
            /\ Placed(i, n)' <=> Placed(i, n)
            /\ Moved(i, n)' <=> (i = at /\ n = m) \/ Moved(i, n)
  <2>1. logFile /\ logFile' /\ ~Recovering /\ ~Recovering' /\ at \in Positions /\ at \in DOMAIN updates
    BY <1>1, <1>2, DealtPlaces
  <2>2. ASSUME NEW n \in Names, NEW i \in Positions
        PROVE  /\ Placed(i, n)' <=> Placed(i, n)
               /\ Moved(i, n)' <=> (i = at /\ n = m) \/ Moved(i, n)
    <3>1. /\ Placed(i, n)' <=> IF i = at /\ n[2] = kind THEN FALSE ELSE Placed(i, n)
          /\ Moved(i, n)' <=> IF i = at /\ n[2] = kind THEN cur.app = n[1] ELSE Moved(i, n)
      BY <1>1, <1>2, <1>6, DealtPlaces
    <3>2. n = m <=> n[1] = cur.app /\ n[2] = kind
      BY <1>3, NamesAre
    <3>3. ~Placed(at, n)
      BY <1>1, <2>1, ListIs DEF Placed, cur
    <3>4. n[2] = kind => ~Moved(at, n)
      BY <1>3, <2>1, ListIs DEF Moved, cur
    <3> QED
      BY <3>1, <3>2, <3>3, <3>4
  <2> QED
    BY <2>1, <2>2
<1>8. DOMAIN real = Names /\ DOMAIN temp = Slots /\ PlacedKnown /\ MovedKnown /\ NamesKnown
  BY <1>7, FilesTyped DEF FilesKnown
<1>9. ~IsPlaced(m)
  <2> SUFFICES ASSUME NEW i \in Positions, Placed(i, m) PROVE FALSE
    BY DEF IsPlaced
  <2>1. i \in DOMAIN updates /\ updates[i].type = "Register" /\ updates[i].det[kind] = [state |-> "Real", path |-> m]
    BY <1>3, <1>4, <1>7, PlacedIs
  <2>2. updates[at].det[kind].state = "Real" /\ updates[at].det[kind] = [state |-> "Real", path |-> m]
    <3>1. cur.det[kind] \in Details
      BY <1>1, <1>3, <1>7, ListedUpdates DEF Updates, cur
    <3> QED
      BY <1>3, <1>5, <3>1 DEF Details, cur
  <2>3. at = i
    BY <1>3, <1>7, <2>1, <2>2, UpdatesTyped DEF FilesFit, Openable
  <2> QED
    BY <1>1, <2>1, <2>3 DEF cur
<1>10. ~IsMoved(m)
  <2>1. real[m] # Nothing
    BY <1>3, <1>5, <1>7 DEF FilesFit, AreThere, cur
  <2> QED
    BY <1>3, <1>8, <1>9, <2>1 DEF NamesKnown
<1>11. real[m] = before[m]
  BY <1>3, <1>8, <1>9, <1>10 DEF NamesKnown
<1>12. PlacedKnown'
  <2> SUFFICES ASSUME NEW n \in Names, NEW i \in Positions, Placed(i, n)' PROVE real'[n] = i
    BY DEF PlacedKnown
  <2>1. Placed(i, n) /\ n # m
    BY <1>7, <1>9 DEF IsPlaced
  <2> QED
    BY <1>1, <1>8, <2>1 DEF PlacedKnown
<1>13. MovedKnown'
  <2> SUFFICES ASSUME NEW n \in Names, NEW i \in Positions, Moved(i, n)'
               PROVE  temp'[<<i, n[2]>>] = before[n] /\ \A j \in Positions : Moved(j, n)' => j = i
    BY <1>1 DEF MovedKnown
  <2>1. CASE n = m
    <3>1. i = at /\ \A j \in Positions : Moved(j, n)' => j = i
      BY <1>7, <1>10, <2>1 DEF IsMoved
    <3>2. temp'[<<at, kind>>] = real[m]
      BY <1>1, <1>3, <1>8
    <3> QED
      BY <1>4, <1>11, <2>1, <3>1, <3>2
  <2>2. CASE n # m
    <3>1. Moved(i, n) /\ \A j \in Positions : Moved(j, n)' => Moved(j, n)
      BY <1>7, <2>2
    <3>2. <<i, n[2]>> # <<at, kind>>
      <4>1. i = at => n[1] = cur.app
        BY <1>7, <3>1, ListIs DEF Moved, cur
      <4> QED
        BY <1>3, <2>2, <4>1, NamesAre
    <3>3. temp'[<<i, n[2]>>] = temp[<<i, n[2]>>]
      BY <1>1, <1>8, <3>2, NamesAre DEF Slots, Positions
    <3> QED
      BY <1>8, <3>1, <3>3 DEF MovedKnown
  <2> QED
    BY <2>1, <2>2
<1>14. NamesKnown'
  <2> SUFFICES ASSUME NEW n \in Names
               PROVE  /\ IsMoved(n)' => real'[n] = Nothing \/ IsPlaced(n)'
                      /\ IsPlaced(n)' => before'[n] = Nothing \/ IsMoved(n)'
                      /\ ~IsPlaced(n)' /\ ~IsMoved(n)' => real'[n] = before'[n]
    BY DEF NamesKnown
  <2>1. IsPlaced(n)' <=> IsPlaced(n)
    BY <1>7 DEF IsPlaced
  <2>2. CASE n = m
    <3>1. IsMoved(n)'
      BY <1>7, <2>2 DEF IsMoved
    <3>2. real'[n] = Nothing
      BY <1>1, <1>8, <2>2
    <3> QED
      BY <3>1, <3>2
  <2>3. CASE n # m
    <3>1. IsMoved(n)' <=> IsMoved(n)
      BY <1>7, <2>3 DEF IsMoved
    <3>2. real'[n] = real[n]
      BY <1>1, <1>8, <2>3
    <3> QED
      BY <1>1, <1>8, <2>1, <3>1, <3>2 DEF NamesKnown
  <2> QED
    BY <2>2, <2>3
<1>15. TemporariesOwn'
  <2> SUFFICES ASSUME NEW i \in Positions, NEW k \in AllKinds,
                      i \in DOMAIN List', List'[i].type = "Register", List'[i].det[k].state = "Temporary"
               PROVE  temp'[<<i, k>>] = i
    BY DEF TemporariesOwn
  <2>1. /\ i \in DOMAIN List /\ List[i].type = "Register" /\ List[i].det[k].state = "Temporary"
        /\ (i # at \/ k # kind)
    BY <1>1, <1>2, DealtPlaces
  <2>2. temp[<<i, k>>] = i
    BY <2>1 DEF TemporariesOwn
  <2>3. <<i, k>> \in Slots /\ <<i, k>> # <<at, kind>>
    BY <2>1 DEF Slots, Positions
  <2> QED
    BY <1>1, <1>8, <2>2, <2>3
<1> QED
  BY <1>12, <1>13, <1>14, <1>15 DEF FilesKnown

(* A file of the update at work is dealt with in a rollback: it is no more   *)
(* in place, or no more away.                                                *)
LEMMA UndonePlaces ==
    ASSUME TypeInv, Shape, FilesInv, Delete \/ RestoreReal
    PROVE  LET m == <<cur.app, Kind>> IN
           /\ logFile /\ logFile' /\ ~Recovering /\ ~Recovering' /\ at \in Positions /\ at \in DOMAIN updates
           /\ m \in Names /\ Kind \in AllKinds /\ <<at, Kind>> \in Slots /\ FilesFit(updates)
           /\ cur.det[Kind].state # "Null" => cur.det[Kind].path = m
           /\ cur.det[Kind] \in Details
           /\ \A n \in Names, i \in Positions :
                /\ Placed(i, n)' <=> Placed(i, n) /\ ~(i = at /\ n = m)
                /\ Moved(i, n)' <=> Moved(i, n) /\ ~(i = at /\ n = m)
           /\ Placed(at, m) <=> cur.type = "Register" /\ cur.det[Kind].state = "Real"
           /\ Moved(at, m) <=> cur.type = "Deregister" /\ cur.det[Kind].state = "Temporary"
<1> DEFINE kind == Kind
           m == <<cur.app, Kind>>
<1>1. Dealing(NoDetails) /\ Working /\ step = "undo" /\ UNCHANGED <<logFile, before>>
  BY Undoing DEF Delete, RestoreReal, logVars, ghostVars, Working
<1>2. /\ kind \in AllKinds /\ <<at, kind>> \in Slots /\ FilesFit(updates) /\ cur.app \in Apps
      /\ cur.det[kind].state # "Null" => cur.det[kind].path = <<cur.app, kind>>
      /\ cur.det[kind] \in Details
  BY <1>1, FileAtWork
<1>3. m \in Names /\ m[1] = cur.app /\ m[2] = kind
  BY <1>2 DEF Names
<1> HIDE DEF m
<1>4. logFile /\ logFile' /\ ~Recovering /\ ~Recovering' /\ at \in Positions /\ at \in DOMAIN updates
  BY <1>1, DealtPlaces
<1>5. NoDetails.state = "Null"
  BY DEF NoDetails
<1>6. ASSUME NEW n \in Names, NEW i \in Positions
      PROVE  /\ Placed(i, n)' <=> Placed(i, n) /\ ~(i = at /\ n = m)
             /\ Moved(i, n)' <=> Moved(i, n) /\ ~(i = at /\ n = m)
  <2>1. /\ Placed(i, n)' <=> IF i = at /\ n[2] = kind THEN FALSE ELSE Placed(i, n)
        /\ Moved(i, n)' <=> IF i = at /\ n[2] = kind THEN FALSE ELSE Moved(i, n)
    BY <1>1, <1>5, DealtPlaces
  <2>2. n = m <=> n[1] = cur.app /\ n[2] = kind
    BY <1>3, NamesAre
  <2>3. Placed(at, n) \/ Moved(at, n) => n[1] = cur.app
    BY <1>4, ListIs DEF Placed, Moved, cur
  <2> QED
    BY <2>1, <2>2, <2>3
<1>7. /\ Placed(at, m) <=> cur.type = "Register" /\ cur.det[kind].state = "Real"
      /\ Moved(at, m) <=> cur.type = "Deregister" /\ cur.det[kind].state = "Temporary"
  BY <1>3, <1>4, ListIs DEF Placed, Moved, cur
<1> QED
  BY <1>2, <1>3, <1>4, <1>6, <1>7 DEF m

(* Delete.                                                                   *)
LEMMA KnownDelete ==
    ASSUME TypeInv, Shape, FilesInv, FilesKnown, TemporariesOwn, Delete
    PROVE  FilesKnown' /\ TemporariesOwn'
<1> DEFINE kind == Kind
           m == <<cur.app, Kind>>
           d == cur.det[Kind]
<1>1. /\ phase = "rollingBack" /\ cur.type = "Register"
      /\ real' = IF d.state = "Real" THEN [real EXCEPT ![d.path] = Nothing] ELSE real
      /\ temp' = IF d.state = "Temporary" THEN [temp EXCEPT ![<<at, kind>>] = Nothing] ELSE temp
      /\ UNCHANGED <<logFile, before>> /\ Dealing(NoDetails)
  BY Undoing DEF Delete, logVars, ghostVars
<1>2. /\ logFile /\ logFile' /\ ~Recovering /\ ~Recovering' /\ at \in Positions /\ at \in DOMAIN updates
      /\ m \in Names /\ kind \in AllKinds /\ <<at, kind>> \in Slots /\ FilesFit(updates)
      /\ d.state # "Null" => d.path = m
      /\ d \in Details
      /\ Placed(at, m) <=> d.state = "Real"
  BY <1>1, UndonePlaces
<1>3. \A n \in Names, i \in Positions :
            /\ Placed(i, n)' <=> Placed(i, n) /\ ~(i = at /\ n = m)
            /\ Moved(i, n)' <=> Moved(i, n) /\ ~(i = at /\ n = m)
  BY UndonePlaces
<1> HIDE DEF m, d
<1>4. \A n \in Names : ~Moved(at, n)
  BY <1>1, <1>2, ListIs DEF Moved, cur
<1>5. DOMAIN real = Names /\ DOMAIN temp = Slots /\ PlacedKnown /\ MovedKnown /\ NamesKnown
  BY <1>2, FilesTyped DEF FilesKnown
<1>6. /\ \A n \in Names : n # m => real'[n] = real[n]
      /\ real'[m] = IF d.state = "Real" THEN Nothing ELSE real[m]
      /\ \A s \in Slots : s # <<at, kind>> => temp'[s] = temp[s]
  BY <1>1, <1>2, <1>5
<1>7. d.state = "Real" => \A i \in Positions : Placed(i, m) => i = at
  <2> SUFFICES ASSUME d.state = "Real", NEW i \in Positions, Placed(i, m) PROVE i = at
    OBVIOUS
  <2>1. m[2] = kind
    BY DEF m
  <2>2. i \in DOMAIN updates /\ updates[i].det[kind] = [state |-> "Real", path |-> m]
    BY <1>2, <2>1, PlacedIs
  <2>3. updates[at].det[kind] = [state |-> "Real", path |-> m] /\ updates[at].det[kind].state = "Real"
    BY <1>2 DEF Details, d, cur
  <2> QED
    BY <1>2, <2>2, <2>3, UpdatesTyped DEF FilesFit, Openable
<1>8. PlacedKnown'
  <2> SUFFICES ASSUME NEW n \in Names, NEW i \in Positions, Placed(i, n)' PROVE real'[n] = i
    BY DEF PlacedKnown
  <2>1. Placed(i, n) /\ ~(n = m /\ d.state = "Real")
    BY <1>3, <1>7
  <2> QED
    BY <1>5, <1>6, <2>1 DEF PlacedKnown
<1>9. MovedKnown'
  <2> SUFFICES ASSUME NEW n \in Names, NEW i \in Positions, Moved(i, n)'
               PROVE  temp'[<<i, n[2]>>] = before[n] /\ \A j \in Positions : Moved(j, n)' => j = i
    BY <1>1 DEF MovedKnown
  <2>1. Moved(i, n) /\ i # at /\ \A j \in Positions : Moved(j, n)' => Moved(j, n)
    BY <1>3, <1>4
  <2>2. temp'[<<i, n[2]>>] = temp[<<i, n[2]>>]
    <3>1. <<i, n[2]>> \in Slots
      BY NamesAre DEF Slots, Positions
    <3> QED
      BY <1>6, <2>1, <3>1
  <2> QED
    BY <1>5, <2>1, <2>2 DEF MovedKnown
<1>10. NamesKnown'
  <2> SUFFICES ASSUME NEW n \in Names
               PROVE  /\ IsMoved(n)' => real'[n] = Nothing \/ IsPlaced(n)'
                      /\ IsPlaced(n)' => before'[n] = Nothing \/ IsMoved(n)'
                      /\ ~IsPlaced(n)' /\ ~IsMoved(n)' => real'[n] = before'[n]
    BY DEF NamesKnown
  <2>1. IsMoved(n)' <=> IsMoved(n)
    BY <1>3, <1>4 DEF IsMoved
  <2>2. CASE n = m /\ d.state = "Real"
    <3>1. ~IsPlaced(n)' /\ IsPlaced(n) /\ real'[n] = Nothing
      BY <1>2, <1>3, <1>6, <1>7, <2>2 DEF IsPlaced
    <3> QED
      BY <1>1, <1>5, <2>1, <3>1 DEF NamesKnown
  <2>3. CASE ~(n = m /\ d.state = "Real")
    <3>1. (IsPlaced(n)' <=> IsPlaced(n)) /\ real'[n] = real[n]
      BY <1>2, <1>3, <1>6, <2>3 DEF IsPlaced
    <3> QED
      BY <1>1, <1>5, <2>1, <3>1 DEF NamesKnown
  <2> QED
    BY <2>2, <2>3
<1>11. TemporariesOwn'
  <2> SUFFICES ASSUME NEW i \in Positions, NEW k \in AllKinds,
                      i \in DOMAIN List', List'[i].type = "Register", List'[i].det[k].state = "Temporary"
               PROVE  temp'[<<i, k>>] = i
    BY DEF TemporariesOwn
  <2>1. /\ i \in DOMAIN List /\ List[i].type = "Register" /\ List[i].det[k].state = "Temporary"
        /\ (i # at \/ k # kind)
    <3>1. NoDetails.state # "Temporary"
      BY DEF NoDetails
    <3> QED
      BY <1>1, <3>1, DealtPlaces
  <2>2. temp[<<i, k>>] = i
    BY <2>1 DEF TemporariesOwn
  <2>3. <<i, k>> \in Slots /\ <<i, k>> # <<at, kind>>
    BY <2>1 DEF Slots, Positions
  <2> QED
    BY <1>6, <2>2, <2>3
<1> QED
  BY <1>8, <1>9, <1>10, <1>11 DEF FilesKnown

(* RestoreReal.                                                              *)
LEMMA KnownRestoreReal ==
    ASSUME TypeInv, Shape, FilesInv, FilesKnown, TemporariesOwn, RestoreReal
    PROVE  FilesKnown' /\ TemporariesOwn'
<1> DEFINE kind == Kind
           m == <<cur.app, Kind>>
           d == cur.det[Kind]
           away == d.state = "Temporary"
<1>1. /\ phase = "rollingBack" /\ cur.type = "Deregister" /\ (away => ~Open(d.path))
      /\ real' = IF away THEN [real EXCEPT ![d.path] = temp[<<at, kind>>]] ELSE real
      /\ temp' = IF away THEN [temp EXCEPT ![<<at, kind>>] = Nothing] ELSE temp
      /\ UNCHANGED <<logFile, before>> /\ Dealing(NoDetails)
  BY Undoing, ComesBack DEF RestoreReal, logVars, ghostVars
<1>2. /\ logFile /\ logFile' /\ ~Recovering /\ ~Recovering' /\ at \in Positions /\ at \in DOMAIN updates
      /\ m \in Names /\ kind \in AllKinds /\ <<at, kind>> \in Slots /\ FilesFit(updates)
      /\ d.state # "Null" => d.path = m
      /\ Moved(at, m) <=> away
  BY <1>1, UndonePlaces
<1>3. \A n \in Names, i \in Positions :
            /\ Placed(i, n)' <=> Placed(i, n) /\ ~(i = at /\ n = m)
            /\ Moved(i, n)' <=> Moved(i, n) /\ ~(i = at /\ n = m)
  BY UndonePlaces
<1>4. m[1] = cur.app /\ m[2] = kind
  OBVIOUS
<1> HIDE DEF m, d
<1>5. \A n \in Names : ~Placed(at, n)
  BY <1>1, <1>2, ListIs DEF Placed, cur
<1>6. DOMAIN real = Names /\ DOMAIN temp = Slots /\ PlacedKnown /\ MovedKnown /\ NamesKnown
  BY <1>2, FilesTyped DEF FilesKnown
<1>7. away => /\ temp[<<at, kind>>] = before[m]
              /\ \A j \in Positions : Moved(j, m) => j = at
  BY <1>2, <1>4, <1>6 DEF MovedKnown
<1>8. /\ \A n \in Names : n # m => real'[n] = real[n]
      /\ real'[m] = IF away THEN before[m] ELSE real[m]
      /\ \A s \in Slots : s # <<at, kind>> => temp'[s] = temp[s]
  <2>1. CASE away
    <3>1. d.path = m
      BY <1>2, <2>1
    <3> QED
      BY <1>1, <1>2, <1>6, <1>7, <2>1, <3>1
  <2>2. CASE ~away
    BY <1>1, <2>2
  <2> QED
    BY <2>1, <2>2
<1>9. away => ~IsPlaced(m)
  BY <1>1, <1>2, PlacedIs DEF IsPlaced
<1>10. PlacedKnown'
  <2> SUFFICES ASSUME NEW n \in Names, NEW i \in Positions, Placed(i, n)' PROVE real'[n] = i
    BY DEF PlacedKnown
  <2>1. Placed(i, n) /\ ~(n = m /\ away)
    BY <1>3, <1>9 DEF IsPlaced
  <2> QED
    BY <1>6, <1>8, <2>1 DEF PlacedKnown
<1>11. MovedKnown'
  <2> SUFFICES ASSUME NEW n \in Names, NEW i \in Positions, Moved(i, n)'
               PROVE  temp'[<<i, n[2]>>] = before[n] /\ \A j \in Positions : Moved(j, n)' => j = i
    BY <1>1 DEF MovedKnown
  <2>1. Moved(i, n) /\ ~(i = at /\ n = m) /\ \A j \in Positions : Moved(j, n)' => Moved(j, n)
    BY <1>3
  <2>2. <<i, n[2]>> \in Slots /\ <<i, n[2]>> # <<at, kind>>
    <3>1. i = at => n[1] = cur.app
      BY <1>2, <2>1, ListIs DEF Moved, cur
    <3> QED
      BY <2>1, <3>1, NamesAre DEF m, Slots, Positions
  <2>3. temp'[<<i, n[2]>>] = temp[<<i, n[2]>>]
    BY <1>8, <2>2
  <2> QED
    BY <1>6, <2>1, <2>3 DEF MovedKnown
<1>12. NamesKnown'
  <2> SUFFICES ASSUME NEW n \in Names
               PROVE  /\ IsMoved(n)' => real'[n] = Nothing \/ IsPlaced(n)'
                      /\ IsPlaced(n)' => before'[n] = Nothing \/ IsMoved(n)'
                      /\ ~IsPlaced(n)' /\ ~IsMoved(n)' => real'[n] = before'[n]
    BY DEF NamesKnown
  <2>1. IsPlaced(n)' <=> IsPlaced(n)
    BY <1>3, <1>5 DEF IsPlaced
  <2>2. CASE n = m /\ away
    <3>1. ~IsMoved(n)' /\ ~IsPlaced(n)' /\ real'[n] = before[n]
      BY <1>3, <1>7, <1>8, <1>9, <2>1, <2>2 DEF IsMoved
    <3> QED
      BY <1>1, <3>1
  <2>3. CASE ~(n = m /\ away)
    <3>1. (IsMoved(n)' <=> IsMoved(n)) /\ real'[n] = real[n]
      BY <1>2, <1>3, <1>8, <2>3 DEF IsMoved
    <3> QED
      BY <1>1, <1>6, <2>1, <3>1 DEF NamesKnown
  <2> QED
    BY <2>2, <2>3
<1>13. TemporariesOwn'
  <2> SUFFICES ASSUME NEW i \in Positions, NEW k \in AllKinds,
                      i \in DOMAIN List', List'[i].type = "Register", List'[i].det[k].state = "Temporary"
               PROVE  temp'[<<i, k>>] = i
    BY DEF TemporariesOwn
  <2>1. /\ i \in DOMAIN List /\ List[i].type = "Register" /\ List[i].det[k].state = "Temporary"
        /\ (i # at \/ k # kind)
    BY <1>1, DealtPlaces
  <2>2. temp[<<i, k>>] = i
    BY <2>1 DEF TemporariesOwn
  <2>3. <<i, k>> \in Slots /\ <<i, k>> # <<at, kind>>
    BY <2>1 DEF Slots, Positions
  <2> QED
    BY <1>8, <2>2, <2>3
<1> QED
  BY <1>10, <1>11, <1>12, <1>13 DEF FilesKnown

(* Commit: the files there are are those there were.                         *)
LEMMA KnownCommit ==
    ASSUME TypeInv, Shape, FilesInv, TemporariesOwn, Commit
    PROVE  FilesKnown' /\ TemporariesOwn'
<1>1. /\ phase = "prepared" /\ phase' \in {"performing", "closing"} /\ before' = real
      /\ UNCHANGED <<real, temp, updates>>
  BY DEF Commit, PerformFrom, diskVars
<1>2. List = updates /\ List' = updates'
  BY <1>1 DEF List, Recovering
<1>3. ASSUME NEW n \in Names, NEW i \in Positions PROVE ~Placed(i, n)' /\ ~Moved(i, n)'
  <2>1. result # "ok"
    BY <1>1 DEF Shape
  <2> QED
    BY <1>1, <1>2, <2>1, NoneInPlace, NamesAre DEF Placed, Moved
<1>4. PlacedKnown' /\ MovedKnown'
  BY <1>3 DEF PlacedKnown, MovedKnown
<1>5. NamesKnown'
  BY <1>1, <1>3 DEF NamesKnown, IsPlaced, IsMoved
<1>6. TemporariesOwn'
  BY <1>1, <1>2 DEF TemporariesOwn
<1> QED
  BY <1>4, <1>5, <1>6 DEF FilesKnown

(* Register and Deregister.                                                  *)
LEMMA KnownAsked ==
    ASSUME TypeInv, TemporariesOwn, NEW type \in Types, NEW a \in Apps, NEW kinds,
           Asked(type, a, kinds),
           IF type = "Register"
           THEN temp' = [s \in Slots |-> IF s[1] = Len(updates) + 1 /\ s[2] \in kinds
                                         THEN Len(updates) + 1 ELSE temp[s]]
           ELSE temp' = temp
    PROVE  FilesKnown' /\ TemporariesOwn'
<1> DEFINE m == Len(updates) + 1
<1>1. phase = "prepared" /\ ~Recovering /\ ~Recovering' /\ UNCHANGED logFile
  BY NewUpdateParts
<1>2. ~logFile'
  BY <1>1 DEF TypeInv, TypeOK
<1>3. List = updates /\ List' = updates'
  BY <1>1 DEF List
<1>4. TemporariesOwn'
  <2> SUFFICES ASSUME NEW i \in Positions, NEW k \in AllKinds,
                      i \in DOMAIN List', List'[i].type = "Register", List'[i].det[k].state = "Temporary"
               PROVE  temp'[<<i, k>>] = i
    BY DEF TemporariesOwn
  <2>1. <<i, k>> \in Slots
    BY DEF Slots, Positions
  <2>2. CASE i \in DOMAIN updates
    <3>1. updates'[i] = updates[i] /\ i # m
      BY <2>2, NewUpdateParts, UpdatesTyped
    <3>2. temp[<<i, k>>] = i
      BY <1>3, <2>2, <3>1 DEF TemporariesOwn
    <3> QED
      BY <2>1, <3>1, <3>2
  <2>3. CASE i \notin DOMAIN updates
    <3> DEFINE u == NewUpdate(type, a, IF type = "Register" THEN kinds ELSE {})
    <3>4. /\ u.type = type
          /\ \A l \in AllKinds : u.det[l] = IF type = "Register" /\ l \in kinds
                                           THEN [state |-> "Temporary", path |-> <<a, l>>]
                                           ELSE NoDetails
      BY NewUpdateParts
    <3>6. DOMAIN updates' = DOMAIN updates \cup {Len(updates) + 1}
      BY NewUpdateParts
    <3>7. updates'[Len(updates) + 1] = u
      BY NewUpdateParts
    <3>5. DOMAIN updates' = DOMAIN updates \cup {m} /\ updates'[m] = u
      BY <3>6, <3>7
    <3> HIDE DEF u
    <3>1. /\ DOMAIN updates' = DOMAIN updates \cup {m}
          /\ updates'[m].type = type
          /\ \A l \in AllKinds : updates'[m].det[l] = IF type = "Register" /\ l \in kinds
                                             THEN [state |-> "Temporary", path |-> <<a, l>>]
                                             ELSE NoDetails
      BY <3>4, <3>5
    <3>2. i = m
      BY <1>3, <2>3, <3>1
    <3>3. type = "Register" /\ k \in kinds
      <4>1. NoDetails.state # "Temporary"
        BY DEF NoDetails
      <4> QED
        BY <1>3, <3>1, <3>2, <4>1
    <3> QED
      BY <2>1, <3>2, <3>3
  <2> QED
    BY <2>2, <2>3
<1> QED
  BY <1>2, <1>4 DEF FilesKnown

(* The steps between two batches.                                            *)
LEMMA KnownBetween ==
    ASSUME TypeInv, Shape, TemporariesOwn, Prepare \/ Abort \/ CommitRefused \/ CloseLog \/ Destroy \/ StartUp
    PROVE  FilesKnown' /\ TemporariesOwn'
<1>1. ~logFile'
  BY DEF Prepare, Abort, CommitRefused, CloseLog, Destroy, StartUp, logVars, TypeInv, TypeOK
<1>2. List' = updates'
  BY <1>1 DEF List, Recovering
<1>3. CASE Prepare \/ Abort \/ Destroy \/ StartUp
  <2>1. updates' = <<>>
    BY <1>3 DEF Prepare, Abort, Destroy, StartUp, DestroyList, Shape
  <2> QED
    BY <1>1, <1>2, <2>1 DEF FilesKnown, TemporariesOwn
<1>4. CASE CommitRefused \/ CloseLog
  <2>1. updates' = updates /\ temp' = temp /\ List = updates
    BY <1>4, ListIs DEF CommitRefused, CloseLog, diskVars, Recovering
  <2> QED
    BY <1>1, <1>2, <2>1 DEF FilesKnown, TemporariesOwn
<1> QED
  BY <1>3, <1>4

(* Recover: the list that is rebuilt becomes the one in memory.              *)
LEMMA KnownRecover ==
    ASSUME TypeInv, Shape, FilesInv, LogInv, FilesKnown, TemporariesOwn, Recover
    PROVE  FilesKnown' /\ TemporariesOwn'
<1>1. /\ logFile /\ updates' = List /\ RollBackFrom(Replay(log).cur)
      /\ UNCHANGED <<real, temp, before>>
  BY RecoverIs
<1>2. phase' # "down"
  BY <1>1 DEF RollBackFrom
<1>3. List' = updates'
  BY <1>2 DEF List, Recovering
<1>4. List' = List
  BY <1>1, <1>3
<1> QED
  BY <1>1, <1>4, SameListSamePlaces, FilesSame

(* Crash: what is lost of the list is not in place, and not away.            *)
LEMMA KnownCrash ==
    ASSUME TypeInv, Shape, FilesInv, LogInv, FilesKnown, TemporariesOwn, Sound, Crash
    PROVE  FilesKnown' /\ TemporariesOwn'
<1>1. updates' = <<>> /\ UNCHANGED <<real, temp, logFile, before>>
  BY DEF Crash, diskVars, logVars
<1>2. CASE ~logFile
  <2>1. List' = <<>>
    BY <1>1, <1>2 DEF List, Recovering
  <2> QED
    BY <1>1, <1>2, <2>1 DEF FilesKnown, TemporariesOwn
<1>3. CASE logFile
  <2> DEFINE list == List'
  <2>1. /\ List = updates /\ phase \in {"performing", "rollingBack", "closing"}
        /\ DOMAIN list \subseteq DOMAIN updates
        /\ \A i \in DOMAIN list :
             /\ list[i].type = updates[i].type /\ list[i].app = updates[i].app
             /\ \A k \in AllKinds :
                  \/ list[i].det[k] = updates[i].det[k]
                  \/ /\ updates[i].type = "Deregister" /\ updates[i].det[k].state = "Real"
                     /\ list[i].det[k] = NoDetails
        /\ \A i \in DOMAIN updates : i \notin DOMAIN list => updates[i].state = "New"
    BY <1>3, CrashList
  <2>2. \A i \in DOMAIN updates, k \in AllKinds :
           i \notin DOMAIN list =>
             /\ ~(updates[i].type = "Register" /\ updates[i].det[k].state = "Real")
             /\ ~(updates[i].type = "Deregister" /\ updates[i].det[k].state = "Temporary")
    <3> SUFFICES ASSUME NEW i \in DOMAIN updates, NEW k \in AllKinds, i \notin DOMAIN list
                 PROVE  /\ ~(updates[i].type = "Register" /\ updates[i].det[k].state = "Real")
                        /\ ~(updates[i].type = "Deregister" /\ updates[i].det[k].state = "Temporary")
      OBVIOUS
    <3>1. updates[i].state = "New" /\ FitDetail(updates[i], k) /\ updates[i].type \in {"Register", "Deregister"}
      <4>1. ~Recovering
        BY <2>1 DEF Recovering
      <4> QED
        BY <2>1, <4>1, ListedUpdates DEF FilesInv, FilesFit, FitDetails
    <3>2. NoDetails.state = "Null"
      BY DEF NoDetails
    <3> QED
      BY <3>1, <3>2 DEF FitDetail
  <2>3. NoDetails.state = "Null"
    BY DEF NoDetails
  <2>4. ASSUME NEW n \in Names, NEW i \in Positions
        PROVE  (Placed(i, n)' <=> Placed(i, n)) /\ (Moved(i, n)' <=> Moved(i, n))
    <3>1. n[2] \in AllKinds
      BY NamesAre
    <3>2. CASE i \notin DOMAIN updates
      BY <2>1, <3>2 DEF Placed, Moved
    <3>3. CASE i \in DOMAIN updates /\ i \notin DOMAIN list
      BY <2>1, <2>2, <3>1, <3>3 DEF Placed, Moved
    <3>4. CASE i \in DOMAIN list
      <4>1. /\ list[i].type = updates[i].type /\ list[i].app = updates[i].app /\ i \in DOMAIN updates
            /\ \/ list[i].det[n[2]] = updates[i].det[n[2]]
               \/ /\ updates[i].type = "Deregister" /\ updates[i].det[n[2]].state = "Real"
                  /\ list[i].det[n[2]] = NoDetails
        BY <2>1, <3>1, <3>4
      <4> QED
        BY <2>1, <2>3, <3>4, <4>1 DEF Placed, Moved
    <3> QED
      BY <2>1, <3>2, <3>3, <3>4
  <2>5. TemporariesOwn'
    <3>1. \A i \in Positions, k \in AllKinds :
             i \in DOMAIN list /\ list[i].type = "Register" /\ list[i].det[k].state = "Temporary"
             => i \in DOMAIN List /\ List[i].type = "Register" /\ List[i].det[k].state = "Temporary"
      BY <2>1
    <3> QED
      BY <1>1, <3>1 DEF TemporariesOwn
  <2> QED
    BY <1>1, <1>3, <2>4, <2>5, FilesSame
<1> QED
  BY <1>2, <1>3

-------------------------------------------------------------------------------
(* The batch, performed update by update. *)

FilesAtWork == {"move", "note", "Performed", "end"}

(* What the updates install does not change with a step that keeps the batch.*)
LEMMA AfterKept == ASSUME UNCHANGED <<before, batch>> PROVE \A i : After(i)' = After(i)
BY DEF After

(* MovedAway, when the deregistrations that are done with a file were        *)
(* before, or have moved it now.                                             *)
LEMMA MovedAwayBy ==
    ASSUME MovedAway, phase = "performing", UNCHANGED before, DOMAIN updates' = DOMAIN updates,
           \A i \in DOMAIN updates : updates'[i].type = updates[i].type /\ updates'[i].app = updates[i].app,
           \A n \in Names, i \in Positions : Moved(i, n) => Moved(i, n)',
           \A i \in DOMAIN updates, k \in AllKinds :
              DoneWith(i, k)' => \/ DoneWith(i, k)
                                 \/ before[<<updates[i].app, k>>] = Nothing
                                 \/ IsMoved(<<updates[i].app, k>>)',
           \A i \in DOMAIN updates : updates[i].app \in Apps
    PROVE  MovedAway'
<1> SUFFICES ASSUME NEW i \in DOMAIN updates, NEW k \in AllKinds, DoneWith(i, k)'
             PROVE  before'[<<updates'[i].app, k>>] = Nothing \/ IsMoved(<<updates[i].app, k>>)'
  BY DEF MovedAway
<1>1. PICK a \in Apps : a = updates[i].app
  OBVIOUS
<1>2. updates'[i].app = a /\ <<a, k>> \in Names
  BY <1>1 DEF Names
<1>3. IsMoved(<<a, k>>) => IsMoved(<<a, k>>)'
  BY <1>2 DEF IsMoved
<1>4. DoneWith(i, k) => before[<<a, k>>] = Nothing \/ IsMoved(<<a, k>>)
  BY <1>1 DEF MovedAway
<1>5. IsMoved(<<updates[i].app, k>>)' <=> IsMoved(<<a, k>>)'
  BY <1>1, <1>2
<1>6. DoneWith(i, k) \/ before[<<a, k>>] = Nothing \/ IsMoved(<<a, k>>)'
  BY <1>1, <1>5
<1> QED
  BY <1>2, <1>3, <1>4, <1>5, <1>6

(* Forward, while the files of an update are at work.                        *)
LEMMA ForwardBy ==
    ASSUME phase = "performing", UNCHANGED <<phase, at, before, batch>>, step' \in FilesAtWork,
           updates'[at].type = cur.type, updates'[at].app = cur.app,
           \A n \in Names :
              real'[n] = IF n[1] = cur.app /\ n[2] \in Pending' THEN After(at - 1)[n] ELSE After(at)[n],
           cur.type = "Deregister" /\ Pending' # {} => After(at - 1)[<<cur.app, Resource>>] # Nothing
    PROVE  Forward'
<1>1. After(at - 1)' = After(at - 1) /\ After(at)' = After(at)
  BY DEF After
<1>2. cur'.type = cur.type /\ cur'.app = cur.app
  BY DEF cur
<1>3. Advances'
  BY <1>1, <1>2 DEF Advances
<1> QED
  BY <1>3 DEF Forward, FilesAtWork

(* Both say nothing unless a batch is performed, or was without a fault.     *)
LEMMA NotForward ==
    ASSUME phase' # "performing", phase' = "closing" => result' # "ok"
    PROVE  MovedAway' /\ Forward'
BY DEF MovedAway, Forward

(* What is left of an update at work, and what was moved away.               *)
LEMMA PendingIs ==
    /\ step = "note" => Pending = left \ {Kind}
    /\ step # "note" => Pending = left
BY DEF Pending

(* Commit.                                                                   *)
LEMMA ForwardCommit ==
    ASSUME TypeInv, BatchInv, Commit
    PROVE  MovedAway' /\ Forward'
<1>1. /\ phase = "prepared" /\ before' = real /\ UNCHANGED <<real, updates, batch>> /\ at' = 1
      /\ \/ phase' = "performing" /\ step' = "new"
         \/ phase' = "closing" /\ ~(1 <= Len(updates))
  BY UpdatesTyped DEF Commit, PerformFrom, diskVars
<1>2. batch \in Seq(Promise!Requests) /\ Len(batch) = Len(updates)
  BY <1>1 DEF BatchInv, BatchKnown
<1>3. Promise!Effect(real, SubSeq(batch, 1, 0)) = real
  BY <1>2, EffectSteps
<1>4. MovedAway'
  <2> SUFFICES ASSUME phase' = "performing", NEW i \in DOMAIN updates, NEW k \in AllKinds, DoneWith(i, k)' PROVE FALSE
    BY <1>1 DEF MovedAway
  <2>1. i \in Nat /\ i >= 1
    BY UpdatesTyped
  <2>2. ~(i < at') /\ step' = "new"
    BY <1>1, <2>1
  <2> QED
    BY <2>2 DEF DoneWith
<1>5. Forward'
  <2>1. CASE phase' = "performing"
    <3>1. step' = "new" /\ at' - 1 = 0
      BY <1>1, <2>1
    <3>2. After(at - 1)' = real
      BY <1>1, <1>3, <3>1 DEF After
    <3> QED
      BY <1>1, <2>1, <3>1, <3>2 DEF Forward
  <2>2. CASE phase' = "closing"
    <3>1. Len(batch) = 0
      BY <1>1, <1>2, <2>2, UpdatesTyped
    <3>2. Promise!Effect(real, SubSeq(batch, 1, Len(batch))) = Promise!Effect(real, batch)
      BY <1>2, EffectSteps
    <3>3. Promise!Effect(before, batch)' = real
      BY <1>1, <1>3, <3>1, <3>2
    <3> QED
      BY <1>1, <2>2, <3>3 DEF Forward
  <2> QED
    BY <1>1, <2>1, <2>2
<1> QED
  BY <1>4, <1>5

(* A record of the log that does not end an update.                          *)
LEMMA ForwardLogStep ==
    ASSUME TypeInv, Shape, FilesInv, PromiseInv, WriteNew \/ WriteSection \/ StateChange \/ Continuation
    PROVE  MovedAway' /\ Forward'
<1>1. CASE phase # "performing"
  <2>1. phase = "rollingBack" /\ UNCHANGED phase
    BY <1>1 DEF WriteNew, WriteSection, StateChange, Continuation, Logs, Goes, Begin, Working
  <2> QED
    BY <2>1, NotForward
<1>2. CASE phase = "performing"
  <2>1. /\ Working /\ ~Recovering /\ UNCHANGED <<real, at, phase, before, batch>>
        /\ step \in {"new", "section", "Performing", "note", "Performed"}
    <3>1. step \in {"new", "section", "Performing", "find", "move", "note", "Performed", "end"}
      BY <1>2 DEF TypeInv, StepFits
    <3>2. UNCHANGED <<real, at, phase, before, batch>> /\ Working
      BY DEF WriteNew, WriteSection, StateChange, Continuation, Logs, Goes, Begin, diskVars, ghostVars
    <3>3. step \in {"new", "section", "note"} \cup States
      BY DEF WriteNew, WriteSection, StateChange, Continuation
    <3> QED
      BY <1>2, <3>1, <3>2, <3>3 DEF Recovering, States
  <2>2. /\ DOMAIN updates' = DOMAIN updates /\ at \in DOMAIN updates /\ cur.type \in {"Register", "Deregister"}
        /\ \A i \in DOMAIN updates :
              /\ updates'[i].type = updates[i].type /\ updates'[i].app = updates[i].app
              /\ updates'[i].det = updates[i].det /\ updates[i].app \in Apps
    <3>1. \A i \in DOMAIN updates : updates[i].app \in Apps
      BY <2>1, ListedUpdates DEF Updates
    <3>2. CASE StateChange
      <4>1. updates' = InState(step) /\ step \in States
        BY <3>2 DEF StateChange
      <4> QED
        BY <2>1, <3>1, <4>1, StateSet, AtWork, ListedUpdates DEF cur
    <3>3. CASE UNCHANGED updates
      BY <2>1, <3>1, <3>3, AtWork, ListedUpdates DEF cur
    <3> QED
      BY <3>2, <3>3 DEF WriteNew, WriteSection, Continuation
  <2>3. \A n \in Names, i \in Positions : Moved(i, n)' <=> Moved(i, n)
    <3>1. List = updates /\ List' = updates'
      BY <2>1 DEF List, Recovering, Working
    <3> QED
      BY <2>2, <3>1 DEF Moved
  <2>4. MovedAway /\ Forward
    BY DEF PromiseInv
  <2>5. CASE step' \notin FilesAtWork
    <3>1. step \in {"new", "section", "Performing"}
      <4>1. step = "note" => step' \in FilesAtWork
        BY <1>2 DEF WriteNew, WriteSection, StateChange, Continuation, Handle, FilesAtWork, States
      <4>2. step = "Performed" => step' \in FilesAtWork
        BY <1>2 DEF WriteNew, WriteSection, StateChange, Continuation, Begin, Goes, FilesAtWork
      <4> QED
        BY <2>1, <2>5, <4>1, <4>2
    <3>2. \A i \in DOMAIN updates, k \in AllKinds : DoneWith(i, k)' => DoneWith(i, k)
      BY <2>1, <2>2, <2>5 DEF DoneWith, FilesAtWork
    <3>3. MovedAway'
      BY <1>2, <2>1, <2>2, <2>3, <2>4, <3>2, MovedAwayBy
    <3>4. real = After(at - 1)
      BY <1>2, <2>4, <3>1 DEF Forward
    <3>5. After(at - 1)' = After(at - 1)
      BY <2>1 DEF After
    <3> QED
      BY <1>2, <2>1, <2>5, <3>3, <3>4, <3>5 DEF Forward, FilesAtWork
  <2>6. CASE step \in FilesAtWork /\ step' \in FilesAtWork
    <3>1. Pending' = Pending
      <4>1. CASE step = "note"
        <5>1. left' = left \ {Kind} /\ step' # "note"
          BY <1>2, <4>1 DEF WriteNew, WriteSection, StateChange, Continuation, Handle, States
        <5> QED
          BY <4>1, <5>1 DEF Pending
      <4>2. CASE step = "Performed"
        <5>1. left' = left /\ step' = "end"
          BY <1>2, <4>2 DEF WriteNew, WriteSection, StateChange, Continuation, Begin, Goes
        <5> QED
          BY <4>2, <5>1 DEF Pending
      <4> QED
        BY <2>1, <2>6, <4>1, <4>2 DEF FilesAtWork
    <3>2. \A i \in DOMAIN updates, k \in AllKinds : DoneWith(i, k)' => DoneWith(i, k)
      BY <2>1, <2>2, <2>6, <3>1 DEF DoneWith, FilesAtWork
    <3>3. MovedAway'
      BY <1>2, <2>1, <2>2, <2>3, <2>4, <3>2, MovedAwayBy
    <3>4. Advances
      BY <1>2, <2>4, <2>6 DEF Forward, FilesAtWork
    <3>5. Forward'
      BY <1>2, <2>1, <2>2, <2>6, <3>1, <3>4, ForwardBy DEF Advances, cur
    <3> QED
      BY <3>3, <3>5
  <2>7. CASE step \notin FilesAtWork /\ step' \in FilesAtWork
    <3>1. /\ step = "Performing" /\ cur.type = "Register"
          /\ left' = {k \in AllKinds : cur.det[k].path # NoName}
          /\ step' \in {"move", "Performed"}
      <4>1. step \in {"new", "section"} => step' \notin FilesAtWork
        BY <1>2 DEF WriteNew, WriteSection, StateChange, Continuation, Goes, FilesAtWork, States
      <4>2. step = "Performing"
        BY <2>1, <2>7, <4>1 DEF FilesAtWork
      <4>3. StateChange
        BY <4>2 DEF WriteNew, WriteSection, Continuation
      <4>4. IF cur.type = "Deregister" THEN Goes("find") ELSE Handle({k \in AllKinds : cur.det[k].path # NoName})
        BY <4>2, <4>3 DEF StateChange, Begin
      <4>5. cur.type # "Deregister"
        BY <2>7, <4>4 DEF Goes, FilesAtWork
      <4>6. Handle({k \in AllKinds : cur.det[k].path # NoName})
        BY <4>4, <4>5
      <4> QED
        BY <1>2, <2>2, <4>2, <4>5, <4>6 DEF Handle
    <3>2. Pending' = left'
      BY <3>1 DEF Pending
    <3>3. \A i \in DOMAIN updates, k \in AllKinds : DoneWith(i, k)' => DoneWith(i, k)
      BY <2>1, <2>2, <3>1 DEF DoneWith, cur
    <3>4. MovedAway'
      BY <1>2, <2>1, <2>2, <2>3, <2>4, <3>3, MovedAwayBy
    <3>5. real = After(at - 1)
      BY <1>2, <2>4, <3>1 DEF Forward
    <3>6. ASSUME NEW n \in Names
          PROVE  real'[n] = IF n[1] = cur.app /\ n[2] \in Pending' THEN After(at - 1)[n] ELSE After(at)[n]
      <4> DEFINE f == After(at - 1)
                 g == After(at)
      <4>1. g[n] = IF n[1] # cur.app THEN f[n]
                   ELSE IF cur.det[n[2]].path # NoName THEN at ELSE f[n]
        BY <1>2, <3>1, AfterSteps DEF PromiseInv, BatchInv
      <4>2. real'[n] = f[n] /\ (n[2] \in Pending' <=> cur.det[n[2]].path # NoName)
        BY <2>1, <3>1, <3>2, <3>5, NamesAre
      <4> HIDE DEF f, g
      <4>3. real'[n] = IF n[1] = cur.app /\ n[2] \in Pending' THEN f[n] ELSE g[n]
        BY <4>1, <4>2
      <4> QED
        BY <4>3 DEF f, g
    <3>7. Forward'
      BY <1>2, <2>1, <2>2, <2>7, <3>1, <3>6, ForwardBy DEF cur
    <3> QED
      BY <3>4, <3>7
  <2> QED
    BY <2>5, <2>6, <2>7
<1> QED
  BY <1>1, <1>2

(* EndOfUpdate: all of the update's files are dealt with.                    *)
LEMMA ForwardEndOfUpdate ==
    ASSUME TypeInv, Shape, FilesInv, PromiseInv, EndOfUpdate
    PROVE  MovedAway' /\ Forward'
<1>1. CASE phase # "performing"
  <2>1. phase = "rollingBack" /\ phase' # "performing" /\ UNCHANGED result
    BY <1>1 DEF EndOfUpdate, Logs, Working, RollBackFrom
  <2>2. result # "ok"
    BY <2>1 DEF Shape
  <2> QED
    BY <2>1, <2>2, NotForward
<1>2. CASE phase = "performing"
  <2>1. /\ step = "end" /\ Working /\ ~Recovering /\ UNCHANGED <<real, updates, before, batch>>
        /\ at' = at + 1 /\ at \in 1..Len(updates) /\ Len(updates) \in Nat
        /\ \/ phase' = "closing" /\ at + 1 > Len(updates)
           \/ phase' = "performing" /\ step' = "new"
    BY <1>2, AtWork DEF EndOfUpdate, Logs, Working, Recovering, PerformFrom, diskVars, ghostVars
  <2>2. MovedAway /\ Forward /\ BatchKnown /\ Pending = {}
    <3>1. left = {}
      BY <2>1 DEF TypeInv, StepFits
    <3> QED
      BY <2>1, <3>1 DEF PromiseInv, BatchInv, Pending
  <2>3. real = After(at)
    <3>1. \A n \in Names : real[n] = After(at)[n]
      BY <1>2, <2>1, <2>2 DEF Forward, Advances
    <3>2. real \in [Names -> Int] /\ After(at) \in [Names -> Int]
      BY <1>2, <2>2, FilesTyped, AfterSteps
    <3> DEFINE g == After(at)
    <3> HIDE DEF g
    <3>3. real = g
      BY <3>1, <3>2 DEF g
    <3> QED
      BY <3>3 DEF g
  <2>4. CASE phase' = "closing"
    <3>1. at = Len(batch)
      BY <1>2, <2>1, <2>2, <2>4 DEF BatchKnown
    <3>2. real = Promise!Effect(before, batch)
      BY <2>2, <2>3, <3>1, AfterTyped
    <3> QED
      BY <2>1, <2>4, <3>2 DEF MovedAway, Forward
  <2>5. CASE phase' = "performing"
    <3>1. at' - 1 = at /\ step' = "new"
      BY <2>1, <2>5
    <3>2. After(at - 1)' = After(at)
      BY <2>1, <3>1 DEF After
    <3>3. Forward'
      BY <2>1, <2>3, <2>5, <3>1, <3>2 DEF Forward
    <3>4. List = updates /\ List' = updates'
      BY <2>1, <2>5 DEF List, Recovering
    <3>5. \A n \in Names, i \in Positions : Moved(i, n) => Moved(i, n)'
      BY <2>1, <3>4 DEF Moved
    <3>6. \A i \in DOMAIN updates, k \in AllKinds : DoneWith(i, k)' => DoneWith(i, k)
      <4>1. \A i \in DOMAIN updates : i \in Nat
        BY UpdatesTyped
      <4> QED
        BY <2>1, <2>2, <3>1, <4>1 DEF DoneWith
    <3>7. \A i \in DOMAIN updates : updates[i].app \in Apps
      BY <2>1, ListedUpdates DEF Updates
    <3>8. MovedAway'
      BY <1>2, <2>1, <2>2, <3>5, <3>6, <3>7, MovedAwayBy
    <3> QED
      BY <3>3, <3>8
  <2> QED
    BY <2>1, <2>4, <2>5
<1> QED
  BY <1>1, <1>2

(* What a deregistration does not find was not there before the batch, or    *)
(* was moved away by an update before it.                                    *)
LEMMA NotFound ==
    ASSUME TypeInv, Shape, FilesInv, FilesKnown, BatchInv, MovedAway, phase = "performing", step = "find",
           NEW k \in AllKinds, k \notin FilesOf(cur.app)
    PROVE  before[<<cur.app, k>>] = Nothing \/ IsMoved(<<cur.app, k>>)
<1> DEFINE n == <<cur.app, k>>
           m == <<cur.app, Resource>>
<1>1. /\ Working /\ logFile /\ ~Recovering /\ cur.app \in Apps /\ Resource \in AllKinds
      /\ at \in DOMAIN updates /\ (\A i \in DOMAIN updates : i \in Nat) /\ FilesFit(updates)
  <2>1. Working /\ logFile /\ ~Recovering
    BY DEF Working, TypeInv, TypeOK, Recovering
  <2>2. cur.app \in Apps
    BY <2>1, AtWork, ListedUpdates DEF Updates, cur
  <2> QED
    BY <2>1, <2>2, AtWork, ListIs, ResourceIsKind DEF FilesInv
<1>2. n \in Names /\ m \in Names /\ m[1] = cur.app /\ m[2] = Resource /\ n[1] = cur.app
  BY <1>1 DEF Names
<1>3. real[m] = Nothing \/ real[n] = Nothing
  BY DEF FilesOf
<1>4. PlacedKnown /\ MovedKnown /\ NamesKnown
  BY <1>1 DEF FilesKnown
<1> HIDE DEF n, m
<1>5. \A x \in Names : real[x] = Nothing => ~IsPlaced(x)
  <2> SUFFICES ASSUME NEW x \in Names, real[x] = Nothing, NEW i \in Positions, Placed(i, x) PROVE FALSE
    BY DEF IsPlaced
  <2>1. real[x] = i /\ i # Nothing
    BY <1>4 DEF PlacedKnown, Positions, Nothing, Promise!Nothing
  <2> QED
    BY <2>1
<1>6. \A x \in Names : real[x] = Nothing => before[x] = Nothing \/ IsMoved(x)
  BY <1>4, <1>5 DEF NamesKnown
<1>7. CASE real[n] = Nothing
  BY <1>2, <1>6, <1>7 DEF n
<1>8. CASE real[m] = Nothing /\ before[n] # Nothing
  <2>1. before[m] # Nothing
    <3>1. Led(before)
      BY <1>1 DEF BatchInv, ResourceFirst, Base
    <3>2. m = <<n[1], Resource>>
      BY <1>2 DEF m
    <3> QED
      BY <1>2, <1>8, <3>1, <3>2 DEF Led
  <2>2. PICK i \in Positions : Moved(i, m)
    BY <1>2, <1>6, <1>8, <2>1 DEF IsMoved
  <2>3. i \in DOMAIN updates /\ updates[i].type = "Deregister" /\ updates[i].app = cur.app
        /\ updates[i].det[Resource].state = "Temporary"
    BY <1>1, <1>2, <2>2, MovedIs
  <2>4. i < at
    <3>1. NoDetails.state = "Null"
      BY DEF NoDetails
    <3>2. i # at
      BY <1>1, <2>3, <3>1 DEF FilesInv, DetailsAtWork, cur
    <3>3. ~(i > at)
      <4>1. updates[i].state = "New" => updates[i].det[Resource].state # "Temporary"
        BY <1>1, <2>3, <3>1 DEF FilesFit, FitDetails, FitDetail
      <4>2. i > at => updates[i].state = "New"
        BY <1>1, <2>3 DEF Shape
      <4> QED
        BY <2>3, <4>1, <4>2
    <3>4. i \in Nat /\ at \in Nat
      BY <1>1, <2>3
    <3> QED
      BY <3>2, <3>3, <3>4
  <2>5. DoneWith(i, k)
    BY <2>3, <2>4 DEF DoneWith
  <2> QED
    BY <2>3, <2>5 DEF MovedAway
<1> QED
  BY <1>3, <1>7, <1>8 DEF n

(* Find.                                                                     *)
LEMMA ForwardFind ==
    ASSUME TypeInv, Shape, FilesInv, PromiseInv, Find
    PROVE  MovedAway' /\ Forward'
<1>1. /\ phase = "performing" /\ step = "find" /\ Working /\ ~Recovering /\ cur.type = "Deregister"
      /\ UNCHANGED <<real, before, batch>>
  BY FindIs DEF Recovering
<1>2. CASE Fails /\ UNCHANGED updates
  BY <1>2, NotForward DEF Fails, RollBackFrom
<1>3. CASE /\ UNCHANGED <<phase, at, result>> /\ left' = FilesOf(cur.app)
           /\ step' = IF left' = {} THEN "Performed" ELSE "move"
           /\ DOMAIN updates' = DOMAIN updates
           /\ \A i \in DOMAIN updates :
                /\ updates'[i].type = updates[i].type /\ updates'[i].app = updates[i].app
                /\ \A k \in AllKinds : updates'[i].det[k] = IF i = at THEN FilesFound[k] ELSE updates[i].det[k]
  <2>1. at \in DOMAIN updates /\ (\A i \in DOMAIN updates : updates[i].app \in Apps) /\ cur.app \in Apps
    BY <1>1, AtWork, ListedUpdates DEF Updates, cur
  <2>2. Pending' = FilesOf(cur.app) /\ step' \in FilesAtWork
    BY <1>3 DEF Pending, FilesAtWork
  <2>3. \A n \in Names, i \in Positions : Moved(i, n) => Moved(i, n)'
    <3> SUFFICES ASSUME NEW n \in Names, NEW i \in Positions, Moved(i, n) PROVE Moved(i, n)'
      OBVIOUS
    <3>1. List = updates /\ List' = updates'
      BY <1>1, <1>3 DEF List, Recovering
    <3>2. i # at
      <4>1. \A k \in AllKinds : cur.det[k] = NoDetails
        BY <1>1 DEF FilesInv, DetailsAtWork
      <4>2. NoDetails.state # "Temporary"
        BY DEF NoDetails
      <4> QED
        BY <3>1, <4>1, <4>2, NamesAre DEF Moved, cur
    <3> QED
      BY <1>3, <3>1, <3>2, NamesAre DEF Moved
  <2>4. ASSUME NEW i \in DOMAIN updates, NEW k \in AllKinds, DoneWith(i, k)'
        PROVE  \/ DoneWith(i, k)
               \/ before[<<updates[i].app, k>>] = Nothing
               \/ IsMoved(<<updates[i].app, k>>)'
    <3>1. CASE i = at
      <4>1. ~(i < at)
        BY <2>1, <3>1, UpdatesTyped
      <4>2. k \notin FilesOf(cur.app)
        BY <1>3, <2>2, <2>4, <3>1, <4>1 DEF DoneWith
      <4>3. before[<<cur.app, k>>] = Nothing \/ IsMoved(<<cur.app, k>>)
        BY <1>1, <4>2, NotFound DEF PromiseInv
      <4>4. PICK a \in Apps : a = cur.app /\ updates[i].app = a /\ updates'[i].app = a
        BY <1>3, <2>1, <3>1 DEF cur
      <4>5. IsMoved(<<a, k>>) => IsMoved(<<a, k>>)'
        BY <2>3 DEF IsMoved, Names
      <4>6. before[<<a, k>>] = Nothing \/ IsMoved(<<a, k>>)'
        BY <4>3, <4>4, <4>5
      <4>7. IsMoved(<<updates[i].app, k>>)' <=> IsMoved(<<a, k>>)'
        BY <4>4
      <4> QED
        BY <4>4, <4>6, <4>7
    <3>2. CASE i # at
      BY <1>3, <2>4, <3>2 DEF DoneWith
    <3> QED
      BY <3>1, <3>2
  <2>5. MovedAway'
    BY <1>1, <1>3, <2>1, <2>3, <2>4, MovedAwayBy DEF PromiseInv
  <2> DEFINE f == After(at - 1)
             g == After(at)
             m == <<cur.app, Resource>>
  <2>6. real = f
    BY <1>1 DEF PromiseInv, Forward
  <2>7. \A n \in Names :
           g[n] = IF n[1] # cur.app THEN f[n] ELSE IF f[m] = Nothing THEN f[n] ELSE Nothing
    BY <1>1, AfterSteps DEF PromiseInv, BatchInv
  <2>8. FilesOf(cur.app) = {k \in AllKinds : real[m] # Nothing /\ real[<<cur.app, k>>] # Nothing}
    BY DEF FilesOf
  <2> HIDE DEF f, g, m
  <2>9. ASSUME NEW n \in Names
        PROVE  real'[n] = IF n[1] = cur.app /\ n[2] \in Pending' THEN f[n] ELSE g[n]
    <3>1. CASE n[1] # cur.app
      BY <1>1, <2>6, <2>7, <3>1
    <3>2. CASE n[1] = cur.app /\ n[2] \in Pending'
      BY <1>1, <2>6, <3>2
    <3>3. CASE n[1] = cur.app /\ n[2] \notin Pending'
      <4>1. n[2] \in AllKinds /\ n = <<cur.app, n[2]>>
        BY <3>3, NamesAre
      <4>2. real[m] = Nothing \/ real[n] = Nothing
        BY <2>2, <2>8, <3>3, <4>1
      <4>3. g[n] = f[n]
        BY <2>6, <2>7, <3>3, <4>2
      <4> QED
        BY <1>1, <2>6, <3>3, <4>3
    <3> QED
      BY <3>1, <3>2, <3>3
  <2>10. Pending' # {} => f[m] # Nothing
    BY <2>2, <2>6, <2>8
  <2>11. updates'[at].type = cur.type /\ updates'[at].app = cur.app
    BY <1>3, <2>1 DEF cur
  <2>12. Forward'
    BY <1>1, <1>3, <2>2, <2>9, <2>10, <2>11, ForwardBy DEF f, g, m
  <2> QED
    BY <2>5, <2>12
<1> QED
  BY <1>2, <1>3, FindIs

(* A file dealt with, while its update is performed.                         *)
LEMMA MovedAwayDealt ==
    ASSUME TypeInv, Shape, FilesInv, MovedAway, phase = "performing", step = "move", NEW d, Dealing(d),
           UNCHANGED <<logFile, before>>,
           cur.type = "Deregister" => d.state = "Temporary"
    PROVE  /\ MovedAway'
           /\ UNCHANGED <<phase, at, left>> /\ step' = "note" /\ Kind' = Kind
           /\ updates'[at].type = cur.type /\ updates'[at].app = cur.app
           /\ Pending = left /\ Pending' = left \ {Kind}
<1>1. /\ UNCHANGED <<phase, at, left>> /\ step' = "note" /\ Kind' = Kind /\ DOMAIN updates' = DOMAIN updates
      /\ \A i \in DOMAIN updates : updates'[i].type = updates[i].type /\ updates'[i].app = updates[i].app
  BY Dealt
<1>2. /\ at \in DOMAIN updates /\ (\A i \in DOMAIN updates : updates[i].app \in Apps) /\ cur.type \in {"Register", "Deregister"}
      /\ List = updates /\ ~Recovering
  BY AtWork, ListedUpdates DEF Dealing, Updates, cur
<1>3. Pending = left /\ Pending' = left \ {Kind}
  BY <1>1 DEF Pending
<1>4. \A n \in Names, i \in Positions : Moved(i, n) => Moved(i, n)'
  <2> SUFFICES ASSUME NEW n \in Names, NEW i \in Positions, Moved(i, n) PROVE Moved(i, n)'
    OBVIOUS
  <2>1. Moved(i, n)' <=> IF i = at /\ n[2] = Kind
                         THEN cur.type = "Deregister" /\ cur.app = n[1] /\ d.state = "Temporary"
                         ELSE Moved(i, n)
    BY DealtPlaces
  <2>2. i = at => cur.type = "Deregister" /\ cur.app = n[1]
    BY <1>2 DEF Moved, cur
  <2> QED
    BY <2>1, <2>2
<1>5. ASSUME NEW i \in DOMAIN updates, NEW k \in AllKinds, DoneWith(i, k)'
      PROVE  \/ DoneWith(i, k)
             \/ before[<<updates[i].app, k>>] = Nothing
             \/ IsMoved(<<updates[i].app, k>>)'
  <2>1. CASE i # at \/ k # Kind
    BY <1>1, <1>3, <1>5, <2>1 DEF DoneWith
  <2>2. CASE i = at /\ k = Kind
    <3>1. cur.type = "Deregister"
      BY <1>1, <1>5, <2>2 DEF DoneWith, cur
    <3>2. PICK a \in Apps : a = cur.app /\ updates[i].app = a /\ updates'[i].app = a
      BY <1>1, <1>2, <2>2 DEF cur
    <3> DEFINE n == <<a, k>>
    <3>3. n \in Names /\ n[1] = a /\ n[2] = k
      BY DEF Names
    <3>4. i \in Positions
      BY <1>2, ListedUpdates
    <3>5. Moved(i, n)'
      <4>1. Moved(i, n)' <=> IF i = at /\ n[2] = Kind
                         THEN cur.type = "Deregister" /\ cur.app = n[1] /\ d.state = "Temporary"
                         ELSE Moved(i, n)
        <5> HIDE DEF n
        <5> QED
          BY <3>3, <3>4, DealtPlaces
      <4> QED
        BY <2>2, <3>1, <3>2, <3>3, <4>1
    <3>6. IsMoved(<<a, k>>)'
      BY <3>4, <3>5 DEF IsMoved
    <3>7. IsMoved(<<updates[i].app, k>>)' <=> IsMoved(<<a, k>>)'
      BY <3>2
    <3> QED
      BY <3>6, <3>7
  <2> QED
    BY <2>1, <2>2
<1>6. MovedAway'
  BY <1>1, <1>2, <1>4, <1>5, MovedAwayBy
<1> QED
  BY <1>1, <1>2, <1>3, <1>6 DEF cur

(* RenameToReal.                                                             *)
LEMMA ForwardRenameToReal ==
    ASSUME TypeInv, Shape, FilesInv, PromiseInv, RenameToReal
    PROVE  MovedAway' /\ Forward'
<1>1. CASE Fails /\ UNCHANGED <<diskVars, updates>>
  BY <1>1, NotForward DEF Fails, RollBackFrom
<1>2. CASE ~(Fails /\ UNCHANGED <<diskVars, updates>>)
  <2> DEFINE kind == Kind
             m == cur.det[Kind].path
             d == [state |-> "Real", path |-> m]
  <2>1. /\ phase = "performing" /\ step = "move" /\ Working /\ ~Recovering /\ cur.type = "Register"
        /\ real' = [real EXCEPT ![m] = temp[<<at, kind>>]]
        /\ UNCHANGED <<logFile, before, batch>>
    BY <1>2 DEF RenameToReal, Working, Recovering, logVars, ghostVars
  <2>2. Dealing(d)
    BY <1>2, Renaming
  <2>3. /\ kind \in AllKinds /\ kind \in left /\ cur.det[kind].state = "Temporary" /\ m = <<cur.app, kind>> /\ m \in Names
        /\ at \in DOMAIN updates
    BY <2>1, FileAtWork
  <2>4. m[1] = cur.app /\ m[2] = kind /\ cur.det[kind].path # NoName
    BY <2>3, NamesNotEmpty
  <2> HIDE DEF m, d
  <2>5. /\ MovedAway' /\ UNCHANGED <<phase, at, left>> /\ step' = "note"
        /\ updates'[at].type = cur.type /\ updates'[at].app = cur.app
        /\ Pending = left /\ Pending' = left \ {kind}
    BY <2>1, <2>2, MovedAwayDealt DEF PromiseInv
  <2>6. temp[<<at, kind>>] = at
    BY <2>1, <2>3, ListedUpdates DEF PromiseInv, TemporariesOwn, cur
  <2> DEFINE f == After(at - 1)
             g == After(at)
  <2>7. \A n \in Names : real[n] = IF n[1] = cur.app /\ n[2] \in left THEN f[n] ELSE g[n]
    BY <2>1, <2>5 DEF PromiseInv, Forward, Advances
  <2>8. g[m] = at
    BY <2>1, <2>3, <2>4, AfterSteps DEF PromiseInv, BatchInv
  <2> HIDE DEF f, g
  <2>9. DOMAIN real = Names
    BY FilesTyped
  <2>10. ASSUME NEW n \in Names
         PROVE  real'[n] = IF n[1] = cur.app /\ n[2] \in Pending' THEN f[n] ELSE g[n]
    <3>1. CASE n = m
      BY <2>1, <2>3, <2>4, <2>5, <2>6, <2>8, <2>9, <3>1
    <3>2. CASE n # m
      <4>1. ~(n[1] = cur.app /\ n[2] = kind)
        BY <2>3, <3>2, NamesAre
      <4>2. real'[n] = real[n]
        BY <2>1, <2>9, <3>2
      <4> QED
        BY <2>5, <2>7, <4>1, <4>2
    <3> QED
      BY <3>1, <3>2
  <2>11. Forward'
    <3>1. step' \in FilesAtWork
      BY <2>5 DEF FilesAtWork
    <3> QED
      BY <2>1, <2>5, <2>10, <3>1, ForwardBy DEF f, g
  <2> QED
    BY <2>5, <2>11
<1> QED
  BY <1>1, <1>2

(* RenameToTemporary.                                                        *)
LEMMA ForwardRenameToTemporary ==
    ASSUME TypeInv, Shape, FilesInv, PromiseInv, RenameToTemporary
    PROVE  MovedAway' /\ Forward'
<1> DEFINE kind == Kind
           m == cur.det[Kind].path
           d == [state |-> "Temporary", path |-> m]
           r == <<cur.app, Resource>>
<1>1. /\ phase = "performing" /\ step = "move" /\ Working /\ ~Recovering /\ cur.type = "Deregister"
      /\ real' = [real EXCEPT ![m] = Nothing]
      /\ UNCHANGED <<logFile, before, batch>>
  BY DEF RenameToTemporary, Working, Recovering, logVars, ghostVars
<1>2. Dealing(d)
  BY RenamingAway
<1>3. /\ kind \in AllKinds /\ kind \in left /\ cur.det[kind].state = "Real" /\ m = <<cur.app, kind>> /\ m \in Names
  BY <1>1, FileAtWork
<1>4. m[1] = cur.app /\ m[2] = kind /\ d.state = "Temporary"
  BY <1>3
<1> HIDE DEF m, d, r
<1>5. /\ MovedAway' /\ UNCHANGED <<phase, at, left>> /\ step' = "note"
      /\ updates'[at].type = cur.type /\ updates'[at].app = cur.app
      /\ Pending = left /\ Pending' = left \ {kind}
  BY <1>1, <1>2, <1>4, MovedAwayDealt DEF PromiseInv
<1> DEFINE f == After(at - 1)
           g == After(at)
<1>6. \A n \in Names : real[n] = IF n[1] = cur.app /\ n[2] \in left THEN f[n] ELSE g[n]
  BY <1>1, <1>5 DEF PromiseInv, Forward, Advances
<1>7. f[r] # Nothing
  BY <1>1, <1>3, <1>5 DEF PromiseInv, Forward, Advances, r
<1>8. g[m] = Nothing
  <2>1. g[m] = IF f[r] = Nothing THEN f[m] ELSE Nothing
    BY <1>1, <1>3, <1>4, AfterSteps DEF PromiseInv, BatchInv, r
  <2> HIDE DEF f, g
  <2> QED
    BY <1>7, <2>1
<1> HIDE DEF f, g
<1>9. DOMAIN real = Names
  BY FilesTyped
<1>10. ASSUME NEW n \in Names
       PROVE  real'[n] = IF n[1] = cur.app /\ n[2] \in Pending' THEN f[n] ELSE g[n]
  <2>1. CASE n = m
    BY <1>1, <1>3, <1>4, <1>5, <1>8, <1>9, <2>1
  <2>2. CASE n # m
    <3>1. ~(n[1] = cur.app /\ n[2] = kind)
      BY <1>3, <2>2, NamesAre
    <3>2. real'[n] = real[n]
      BY <1>1, <1>9, <2>2
    <3> QED
      BY <1>5, <1>6, <3>1, <3>2
  <2> QED
    BY <2>1, <2>2
<1>11. Forward'
  <2>1. step' \in FilesAtWork
    BY <1>5 DEF FilesAtWork
  <2> QED
    BY <1>1, <1>5, <1>7, <1>10, <2>1, ForwardBy DEF f, g, r
<1> QED
  BY <1>5, <1>11

(* The other steps perform nothing.                                          *)
LEMMA ForwardRest ==
    ASSUME TypeInv, Shape, FilesInv, LogInv,
           \/ Prepare \/ Abort \/ CommitRefused \/ CloseLog \/ Destroy \/ StartUp \/ Recover \/ Crash
           \/ PerformLeaves \/ Delete \/ RestoreReal
           \/ \E type \in Types, a \in Apps : \E kinds : Asked(type, a, kinds)
    PROVE  MovedAway' /\ Forward'
<1>1. CASE Prepare \/ Abort \/ CommitRefused \/ CloseLog \/ Destroy \/ StartUp \/ Crash
  BY <1>1, NotForward DEF Prepare, Abort, CommitRefused, CloseLog, Destroy, DestroyList, StartUp, Crash
<1>2. CASE PerformLeaves
  BY <1>2, NotForward DEF PerformLeaves, Fails, RollBackFrom
<1>3. CASE Recover
  <2>1. RollBackFrom(Replay(log).cur) /\ result' = "died"
    BY <1>3, RecoverIs
  <2> QED
    BY <2>1, NotForward DEF RollBackFrom
<1>4. CASE Delete \/ RestoreReal
  <2>1. phase = "rollingBack" /\ Dealing(NoDetails)
    BY <1>4, Undoing DEF Delete, RestoreReal
  <2> QED
    BY <2>1, NotForward, Dealt
<1>5. CASE \E type \in Types, a \in Apps : \E kinds : Asked(type, a, kinds)
  BY <1>5, NotForward DEF Asked
<1> QED
  BY <1>1, <1>2, <1>3, <1>4, <1>5

-------------------------------------------------------------------------------
(* The invariant of the files, of the batch and of both. *)

(* At first.                                                                 *)
LEMMA KeptInit == Init => PromiseInv
<1> SUFFICES ASSUME Init PROVE PromiseInv
  OBVIOUS
<1>1. /\ phase = "idle" /\ updates = <<>> /\ logFile = FALSE /\ batch = <<>> /\ Base = real
      /\ \A n \in Names : real[n] # Nothing => real[<<n[1], Resource>>] # Nothing
  BY DEF Init, Base
<1>2. List = <<>>
  BY <1>1 DEF List, Recovering
<1>3. FilesKnown /\ TemporariesOwn
  BY <1>1, <1>2 DEF FilesKnown, TemporariesOwn
<1>4. BatchInv
  BY <1>1 DEF BatchInv, BatchKnown, ResourceFirst, Led, NoneReplaced
<1>5. MovedAway /\ Forward
  BY <1>1 DEF MovedAway, Forward
<1> QED
  BY <1>3, <1>4, <1>5 DEF PromiseInv

(* No step.                                                                  *)
LEMMA KeptStutter == PromiseInv /\ UNCHANGED vars => PromiseInv'
<1> SUFFICES ASSUME PromiseInv, UNCHANGED vars PROVE PromiseInv'
  OBVIOUS
<1>1. UNCHANGED <<real, temp, logFile, log, phase, updates, at, step, left, result, batch, before>>
  BY DEF vars
<1>2. cur' = cur /\ Pending' = Pending
  <2>1. cur' = cur
    BY <1>1 DEF cur
  <2>2. Kind' = Kind
    BY <1>1, <2>1 DEF Kind
  <2> QED
    BY <1>1, <2>1, <2>2 DEF Pending
<1>3. List' = List
  BY <1>1 DEF List, Recovering, Reopened, Found
<1>4. \A n \in Names, i \in Positions : (Placed(i, n)' <=> Placed(i, n)) /\ (Moved(i, n)' <=> Moved(i, n))
  BY <1>3 DEF Placed, Moved
<1>5. FilesKnown'
  BY <1>1, <1>4, FilesSame DEF PromiseInv, FilesKnown
<1>6. TemporariesOwn'
  BY <1>1, <1>3 DEF PromiseInv, TemporariesOwn
<1>7. Base' = Base
  BY <1>1 DEF Base
<1>8. BatchInv'
  BY <1>1, <1>7 DEF PromiseInv, BatchInv, BatchKnown, ResourceFirst, Led, NoneReplaced
<1>9. \A i, k : DoneWith(i, k)' <=> DoneWith(i, k)
  BY <1>1, <1>2 DEF DoneWith
<1>10. \A n \in Names : IsMoved(n)' <=> IsMoved(n)
  BY <1>4 DEF IsMoved
<1>11. MovedAway'
  <2>1. \A i, k : IsMoved(<<updates[i].app, k>>)' <=> IsMoved(<<updates[i].app, k>>)
    BY <1>1, <1>3 DEF IsMoved, Moved
  <2> QED
    BY <1>1, <1>9, <2>1 DEF PromiseInv, MovedAway
<1>12. After(at - 1)' = After(at - 1) /\ After(at)' = After(at)
  BY <1>1 DEF After
<1>13. Advances' <=> Advances
  BY <1>1, <1>2, <1>12 DEF Advances
<1>14. Forward'
  BY <1>1, <1>12, <1>13 DEF PromiseInv, Forward
<1> QED
  BY <1>5, <1>6, <1>8, <1>11, <1>14 DEF PromiseInv

(* The client's steps.                                                       *)
LEMMA KeptClient == NoOverwrite /\ LogBased /\ PromiseInv /\ Client => PromiseInv'
<1> SUFFICES ASSUME NoOverwrite, LogBased, PromiseInv, Client PROVE PromiseInv'
  OBVIOUS
<1>1. TypeInv /\ Shape /\ FilesInv /\ LogInv /\ BatchInv /\ TemporariesOwn
  BY DEF LogBased, PromiseInv
<1>2. CASE Prepare \/ Abort \/ CommitRefused
  <2>1. BatchInv'
    BY <1>1, <1>2, BatchPrepare, BatchRest
  <2>2. FilesKnown' /\ TemporariesOwn'
    BY <1>1, <1>2, KnownBetween
  <2>3. MovedAway' /\ Forward'
    BY <1>1, <1>2, ForwardRest
  <2> QED
    BY <2>1, <2>2, <2>3 DEF PromiseInv
<1>3. ASSUME NEW a \in Apps, NEW kinds \in Bundles, Register(a, kinds) PROVE PromiseInv'
  <2>1. /\ Asked("Register", a, kinds) /\ "Register" \in Types
        /\ temp' = [s \in Slots |-> IF s[1] = Len(updates) + 1 /\ s[2] \in kinds THEN Len(updates) + 1 ELSE temp[s]]
    BY <1>3 DEF Register, Types
  <2>2. BatchInv'
    BY <1>1, <1>3, BatchRegister
  <2>3. FilesKnown' /\ TemporariesOwn'
    BY <1>1, <2>1, KnownAsked
  <2>4. MovedAway' /\ Forward'
    BY <1>1, <2>1, ForwardRest
  <2> QED
    BY <2>2, <2>3, <2>4 DEF PromiseInv
<1>4. ASSUME NEW a \in Apps, Deregister(a) PROVE PromiseInv'
  <2>1. Asked("Deregister", a, {}) /\ "Deregister" \in Types /\ temp' = temp
    BY <1>4 DEF Deregister, Types
  <2>2. BatchInv'
    BY <1>1, <1>4, BatchDeregister
  <2>3. FilesKnown' /\ TemporariesOwn'
    BY <1>1, <2>1, KnownAsked
  <2>4. MovedAway' /\ Forward'
    BY <1>1, <2>1, ForwardRest
  <2> QED
    BY <2>2, <2>3, <2>4 DEF PromiseInv
<1>5. CASE Commit
  BY <1>1, <1>5, BatchCommit, KnownCommit, ForwardCommit DEF PromiseInv
<1> QED
  BY <1>2, <1>3, <1>4, <1>5 DEF Client

(* The server's.                                                             *)
LEMMA KeptServer == Sound /\ LogBased /\ PromiseInv /\ Server => PromiseInv'
<1> SUFFICES ASSUME Sound, LogBased, PromiseInv, Server PROVE PromiseInv'
  OBVIOUS
<1>1. /\ TypeInv /\ Shape /\ FilesInv /\ LogInv
      /\ FilesKnown /\ TemporariesOwn /\ BatchInv /\ MovedAway /\ Forward
  BY DEF LogBased, PromiseInv
<1>2. CASE WriteNew \/ WriteSection \/ StateChange \/ Continuation
  <2>1. BatchInv'
    BY <1>1, <1>2, WorkKeepsList, BatchKept
  <2> QED
    BY <1>1, <1>2, <2>1, KnownQuiet, ForwardLogStep DEF PromiseInv
<1>3. CASE EndOfUpdate
  <2>1. BatchInv'
    BY <1>1, <1>3, WorkKeepsList, BatchKept
  <2> QED
    BY <1>1, <1>3, <2>1, KnownQuiet, ForwardEndOfUpdate DEF PromiseInv
<1>4. CASE Find
  <2>1. BatchInv'
    BY <1>1, <1>4, WorkKeepsList, BatchKept
  <2> QED
    BY <1>1, <1>4, <2>1, KnownFind, ForwardFind DEF PromiseInv
<1>5. CASE RenameToReal
  <2>1. BatchInv'
    BY <1>1, <1>5, WorkKeepsList, BatchKept
  <2> QED
    BY <1>1, <1>5, <2>1, KnownRenameToReal, ForwardRenameToReal DEF PromiseInv
<1>6. CASE RenameToTemporary
  <2>1. BatchInv'
    BY <1>1, <1>6, WorkKeepsList, BatchKept
  <2> QED
    BY <1>1, <1>6, <2>1, KnownRenameToTemporary, ForwardRenameToTemporary DEF PromiseInv
<1>7. CASE PerformLeaves
  <2>1. BatchInv'
    BY <1>1, <1>7, WorkKeepsList, BatchKept
  <2> QED
    BY <1>1, <1>7, <2>1, KnownQuiet, ForwardRest DEF PromiseInv
<1>8. CASE Delete
  <2>1. BatchInv'
    BY <1>1, <1>8, WorkKeepsList, BatchKept
  <2> QED
    BY <1>1, <1>8, <2>1, KnownDelete, ForwardRest DEF PromiseInv
<1>9. CASE RestoreReal
  <2>1. BatchInv'
    BY <1>1, <1>9, WorkKeepsList, BatchKept
  <2> QED
    BY <1>1, <1>9, <2>1, KnownRestoreReal, ForwardRest DEF PromiseInv
<1>10. CASE LogWriteFails
  BY <1>1, <1>10, NotFull
<1>11. CASE CloseLog
  BY <1>1, <1>11, BatchCloseLog, KnownBetween, ForwardRest DEF PromiseInv
<1>12. CASE Destroy \/ StartUp
  BY <1>1, <1>12, BatchRest, KnownBetween, ForwardRest DEF PromiseInv
<1>13. CASE Recover
  BY <1>1, <1>13, BatchRest, KnownRecover, ForwardRest DEF PromiseInv
<1>14. CASE DeleteFails \/ RestoreRealFails \/ RecoverFails
  BY <1>14, SoundExcludes
<1> QED
  BY <1>2, <1>3, <1>4, <1>5, <1>6, <1>7, <1>8, <1>9, <1>10, <1>11, <1>12, <1>13, <1>14 DEF Server

(* All of them.                                                              *)
LEMMA KeptNext == Sound /\ NoOverwrite /\ LogBased /\ PromiseInv /\ [Next]_vars => PromiseInv'
<1> SUFFICES ASSUME Sound, NoOverwrite, LogBased, PromiseInv, [Next]_vars PROVE PromiseInv'
  OBVIOUS
<1>1. CASE Client
  BY <1>1, KeptClient
<1>2. CASE Server
  BY <1>2, KeptServer
<1>3. CASE FillUp
  BY <1>3, SoundExcludes
<1>4. CASE Crash
  BY <1>4, BatchRest, KnownCrash, ForwardRest DEF LogBased, PromiseInv
<1>5. CASE UNCHANGED vars
  BY <1>5, KeptStutter
<1> QED
  BY <1>1, <1>2, <1>3, <1>4, <1>5 DEF Next

-------------------------------------------------------------------------------
(* What the promise says of a step. *)

(* The names that the promise speaks of are the names there are.             *)
LEMMA SameNames == Promise!Names = Names
<1>1. AllKinds = {Kinds[i] : i \in 1..Len(Kinds)}
  BY KindsTyped
<1>2. Promise!Names = {<<a, Kinds[k]>> : a \in Apps, k \in 1..Len(Kinds)}
  BY DEF Promise!Names
<1>3. Promise!Names \subseteq Names
  BY <1>1, <1>2 DEF Names
<1>4. Names \subseteq Promise!Names
  <2> SUFFICES ASSUME NEW a \in Apps, NEW k \in AllKinds PROVE <<a, k>> \in Promise!Names
    BY DEF Names
  <2>1. PICK i \in 1..Len(Kinds) : k = Kinds[i]
    BY <1>1
  <2> QED
    BY <1>2, <2>1
<1> QED
  BY <1>3, <1>4

(* The verdict of the batch in hand.                                         *)
Verdict == IF logFile \/ phase = "prepared" THEN "open" ELSE result

(* The steps of the promise, in these terms.                                 *)
LEMMA PromiseSteps ==
    /\ Verdict # "open" /\ Verdict' = "open" /\ batch' = <<>> /\ Base' = Base => Promise!Prepare
    /\ \A update \in Promise!Requests :
         Verdict = "open" /\ Verdict' = "open" /\ batch' = Append(batch, update) /\ Base' = Base => Promise!Ask(update)
    /\ Verdict = "open" /\ Verdict' = "ok" /\ batch' = batch /\ Base' = Promise!Effect(Base, batch) => Promise!Commit
    /\ Verdict = "open" /\ Verdict' \in {"error", "aborted", "died"} /\ batch' = batch /\ Base' = Base => Promise!Fail
    /\ Verdict # "open" /\ Verdict' = "died" /\ batch' = batch /\ Base' = Base => Promise!Die
    /\ Verdict' = Verdict /\ batch' = batch /\ Base' = Base => UNCHANGED Promise!atomicVars
BY DEF Verdict, Base, Promise!Prepare, Promise!Ask, Promise!Commit, Promise!Fail, Promise!Die, Promise!atomicVars

(* The files at first are those the promise begins with.                     *)
LEMMA PromiseInit == Init => Promise!Init
<1> SUFFICES ASSUME Init PROVE Promise!Init
  OBVIOUS
<1>1. /\ real \in [Names -> {Nothing, Old}] /\ logFile = FALSE /\ phase = "idle" /\ result = "aborted" /\ batch = <<>>
  BY DEF Init
<1>2. real \in [Promise!Names -> {Promise!Nothing, Promise!Old}]
  BY <1>1, SameNames DEF Nothing, Old
<1> QED
  BY <1>1, <1>2 DEF Promise!Init

(* Every step of the code is a step of the promise or none.                  *)
LEMMA PromiseStep ==
    Sound /\ NoOverwrite /\ LogBased /\ PromiseInv /\ [Next]_vars => [Promise!Next]_Promise!atomicVars
<1> SUFFICES ASSUME Sound, NoOverwrite, LogBased, PromiseInv, [Next]_vars
             PROVE  Promise!Next \/ UNCHANGED Promise!atomicVars
  OBVIOUS
<1>1. /\ TypeInv /\ Shape /\ FilesInv /\ LogInv /\ FilesKnown /\ BatchInv /\ Forward
  BY DEF LogBased, PromiseInv
<1>2. /\ phase \in {"performing", "rollingBack", "closing"} => logFile
      /\ logFile => phase \in {"performing", "rollingBack", "closing", "down"}
      /\ phase \in Phases
  BY <1>1 DEF TypeInv, TypeOK
<1> DEFINE Goal == Promise!Next \/ UNCHANGED Promise!atomicVars
<1>3. /\ Promise!Prepare \/ Promise!Commit \/ Promise!Fail \/ Promise!Die => Goal
      /\ \A update \in Promise!Requests : Promise!Ask(update) => Goal
      /\ UNCHANGED Promise!atomicVars => Goal
  BY DEF Promise!Next
<1> SUFFICES Goal
  BY DEF Goal
<1> HIDE DEF Goal
<1>4. CASE Prepare
  <2>1. phase = "idle" /\ phase' = "prepared" /\ batch' = <<>> /\ UNCHANGED <<real, logFile, before>>
    BY <1>4 DEF Prepare, logVars
  <2>2. Verdict # "open" /\ Verdict' = "open" /\ Base' = Base
    BY <1>1, <1>2, <2>1 DEF Verdict, Base, Shape
  <2> QED
    BY <1>3, <2>1, <2>2, PromiseSteps
<1>5. ASSUME NEW type \in Types, NEW a \in Apps, NEW kinds \in SUBSET AllKinds, Asked(type, a, kinds)
      PROVE  Goal
  <2> DEFINE request == [type |-> type, app |-> a, kinds |-> kinds]
  <2>1. request \in Promise!Requests
    BY DEF Promise!Requests, Types, AllKinds, Range, Promise!Range
  <2>2. phase = "prepared" /\ batch' = Append(batch, request) /\ UNCHANGED <<real, logFile, phase, before>>
    BY <1>5 DEF Asked, logVars
  <2>3. Verdict = "open" /\ Verdict' = "open" /\ Base' = Base
    BY <2>2 DEF Verdict, Base
  <2> HIDE DEF request
  <2> QED
    BY <1>3, <2>1, <2>2, <2>3, PromiseSteps
<1>6. ASSUME NEW a \in Apps, NEW kinds \in Bundles, Register(a, kinds) PROVE Goal
  <2>1. Asked("Register", a, kinds) /\ kinds \in SUBSET AllKinds /\ "Register" \in Types
    BY <1>6, BundlesAre DEF Register, Types
  <2> QED
    BY <1>5, <2>1
<1>7. ASSUME NEW a \in Apps, Deregister(a) PROVE Goal
  <2>1. Asked("Deregister", a, {}) /\ {} \in SUBSET AllKinds /\ "Deregister" \in Types
    BY <1>7 DEF Deregister, Types
  <2> QED
    BY <1>5, <2>1
<1>8. CASE Abort
  <2>1. /\ phase = "prepared" /\ DestroyList(updates) /\ phase' = "idle" /\ result' = "aborted"
        /\ UNCHANGED <<logFile, batch, before>>
    BY <1>8 DEF Abort, DestroyList, logVars, ghostVars
  <2>2. real' = real
    BY <1>1, <2>1, SafeDestroy
  <2>3. Verdict = "open" /\ Verdict' = "aborted" /\ Base' = Base
    BY <1>2, <2>1, <2>2 DEF Verdict, Base
  <2> QED
    BY <1>3, <2>1, <2>3, PromiseSteps
<1>9. CASE Commit
  <2>1. phase = "prepared" /\ logFile' = TRUE /\ before' = real /\ batch' = batch
    BY <1>9 DEF Commit
  <2>2. Verdict = "open" /\ Verdict' = "open" /\ Base' = Base
    BY <1>2, <2>1 DEF Verdict, Base
  <2> QED
    BY <1>3, <2>1, <2>2, PromiseSteps
<1>10. CASE CommitRefused
  <2>1. phase = "prepared" /\ phase' = "destroying" /\ result' = "error" /\ UNCHANGED <<real, logFile, batch, before>>
    BY <1>10 DEF CommitRefused, diskVars, logVars, ghostVars
  <2>2. Verdict = "open" /\ Verdict' = "error" /\ Base' = Base
    BY <1>2, <2>1 DEF Verdict, Base
  <2> QED
    BY <1>3, <2>1, <2>2, PromiseSteps
<1>11. CASE \/ WriteNew \/ WriteSection \/ StateChange \/ Continuation \/ EndOfUpdate \/ Find
            \/ RenameToReal \/ RenameToTemporary \/ PerformLeaves \/ Delete \/ RestoreReal
  <2>1. logFile /\ UNCHANGED <<batch, before, logFile>>
    BY <1>1, <1>11, WorkKeepsList DEF ListKept
  <2>2. Verdict' = Verdict /\ Base' = Base
    BY <2>1 DEF Verdict, Base
  <2> QED
    BY <1>3, <2>1, <2>2, PromiseSteps
<1>12. CASE LogWriteFails
  BY <1>1, <1>12, NotFull
<1>13. CASE CloseLog
  <2>1. /\ phase = "closing" /\ logFile' = FALSE /\ phase' = "destroying" /\ UNCHANGED <<real, result, batch, before>>
    BY <1>13 DEF CloseLog, diskVars, ghostVars
  <2>2. Verdict = "open" /\ Verdict' = result /\ Base = before /\ Base' = real
    BY <1>2, <2>1 DEF Verdict, Base
  <2>3. real = IF result = "ok" THEN Promise!Effect(before, batch) ELSE before
    BY <1>1, <2>1, FilesAtClose
  <2>4. result \in {"ok", "error", "died"}
    BY <1>1, <2>1 DEF Shape
  <2>5. CASE result = "ok"
    BY <1>3, <2>1, <2>2, <2>3, <2>5, PromiseSteps
  <2>6. CASE result # "ok"
    <3>1. Base' = Base /\ Verdict' \in {"error", "aborted", "died"}
      BY <2>2, <2>3, <2>4, <2>6
    <3> QED
      BY <1>3, <2>1, <2>2, <3>1, PromiseSteps
  <2> QED
    BY <2>5, <2>6
<1>14. CASE Destroy
  <2>1. phase = "destroying" /\ DestroyList(updates) /\ phase' = "idle" /\ UNCHANGED <<logFile, result, batch, before>>
    BY <1>14 DEF Destroy, DestroyList, logVars, ghostVars
  <2>2. real' = real
    BY <1>1, <2>1, SafeDestroy
  <2>3. Verdict' = Verdict /\ Base' = Base
    BY <1>2, <2>1, <2>2 DEF Verdict, Base
  <2> QED
    BY <1>3, <2>1, <2>3, PromiseSteps
<1>15. CASE Recover
  <2>1. logFile /\ UNCHANGED <<logFile, batch, before>>
    BY <1>1, <1>15, RecoverIs
  <2>2. Verdict' = Verdict /\ Base' = Base
    BY <2>1 DEF Verdict, Base
  <2> QED
    BY <1>3, <2>1, <2>2, PromiseSteps
<1>16. CASE StartUp
  <2>1. phase = "down" /\ phase' = "idle" /\ UNCHANGED <<real, logFile, result, batch, before>>
    BY <1>16 DEF StartUp, diskVars, logVars, ghostVars
  <2>2. Verdict' = Verdict /\ Base' = Base
    BY <2>1 DEF Verdict, Base
  <2> QED
    BY <1>3, <2>1, <2>2, PromiseSteps
<1>17. CASE FillUp
  BY <1>17, SoundExcludes
<1>18. CASE Crash
  <2>1. phase \notin {"idle", "down"} /\ phase' = "down" /\ result' = "died" /\ UNCHANGED <<real, logFile, batch, before>>
    BY <1>18 DEF Crash, diskVars, logVars
  <2>2. Base' = Base
    BY <2>1 DEF Base
  <2>3. CASE logFile
    BY <1>3, <2>1, <2>2, <2>3, PromiseSteps DEF Verdict
  <2>4. CASE ~logFile
    <3>1. Verdict' = "died"
      BY <2>1, <2>4 DEF Verdict
    <3> QED
      BY <1>3, <2>1, <2>2, <3>1, PromiseSteps
  <2> QED
    BY <2>3, <2>4
<1>19. CASE UNCHANGED vars
  <2>1. Verdict' = Verdict /\ batch' = batch /\ Base' = Base
    BY <1>19 DEF vars, Verdict, Base
  <2> QED
    BY <1>3, <2>1, PromiseSteps
<1>20. CASE Client
  BY <1>4, <1>6, <1>7, <1>8, <1>9, <1>10, <1>20 DEF Client
<1>22. CASE DeleteFails \/ RestoreRealFails \/ RecoverFails
  BY <1>22, SoundExcludes
<1>21. CASE Server
  BY <1>11, <1>12, <1>13, <1>14, <1>15, <1>16, <1>21, <1>22 DEF Server
<1> QED
  BY <1>17, <1>18, <1>19, <1>20, <1>21 DEF Next

(* The invariant of the batch and its files: every file is that of the last  *)
(* update that has put one in place, and what a deregistration has moved     *)
(* away is what there was; as long as a rollback can delete and restore      *)
(* files, and a recovery can read the log (Sound).                           *)
THEOREM BatchCorrect == ASSUME Sound, NoOverwrite PROVE Spec => [](LogBased /\ PromiseInv)
<1>1. Init => LogBased /\ PromiseInv
  BY BasedInit, KeptInit
<1>2. LogBased /\ PromiseInv /\ [Next]_vars => (LogBased /\ PromiseInv)'
  BY BasedNext, KeptNext
<1> QED
  BY <1>1, <1>2, PTL DEF Spec

(* KeepsPromise: a batch is installed as a whole or not at all, whichever    *)
(* step of an update leaves and whenever the server dies outside the         *)
(* windows, and the client is never told the opposite; as long as a rollback *)
(* can delete and restore files, and a recovery can read the log (Sound).    *)
THEOREM AtomicCorrect == ASSUME Sound, NoOverwrite PROVE Spec => KeepsPromise
<1>1. Init => Promise!Init
  BY PromiseInit
<1>2. LogBased /\ PromiseInv /\ [Next]_vars => [Promise!Next]_Promise!atomicVars
  BY PromiseStep
<1> QED
  BY <1>1, <1>2, BatchCorrect, PTL DEF Spec, KeepsPromise, Promise!Spec
=============================================================================
