--------------------------- MODULE AppListScanProofs ---------------------------
(***************************************************************************)
(* What the application list and the file it is stored in say of the       *)
(* phone: that a scan leaves the list current, that what is stored is what *)
(* is in memory, and that no change of the list goes untold; for any       *)
(* registration files, directories and languages, any number of changes    *)
(* and power losses, at any moment.                                        *)
(***************************************************************************)
EXTENDS AppListProofs

----------------------------------------------------------------------------
(* The list as a set of elements: their order is of no concern here.         *)

Elements(s) == {s[i] : i \in DOMAIN s}

(* The elements of a good list.                                              *)
GoodElements(E) ==
    /\ E \subseteq AppData
    /\ \A e \in E : e.uid = UidOf[e.file]
    /\ \A e, g \in E : e.uid = g.uid => e = g
    /\ \A e \in E : e.iIsPresent = "ESuperseded" =>
         e.iSuccessor \in Files /\ UidOf[e.iSuccessor] = e.uid

(* A list is good if its elements are.                                       *)
LEMMA ElementsGood ==
    ASSUME NEW s, GoodList(s)
    PROVE  GoodElements(Elements(s))
<1>1. s \in Seq(AppData) /\ \A i \in DOMAIN s : s[i] \in AppData
  BY ElementOfSeq, LenProperties DEF GoodList
<1>2. Elements(s) \subseteq AppData
  BY <1>1 DEF Elements
<1>3. \A e \in Elements(s) : e.uid = UidOf[e.file]
  BY DEF Elements, GoodList, OneEach
<1>4. \A e, g \in Elements(s) : e.uid = g.uid => e = g
  BY DEF Elements, GoodList, OneEach
<1>5. \A e \in Elements(s) : e.iIsPresent = "ESuperseded" =>
         e.iSuccessor \in Files /\ UidOf[e.iSuccessor] = e.uid
  BY DEF Elements, GoodList, SuccessorsFit
<1> QED
  BY <1>2, <1>3, <1>4, <1>5 DEF GoodElements

(* An element, when marked.                                                  *)
Pended(e, which) == IF e.file \in which THEN SetAppPending(e) ELSE e
Unpended(e) ==
    IF e.iIsPresent = "EPresentPendingUpdate" THEN [e EXCEPT !.iIsPresent = "EIsPresent"] ELSE e
NotFound(e) == IF IsPending(e) THEN [e EXCEPT !.iIsPresent = "ENotPresent"] ELSE e

(* Marking a list marks each element.                                        *)
LEMMA ElementsMarked ==
    ASSUME NEW s
    PROVE  /\ \A which : Elements(SetPending(s, which)) = {Pended(e, which) : e \in Elements(s)}
           /\ Elements(UndoSetPending(s)) = {Unpended(e) : e \in Elements(s)}
           /\ Elements(SetNotFound(s)) = {NotFound(e) : e \in Elements(s)}
<1>1. ASSUME NEW which
      PROVE  Elements(SetPending(s, which)) = {Pended(e, which) : e \in Elements(s)}
  BY DEF Elements, SetPending, Pended
<1>2. Elements(UndoSetPending(s)) = {Unpended(e) : e \in Elements(s)}
  BY DEF Elements, UndoSetPending, Unpended
<1>3. Elements(SetNotFound(s)) = {NotFound(e) : e \in Elements(s)}
  BY DEF Elements, SetNotFound, NotFound
<1> QED
  BY <1>1, <1>2, <1>3

(* What marking changes of an element, and what it leaves.                   *)
LEMMA MarkedElement ==
    ASSUME NEW e \in AppData, NEW which
    PROVE  /\ Pended(e, which).uid = e.uid /\ Pended(e, which).file = e.file
           /\ Pended(e, which).stamp = e.stamp /\ Pended(e, which).lang = e.lang
           /\ Pended(e, which).iSuccessor = e.iSuccessor
           /\ e.file \in which => IsPending(Pended(e, which))
           /\ e.file \notin which => Pended(e, which) = e
           /\ Unpended(e).uid = e.uid /\ Unpended(e).file = e.file
           /\ Unpended(e).stamp = e.stamp /\ Unpended(e).lang = e.lang
           /\ NotFound(e).uid = e.uid /\ NotFound(e).file = e.file
           /\ NotFound(e).stamp = e.stamp /\ NotFound(e).lang = e.lang
           /\ IsPending(e) => NotFound(e).iIsPresent = "ENotPresent"
           /\ ~IsPending(e) => NotFound(e) = e
BY DEF Pended, SetAppPending, Unpended, NotFound, IsPending, AppData

(* An application is in the list, or there is no element of it.              *)
LEMMA ElementOf ==
    ASSUME NEW s, GoodList(s), NEW u
    PROVE  LET i == AppDataByUid(s, u) IN
           /\ i = 0 => \A e \in Elements(s) : e.uid # u
           /\ i # 0 => i \in DOMAIN s /\ s[i] \in Elements(s) /\ s[i].uid = u
<1>1. DOMAIN s \subseteq Nat \ {0}
  BY LenProperties DEF GoodList
<1> QED
  BY <1>1 DEF AppDataByUid, Elements

(* An element is added at the head.                                          *)
LEMMA ElementsAdded ==
    ASSUME NEW s \in Seq(AppData), NEW a \in AppData
    PROVE  Elements(<<a>> \o s) = Elements(s) \cup {a}
<1> DEFINE t == <<a>> \o s
<1>1. Len(s) \in Nat /\ DOMAIN s = 1 .. Len(s)
  BY LenProperties
<1>2. <<a>> \in Seq(AppData) /\ Len(<<a>>) = 1 /\ <<a>>[1] = a
  OBVIOUS
<1>3. /\ DOMAIN t = 1 .. Len(s) + 1 /\ t[1] = a
      /\ \A k \in 1 .. Len(s) : t[k + 1] = s[k]
  BY <1>1, <1>2, ConcatProperties
<1> HIDE DEF t
<1>4. \A i \in DOMAIN t : i = 1 \/ \E k \in DOMAIN s : i = k + 1
  <2>1. ASSUME NEW n \in Nat, NEW i \in 1 .. n + 1, i # 1
        PROVE  i - 1 \in 1 .. n /\ i = (i - 1) + 1
    BY <2>1
  <2> QED
    BY <1>1, <1>3, <2>1
<1>5. \A k \in DOMAIN s : k + 1 \in DOMAIN t /\ 1 \in DOMAIN t
  BY <1>1, <1>3
<1>6. 1 \in DOMAIN t
  BY <1>1, <1>3
<1>7. \A e \in Elements(t) : e \in Elements(s) \cup {a}
  BY <1>1, <1>3, <1>4 DEF Elements
<1>8. \A e \in Elements(s) \cup {a} : e \in Elements(t)
  BY <1>1, <1>3, <1>5, <1>6 DEF Elements
<1> QED
  BY <1>7, <1>8 DEF t

(* An element is replaced.                                                   *)
LEMMA ElementsReplaced ==
    ASSUME NEW s, GoodList(s), NEW i \in DOMAIN s, NEW a
    PROVE  Elements([s EXCEPT ![i] = a]) = (Elements(s) \ {s[i]}) \cup {a}
<1>1. DOMAIN s \subseteq Nat /\ s = [j \in DOMAIN s |-> s[j]]
  BY LenProperties DEF GoodList
<1>2. \A j, k \in DOMAIN s : s[j] = s[k] => j = k
  BY DEF GoodList, OneEach
<1> DEFINE t == [s EXCEPT ![i] = a]
<1>3. DOMAIN t = DOMAIN s /\ t[i] = a /\ \A j \in DOMAIN s \ {i} : t[j] = s[j]
  BY <1>1
<1> HIDE DEF t
<1> QED
  <2>1. Elements(t) = (Elements(s) \ {s[i]}) \cup {a}
    BY <1>2, <1>3 DEF Elements
  <2> QED
    BY <2>1 DEF t

----------------------------------------------------------------------------
(* What a scan finds: the outcomes of a look at a registration file.         *)

SupersededBy(e, f) == [e EXCEPT !.iSuccessor = f, !.iIsPresent = "ESuperseded"]
Refreshed(e) == [Update(e) EXCEPT !.iIsPresent = "EIsPresent"]
Unreplaced(e) == [e EXCEPT !.iSuccessor = Null]

IsAdded(s, f, r) ==
    /\ Readable(f) /\ \A e \in Elements(s) : e.uid # UidOf[f]
    /\ r.changed = TRUE /\ Elements(r.list) = Elements(s) \cup {NewApp(f)}

IsIgnored(s, f, r) ==
    /\ r.changed = FALSE /\ r.list = s
    /\ \/ \E e \in Elements(s) : e.uid = UidOf[f] /\ ~IsPending(e)
       \/ ~Readable(f)
       \/ "NewFails" \in Happens

IsSuperseded(s, f, r) ==
    /\ r.changed = TRUE
    /\ \E e \in Elements(s) :
         /\ e.uid = UidOf[f] /\ IsPending(e)
         /\ Elements(r.list) = (Elements(s) \ {e}) \cup {SupersededBy(e, f)}

IsRefreshed(s, f, r) ==
    \E e \in Elements(s) :
        /\ e.file = f /\ IsPending(e)
        /\ r.changed = (UpdateChanges(e) \/ e.iIsPresent = "ENotPresentPendingUpdate")
        /\ Elements(r.list) = (Elements(s) \ {e}) \cup {Refreshed(e)}

IsLookedAt(s, f, r) ==
    /\ r.more = TRUE /\ r.failed = FALSE /\ r.gone = {}
    /\ IsAdded(s, f, r) \/ IsIgnored(s, f, r) \/ IsSuperseded(s, f, r) \/ IsRefreshed(s, f, r)

(* No successor could be read: the scan ends with a failure.                 *)
IsGivenUp(s, r) ==
    /\ "SuccessorFails" \in Happens
    /\ r.failed = TRUE /\ r.more = FALSE /\ r.changed = FALSE /\ r.gone = {}
    /\ \E e \in Elements(s) :
         IsPending(e) /\ Elements(r.list) = (Elements(s) \ {e}) \cup {Unreplaced(e)}

(* One registration file is looked at.                                       *)
LEMMA UpdateNextAppLooks ==
    ASSUME World, NEW s, GoodList(s), NEW f \in Files, NEW fin, NEW r \in UpdateNextApp(s, f, fin)
    PROVE  r.finder = fin /\ (IsLookedAt(s, f, r) \/ IsGivenUp(s, r))
<1> DEFINE i == AppDataByUid(s, UidOf[f])
<1>1. /\ s \in Seq(AppData) /\ s = [j \in DOMAIN s |-> s[j]]
      /\ i = 0 => \A e \in Elements(s) : e.uid # UidOf[f]
      /\ i # 0 => i \in DOMAIN s /\ s[i] \in Elements(s) /\ s[i].uid = UidOf[f] /\ s[i] \in AppData
  BY ElementOf, ElementsGood, LenProperties DEF GoodList, GoodElements
<1> HIDE DEF i
<1>2. CASE i = 0
  <2>1. r \in AddApp(s, f, fin)
    BY <1>2 DEF UpdateNextApp, i
  <2>2. \/ Readable(f) /\ r = Result(<<NewApp(f)>> \o s, TRUE, {}, fin, TRUE, FALSE)
        \/ /\ ~Readable(f) \/ "NewFails" \in Happens
           /\ r = Result(s, FALSE, {}, fin, TRUE, FALSE)
    BY <2>1, Zenon DEF AddApp
  <2>3. Elements(<<NewApp(f)>> \o s) = Elements(s) \cup {NewApp(f)}
    BY <1>1, ElementsAdded, NewAppType
  <2>4. CASE Readable(f) /\ r = Result(<<NewApp(f)>> \o s, TRUE, {}, fin, TRUE, FALSE)
    <3>1. r.finder = fin /\ r.more = TRUE /\ r.failed = FALSE /\ r.gone = {} /\ IsAdded(s, f, r)
      BY <1>1, <1>2, <2>3, <2>4, Zenon DEF Result, IsAdded
    <3> QED
      BY <3>1 DEF IsLookedAt
  <2>5. CASE /\ ~Readable(f) \/ "NewFails" \in Happens
             /\ r = Result(s, FALSE, {}, fin, TRUE, FALSE)
    <3>1. r.finder = fin /\ r.more = TRUE /\ r.failed = FALSE /\ r.gone = {} /\ IsIgnored(s, f, r)
      BY <2>5, Zenon DEF Result, IsIgnored
    <3> QED
      BY <3>1 DEF IsLookedAt
  <2> QED
    BY <2>2, <2>4, <2>5
<1>3. CASE i # 0 /\ ~IsPending(s[i])
  <2>1. r = Result(s, FALSE, {}, fin, TRUE, FALSE)
    BY <1>3 DEF UpdateNextApp, i
  <2>2. r.finder = fin /\ r.more = TRUE /\ r.failed = FALSE /\ r.gone = {} /\ IsIgnored(s, f, r)
    BY <1>1, <1>3, <2>1, Zenon DEF Result, IsIgnored
  <2> QED
    BY <2>2 DEF IsLookedAt
<1>4. CASE i # 0 /\ IsPending(s[i]) /\ s[i].file # f
  <2>1. r \in Supersede(s, i, f, fin)
    BY <1>4 DEF UpdateNextApp, i
  <2>2. /\ [s EXCEPT ![i].iSuccessor = f, ![i].iIsPresent = "ESuperseded"]
             = [s EXCEPT ![i] = SupersededBy(s[i], f)]
        /\ [s EXCEPT ![i].iSuccessor = Null] = [s EXCEPT ![i] = Unreplaced(s[i])]
    BY <1>1, <1>4 DEF AppData, SupersededBy, Unreplaced
  <2>3. \/ r = Result([s EXCEPT ![i] = SupersededBy(s[i], f)], TRUE, {}, fin, TRUE, FALSE)
        \/ /\ "SuccessorFails" \in Happens
           /\ r = Result([s EXCEPT ![i] = Unreplaced(s[i])], FALSE, {}, fin, FALSE, TRUE)
    BY <2>1, <2>2, Zenon DEF Supersede
  <2>4. /\ Elements([s EXCEPT ![i] = SupersededBy(s[i], f)])
             = (Elements(s) \ {s[i]}) \cup {SupersededBy(s[i], f)}
        /\ Elements([s EXCEPT ![i] = Unreplaced(s[i])])
             = (Elements(s) \ {s[i]}) \cup {Unreplaced(s[i])}
    <3>1. i \in DOMAIN s
      BY <1>1, <1>4
    <3>2. \A a : Elements([s EXCEPT ![i] = a]) = (Elements(s) \ {s[i]}) \cup {a}
      BY <3>1, ElementsReplaced, Zenon
    <3> QED
      BY <3>2, Zenon
  <2>5. CASE r = Result([s EXCEPT ![i] = SupersededBy(s[i], f)], TRUE, {}, fin, TRUE, FALSE)
    <3>1. /\ r.finder = fin /\ r.more = TRUE /\ r.failed = FALSE /\ r.gone = {}
          /\ r.changed = TRUE /\ r.list = [s EXCEPT ![i] = SupersededBy(s[i], f)]
      BY <2>5 DEF Result
    <3>2. IsSuperseded(s, f, r)
      BY <1>1, <1>4, <2>4, <3>1 DEF IsSuperseded
    <3> QED
      BY <3>1, <3>2 DEF IsLookedAt
  <2>6. CASE /\ "SuccessorFails" \in Happens
             /\ r = Result([s EXCEPT ![i] = Unreplaced(s[i])], FALSE, {}, fin, FALSE, TRUE)
    <3>1. /\ r.finder = fin /\ r.more = FALSE /\ r.failed = TRUE /\ r.gone = {}
          /\ r.changed = FALSE /\ r.list = [s EXCEPT ![i] = Unreplaced(s[i])]
      BY <2>6 DEF Result
    <3> QED
      BY <1>1, <1>4, <2>4, <2>6, <3>1 DEF IsGivenUp
  <2> QED
    BY <2>3, <2>5, <2>6
<1>5. CASE i # 0 /\ IsPending(s[i]) /\ s[i].file = f
  <2> DEFINE changed == UpdateChanges(s[i]) \/ s[i].iIsPresent = "ENotPresentPendingUpdate"
  <2>1. r = Result([s EXCEPT ![i] = Refreshed(s[i])], changed, {}, fin, TRUE, FALSE)
    BY <1>5, Zenon DEF UpdateNextApp, i, Refresh, Refreshed
  <2> HIDE DEF changed
  <2>2. /\ r.finder = fin /\ r.more = TRUE /\ r.failed = FALSE /\ r.gone = {}
        /\ r.changed = changed /\ r.list = [s EXCEPT ![i] = Refreshed(s[i])]
    BY <2>1 DEF Result
  <2>3. Elements(r.list) = (Elements(s) \ {s[i]}) \cup {Refreshed(s[i])}
    BY <1>1, <1>5, <2>2, ElementsReplaced
  <2>4. IsRefreshed(s, f, r)
    BY <1>1, <1>5, <2>2, <2>3, Zenon DEF IsRefreshed, changed
  <2> QED
    BY <2>2, <2>4 DEF IsLookedAt
<1> QED
  BY <1>2, <1>3, <1>4, <1>5

(* What PurgeL leaves: each element that is present, or its successor.       *)
LEMMA PurgedElements ==
    ASSUME World, NEW s, GoodList(s), NEW p \in WholePurges(s)
    PROVE  /\ \A e \in Elements(Purge(s, p)) :
                \E g \in Elements(s) : g.iIsPresent # "ENotPresent" /\ e = Renewed(g, p)
           /\ \A g \in Elements(s) :
                g.iIsPresent # "ENotPresent" /\ ~Stuck(g, p) => Renewed(g, p) \in Elements(Purge(s, p))
<1>0. \A i \in DOMAIN s : s[i].uid \in p.reached
  <2>1. \A i \in DOMAIN s : s[i] \in AppData
    BY ElementOfSeq, LenProperties DEF GoodList
  <2>2. p.reached = Uids
    BY DEF WholePurges
  <2> QED
    BY <2>1, <2>2 DEF AppData
<1>1. ASSUME NEW n \in DOMAIN Purge(s, p)
      PROVE  NthOf(Kept(s, p), n) \in Kept(s, p) /\ Purge(s, p)[n] = Renewed(s[NthOf(Kept(s, p), n)], p)
  BY PurgeKeeps, NthOfRank
<1>2. \A i \in Kept(s, p) : i \in DOMAIN s /\ s[i].iIsPresent # "ENotPresent"
  BY <1>0 DEF Kept, Removed
<1>3. ASSUME NEW e \in Elements(Purge(s, p))
      PROVE  \E g \in Elements(s) : g.iIsPresent # "ENotPresent" /\ e = Renewed(g, p)
  <2>1. PICK n \in DOMAIN Purge(s, p) : e = Purge(s, p)[n]
    BY <1>3 DEF Elements
  <2>2. PICK i \in Kept(s, p) : e = Renewed(s[i], p)
    BY <1>1, <2>1
  <2>3. s[i] \in Elements(s) /\ s[i].iIsPresent # "ENotPresent"
    BY <1>2, <2>2 DEF Elements
  <2> QED
    BY <2>2, <2>3
<1>4. ASSUME NEW g \in Elements(s), g.iIsPresent # "ENotPresent", ~Stuck(g, p)
      PROVE  Renewed(g, p) \in Elements(Purge(s, p))
  <2>1. PICK i \in DOMAIN s : g = s[i]
    BY DEF Elements
  <2>2. i \in Kept(s, p)
    BY <1>4, <2>1, Zenon DEF Kept, Removed, Leaked
  <2>3. PICK n \in 1 .. Cardinality(Kept(s, p)) : NthOf(Kept(s, p), n) = i
    BY <2>2, PurgeKeeps, NthOfReaches
  <2>4. n \in DOMAIN Purge(s, p) /\ Purge(s, p)[n] = Renewed(g, p)
    BY <1>1, <2>1, <2>3, PurgeKeeps
  <2> QED
    BY <2>4, Zenon DEF Elements
<1> QED
  BY <1>3, <1>4

(* The scan ends: there is nothing left to read.                             *)
IsFinished(s, fin, r) ==
    /\ Listing(fin).files = {}
    /\ r.more = FALSE /\ r.failed = FALSE
    /\ \E p \in WholePurges(SetNotFound(s)) : r.list = Purge(SetNotFound(s), p)
    /\ r.changed = AnyPending(s)

(* It ends early: the next file could not be read, or no successor.          *)
IsLeft(s, r) ==
    /\ {"NextFails", "SuccessorFails"} \cap Happens # {}
    /\ r.failed = TRUE /\ r.more = FALSE
    /\ \/ r.list = s /\ r.changed = FALSE
       \/ \E q : IsGivenUp(s, q) /\ r.list = SetNotFound(q.list) /\ r.changed = AnyPending(q.list)

(* A step of a scan is one of these, unless PurgeL leaves.                   *)
LEMMA IdleUpdateLooks ==
    ASSUME World, "PurgeFails" \notin Happens, NEW s, GoodList(s), NEW fin \in Finder, NEW r \in IdleUpdate(s, fin)
    PROVE  \/ IsFinished(s, fin, r)
           \/ \E f \in Listing(fin).files :
                IsLookedAt(s, f, r) /\ r.finder = [Listing(fin) EXCEPT !.files = @ \ {f}]
           \/ IsLeft(s, r)
<1> DEFINE l == Listing(fin)
<1>1. l \in Finder
  BY ListingType
<1> HIDE DEF l
<1>2. \/ l.files = {} /\ r \in FinishScan(s, l)
      \/ \E f \in l.files : \E q \in UpdateNextApp(s, f, [l EXCEPT !.files = @ \ {f}]) :
            r = AbandonShip(q)
      \/ "NextFails" \in Happens /\ r = Result(s, FALSE, {}, [l EXCEPT !.files = {}], FALSE, TRUE)
  BY Zenon DEF IdleUpdate, l
<1>3. CASE l.files = {} /\ r \in FinishScan(s, l)
  <2> DEFINE t == SetNotFound(s)
  <2>1. CutPurges(t) = {}
    BY DEF CutPurges
  <2>2. PICK p \in WholePurges(t) :
           r = Result(Purge(t, p), AnyPending(s), PurgedUids(t, p), l, FALSE, FALSE)
    BY <1>3, <2>1, Zenon DEF FinishScan
  <2>3. IsFinished(s, fin, r)
    BY <1>3, <2>2, Zenon DEF IsFinished, Result, l
  <2> QED
    BY <2>3
<1>4. ASSUME NEW f \in l.files, NEW q \in UpdateNextApp(s, f, [l EXCEPT !.files = @ \ {f}]),
             r = AbandonShip(q)
      PROVE  \/ IsLookedAt(s, f, r) /\ r.finder = [l EXCEPT !.files = @ \ {f}]
             \/ IsLeft(s, r)
  <2>1. f \in Files
    BY <1>1, <1>4 DEF Finder
  <2>2. /\ q.finder = [l EXCEPT !.files = @ \ {f}]
        /\ IsLookedAt(s, f, q) \/ IsGivenUp(s, q)
    BY <1>4, <2>1, UpdateNextAppLooks
  <2>3. CASE IsLookedAt(s, f, q)
    <3>1. q.failed = FALSE
      BY <2>3 DEF IsLookedAt
    <3>2. r = q
      BY <1>4, <3>1 DEF AbandonShip
    <3> QED
      BY <2>2, <2>3, <3>2
  <2>4. CASE IsGivenUp(s, q)
    <3>1. q.failed = TRUE /\ q.more = FALSE /\ "SuccessorFails" \in Happens
      BY <2>4 DEF IsGivenUp
    <3>2. r = Result(SetNotFound(q.list), AnyPending(q.list), q.gone, q.finder, q.more, TRUE)
      BY <1>4, <3>1, Zenon DEF AbandonShip
    <3>3. r.failed = TRUE /\ r.more = FALSE /\ r.list = SetNotFound(q.list) /\ r.changed = AnyPending(q.list)
      BY <3>1, <3>2, Zenon DEF Result
    <3>4. {"NextFails", "SuccessorFails"} \cap Happens # {}
      BY <3>1
    <3>5. IsLeft(s, r)
      BY <2>4, <3>3, <3>4, Zenon DEF IsLeft
    <3> QED
      BY <3>5
  <2> QED
    BY <2>2, <2>3, <2>4
<1>5. CASE "NextFails" \in Happens /\ r = Result(s, FALSE, {}, [l EXCEPT !.files = {}], FALSE, TRUE)
  <2>1. r.failed = TRUE /\ r.more = FALSE /\ r.list = s /\ r.changed = FALSE
    BY <1>5, Zenon DEF Result
  <2>2. {"NextFails", "SuccessorFails"} \cap Happens # {}
    BY <1>5
  <2>3. IsLeft(s, r)
    BY <2>1, <2>2, Zenon DEF IsLeft
  <2> QED
    BY <2>3
<1> HIDE DEF IsLookedAt, IsLeft, IsFinished
<1> QED
  BY <1>2, <1>3, <1>4, <1>5 DEF l

----------------------------------------------------------------------------
(* What can be read from a list, and what is stored of it.                   *)

Contents(s) == {Stored(s[i]) : i \in DOMAIN s}

Alike(e, g) == Stored(e) = Stored(g) /\ e.lang = g.lang

LooksSame(s, t) ==
    /\ \A e \in Elements(s) : \E g \in Elements(t) : Alike(e, g)
    /\ \A g \in Elements(t) : \E e \in Elements(s) : Alike(e, g)

(* Lists that look the same are stored the same, and no client can tell them *)
(* apart.                                                                    *)
LEMMA SameLook ==
    ASSUME NEW s, NEW t, LooksSame(s, t)
    PROVE  Contents(s) = Contents(t) /\ View(s) = View(t)
<1>1. /\ \A i \in DOMAIN s : \E j \in DOMAIN t : Alike(s[i], t[j])
      /\ \A j \in DOMAIN t : \E i \in DOMAIN s : Alike(s[i], t[j])
  BY DEF LooksSame, Elements
<1>2. Contents(s) = Contents(t)
  BY <1>1 DEF Contents, Alike
<1> DEFINE v(e) == [Stored(e) EXCEPT !.stamp = <<@, e.lang>>]
<1>3. \A e, g : Alike(e, g) => v(e) = v(g)
  BY DEF Alike
<1>4. View(s) = {v(s[i]) : i \in DOMAIN s} /\ View(t) = {v(t[i]) : i \in DOMAIN t}
  BY DEF View
<1> HIDE DEF v
<1>5. View(s) = View(t)
  BY <1>1, <1>3, <1>4
<1> QED
  BY <1>2, <1>5

(* Marking elements is not seen.                                             *)
LEMMA MarkedLooksSame ==
    ASSUME NEW s \in Seq(AppData), NEW which
    PROVE  /\ LooksSame(s, s) /\ LooksSame(s, SetPending(s, which))
           /\ LooksSame(s, UndoSetPending(s)) /\ LooksSame(s, SetNotFound(s))
<1>1. \A e \in Elements(s) : e \in AppData
  BY ElementOfSeq, LenProperties DEF Elements
<1>2. \A e \in Elements(s) : /\ Alike(e, e) /\ Alike(e, Pended(e, which))
                             /\ Alike(e, Unpended(e)) /\ Alike(e, NotFound(e))
  BY <1>1, MarkedElement DEF Alike, Stored
<1> QED
  BY <1>2, ElementsMarked DEF LooksSame

(* Looks are compared in turn.                                               *)
LEMMA LooksSameOn ==
    ASSUME NEW s, NEW t, NEW q, LooksSame(s, t), LooksSame(t, q)
    PROVE  LooksSame(s, q)
<1>1. \A e, g, h : Alike(e, g) /\ Alike(g, h) => Alike(e, h)
  BY DEF Alike
<1> QED
  BY <1>1 DEF LooksSame

(* One element is replaced by one that looks like it.                        *)
LEMMA ReplacedLooksSame ==
    ASSUME NEW s, NEW t, NEW e \in Elements(s), NEW g, Alike(e, g),
           Elements(t) = (Elements(s) \ {e}) \cup {g}
    PROVE  LooksSame(s, t)
<1>1. \A h : Alike(h, h)
  BY DEF Alike
<1>2. \A h \in Elements(s) : \E k \in Elements(t) : Alike(h, k)
  BY <1>1
<1>3. \A k \in Elements(t) : \E h \in Elements(s) : Alike(h, k)
  BY <1>1
<1> QED
  BY <1>2, <1>3 DEF LooksSame

(* A look at a file that reports no change made none.                        *)
LEMMA LookedAtLooksSame ==
    ASSUME World, NEW s, GoodList(s), NEW f \in Files, NEW r, IsLookedAt(s, f, r), ~r.changed
    PROVE  LooksSame(s, r.list)
<1>1. s \in Seq(AppData) /\ \A e \in Elements(s) : e \in AppData
  BY ElementsGood DEF GoodElements, GoodList
<1>2. CASE r.list = s
  BY <1>1, <1>2, MarkedLooksSame
<1>3. CASE IsRefreshed(s, f, r)
  <2>1. PICK e \in Elements(s) :
           ~UpdateChanges(e) /\ Elements(r.list) = (Elements(s) \ {e}) \cup {Refreshed(e)}
    BY <1>3 DEF IsRefreshed
  <2>2. Alike(e, Refreshed(e))
    BY <1>1, <2>1 DEF Alike, Stored, Refreshed, Update, UpdateChanges, AppData
  <2> QED
    BY <2>1, <2>2, ReplacedLooksSame
<1> QED
  BY <1>2, <1>3 DEF IsLookedAt, IsAdded, IsIgnored, IsSuperseded

(* ... nor did one that failed.                                              *)
LEMMA GivenUpLooksSame ==
    ASSUME NEW s, GoodList(s), NEW r, IsGivenUp(s, r)
    PROVE  LooksSame(s, r.list)
<1>1. PICK e \in Elements(s) : Elements(r.list) = (Elements(s) \ {e}) \cup {Unreplaced(e)}
  BY DEF IsGivenUp
<1>2. e \in AppData
  BY ElementsGood DEF GoodElements
<1>3. Alike(e, Unreplaced(e))
  BY <1>2 DEF Alike, Stored, Unreplaced, AppData
<1> QED
  BY <1>1, <1>3, ReplacedLooksSame

(* A scan that ends having found everything, and replaces nothing, changes   *)
(* nothing.                                                                  *)
LEMMA FinishedLooksSame ==
    ASSUME World, NEW s, GoodList(s), ~AnyPending(s),
           \A e \in Elements(s) : e.iIsPresent \notin {"ENotPresent", "ESuperseded"},
           NEW p \in WholePurges(SetNotFound(s))
    PROVE  LooksSame(s, Purge(SetNotFound(s), p))
<1> DEFINE q == SetNotFound(s)
<1>1. \A e \in Elements(s) : ~IsPending(e) /\ NotFound(e) = e
  BY DEF AnyPending, Elements, NotFound
<1>2. Elements(q) = Elements(s)
  <2>1. Elements(q) = {NotFound(e) : e \in Elements(s)}
    BY ElementsMarked
  <2>2. {NotFound(e) : e \in Elements(s)} = Elements(s)
    BY <1>1
  <2> QED
    BY <2>1, <2>2
<1>3. GoodList(q)
  BY SetNotFoundSame, SameElementsGood DEF GoodList
<1> HIDE DEF q
<1>4. \A e \in Elements(q) : Renewed(e, p) = e /\ ~Stuck(e, p)
  BY <1>2 DEF Renewed, Replaced, Stuck
<1>5. Elements(Purge(q, p)) = Elements(s)
  <2>1. p \in WholePurges(q)
    BY DEF q
  <2> QED
    BY <1>2, <1>3, <1>4, <2>1, PurgedElements
<1>6. \A e : Alike(e, e)
  BY DEF Alike
<1> QED
  BY <1>5, <1>6 DEF LooksSame, q

(* An element as it was stored.                                              *)
RestoredApp(file, r) ==
    [uid |-> r.uid, file |-> r.file, stamp |-> r.stamp, lang |-> file.lang,
     iIsPresent |-> "EIsPresent", iSuccessor |-> Null]

(* The list restored has the elements that were stored.                      *)
LEMMA RestoredElements ==
    ASSUME NEW file \in ListFile
    PROVE  /\ Elements(RestoredList(file)) = {RestoredApp(file, r) : r \in ToSet(file.apps)}
           /\ Contents(RestoredList(file)) = ToSet(file.apps)
<1> DEFINE n == Len(file.apps)
           t == RestoredList(file)
<1>1. /\ file.apps \in Seq(StoredApp) /\ n \in Nat /\ DOMAIN file.apps = 1 .. n
      /\ \A i \in 1 .. n : file.apps[i] \in StoredApp
  BY LenProperties, ElementOfSeq DEF ListFile
<1>2. /\ DOMAIN t = 1 .. n
      /\ \A i \in 1 .. n : t[i] = RestoredApp(file, file.apps[n - i + 1])
  <2> DEFINE q == [i \in DOMAIN file.apps |-> RestoredApp(file, file.apps[i])]
  <2>1. t = Reverse(q)
    BY Zenon DEF RestoredList, RestoredApp
  <2>2. q \in [1 .. n -> {RestoredApp(file, file.apps[i]) : i \in 1 .. n}]
    BY <1>1
  <2>3. Len(q) = n /\ \A i \in 1 .. n : q[i] = RestoredApp(file, file.apps[i])
    BY <1>1, <2>2, IsASeq, LenProperties
  <2> HIDE DEF q, t
  <2>4. t = [i \in 1 .. n |-> q[n - i + 1]]
    BY <2>1, <2>3 DEF Reverse
  <2>5. \A i \in 1 .. n : n - i + 1 \in 1 .. n
    BY <1>1
  <2> QED
    BY <2>3, <2>4, <2>5
<1>3. \A i \in 1 .. n : n - i + 1 \in 1 .. n /\ n - (n - i + 1) + 1 = i
  BY <1>1
<1> HIDE DEF t, n
<1>4. ToSet(file.apps) = {file.apps[i] : i \in 1 .. n}
  BY <1>1 DEF ToSet
<1>5. Elements(t) = {RestoredApp(file, r) : r \in ToSet(file.apps)}
  <2>1. \A e \in Elements(t) : \E r \in ToSet(file.apps) : e = RestoredApp(file, r)
    BY <1>2, <1>3, <1>4 DEF Elements
  <2>2. \A r \in ToSet(file.apps) : RestoredApp(file, r) \in Elements(t)
    <3>1. SUFFICES ASSUME NEW i \in 1 .. n PROVE RestoredApp(file, file.apps[i]) \in Elements(t)
      BY <1>4
    <3>2. n - i + 1 \in DOMAIN t /\ t[n - i + 1] = RestoredApp(file, file.apps[i])
      BY <1>2, <1>3
    <3> QED
      BY <3>2 DEF Elements
  <2> QED
    BY <2>1, <2>2
<1>6. \A r \in ToSet(file.apps) : Stored(RestoredApp(file, r)) = r
  BY <1>1, <1>4 DEF Stored, RestoredApp, StoredApp
<1>7. Contents(t) = {Stored(e) : e \in Elements(t)}
  BY DEF Contents, Elements
<1>8. Contents(t) = ToSet(file.apps)
  BY <1>5, <1>6, <1>7
<1> QED
  BY <1>5, <1>8 DEF t

----------------------------------------------------------------------------
(* The list, the files it is stored in, and the flag that tells them apart.  *)

Scanning == iAppIdler \/ phase = "Restoring"

(* No element stays in the list without being present.                       *)
NoneDropped(s) ==
    \A e \in Elements(s) : e.iIsPresent \notin {"ENotPresent", "ENotPresentPendingUpdate"}

(* The scan that supersedes an element has reported a change.                *)
SupersededTold(s, fl) ==
    (\E e \in Elements(s) : e.iIsPresent = "ESuperseded") => "EAppListHasChanged" \in fl

(* Until a change is reported the backup holds the list.                     *)
BackupHolds(s, fl) ==
    backup # NoFile /\ "EAppListHasChanged" \notin fl => Contents(s) = ToSet(backup.apps)

(* AppsList.bin exists only when nothing is at work, and holds the list.     *)
CacheHolds ==
    /\ phase = "Restoring" => cache = NoFile
    /\ phase = "Up" /\ cache # NoFile =>
         /\ ~iAppIdler /\ iAppIconLoader = Off /\ iAppListStorer = Off
         /\ Contents(iAppData) = ToSet(cache.apps)

OneWorker == iAppIconLoader = Off \/ iAppListStorer = Off

Tidy ==
    /\ OneWorker
    /\ NoneDropped(iAppData)
    /\ Scanning => SupersededTold(iAppData, iFlags)
    /\ phase # "Down" => BackupHolds(iAppData, iFlags)
    /\ CacheHolds

(* What leaves a scan, or does not let it begin or be followed up, as        *)
(* RestartScanL may.                                                         *)
ScansComplete ==
    {"StartFails", "NextFails", "SuccessorFails", "PurgeFails", "LoaderFails", "RestartScan"}
      \cap Happens = {}

(* A look at a file keeps the list tidy.                                     *)
LEMMA LookedAtTidy ==
    ASSUME World, NEW s, GoodList(s), NEW f \in Files, NEW r, IsLookedAt(s, f, r),
           NEW fl, NoneDropped(s), SupersededTold(s, fl)
    PROVE  /\ NoneDropped(r.list)
           /\ SupersededTold(r.list, fl \cup FlagChange(r.changed))
           /\ "EAppListHasChanged" \notin fl \cup FlagChange(r.changed) => LooksSame(s, r.list)
<1> DEFINE new == fl \cup FlagChange(r.changed)
<1>1. /\ "EAppListHasChanged" \in fl => "EAppListHasChanged" \in new
      /\ r.changed => "EAppListHasChanged" \in new
  BY DEF FlagChange
<1> HIDE DEF new
<1>2. \A e \in Elements(s) : e \in AppData
  BY ElementsGood DEF GoodElements
<1>3. ASSUME NEW e \in Elements(r.list)
      PROVE  \/ e \in Elements(s) \/ e.iIsPresent = "EIsPresent"
             \/ e.iIsPresent = "ESuperseded" /\ r.changed
  <2>1. CASE IsAdded(s, f, r)
    BY <1>3, <2>1, NewAppType DEF IsAdded
  <2>2. CASE IsIgnored(s, f, r)
    BY <1>3, <2>2 DEF IsIgnored
  <2>3. CASE IsSuperseded(s, f, r)
    <3>1. PICK g \in Elements(s) :
             r.changed /\ Elements(r.list) = (Elements(s) \ {g}) \cup {SupersededBy(g, f)}
      BY <2>3 DEF IsSuperseded
    <3>2. SupersededBy(g, f).iIsPresent = "ESuperseded"
      BY <1>2, <3>1 DEF SupersededBy, AppData
    <3> QED
      BY <1>3, <3>1, <3>2
  <2>4. CASE IsRefreshed(s, f, r)
    <3>1. PICK g \in Elements(s) : Elements(r.list) = (Elements(s) \ {g}) \cup {Refreshed(g)}
      BY <2>4 DEF IsRefreshed
    <3>2. Refreshed(g).iIsPresent = "EIsPresent"
      BY <1>2, <3>1 DEF Refreshed, Update, AppData
    <3> QED
      BY <1>3, <3>1, <3>2
  <2> QED
    BY <2>1, <2>2, <2>3, <2>4 DEF IsLookedAt
<1>4. NoneDropped(r.list)
  BY <1>3 DEF NoneDropped
<1>5. SupersededTold(r.list, new)
  BY <1>1, <1>3 DEF SupersededTold
<1>6. "EAppListHasChanged" \notin new => LooksSame(s, r.list)
  BY <1>1, LookedAtLooksSame
<1> QED
  BY <1>4, <1>5, <1>6 DEF new

(* ... and so does the end of a scan.                                        *)
LEMMA FinishedTidy ==
    ASSUME World, NEW s, GoodList(s), NEW fin, NEW r, IsFinished(s, fin, r),
           NEW fl, NoneDropped(s), SupersededTold(s, fl)
    PROVE  /\ NoneDropped(r.list)
           /\ "EAppListHasChanged" \notin fl \cup FlagChange(r.changed) => LooksSame(s, r.list)
<1> DEFINE q == SetNotFound(s)
<1>0. PICK p \in WholePurges(q) : r.list = Purge(q, p)
  BY DEF IsFinished
<1>1. GoodList(q) /\ r.list = Purge(q, p) /\ r.changed = AnyPending(s)
  BY <1>0, SetNotFoundSame, SameElementsGood DEF GoodList, IsFinished
<1>2. Elements(q) = {NotFound(e) : e \in Elements(s)}
  BY ElementsMarked
<1>3. /\ \A e \in Elements(s) : e \in AppData /\ e.uid = UidOf[e.file]
      /\ \A e \in Elements(s) : e.iIsPresent = "ESuperseded" => e.iSuccessor \in Files
  BY ElementsGood DEF GoodElements
<1>4. ASSUME NEW e \in Elements(r.list)
      PROVE  e.iIsPresent \notin {"ENotPresent", "ENotPresentPendingUpdate"}
  <2>1. PICK g \in Elements(q) : g.iIsPresent # "ENotPresent" /\ e = Renewed(g, p)
    <3> HIDE DEF q
    <3> QED
      BY <1>1, <1>4, PurgedElements
  <2>2. PICK h \in Elements(s) : g = NotFound(h)
    BY <1>2, <2>1
  <2>3. g = h
    BY <1>3, <2>1, <2>2, MarkedElement
  <2>4. CASE Replaced(h, p)
    <3>1. e = NewApp(h.iSuccessor) /\ h.iSuccessor \in Files
      BY <1>3, <2>1, <2>3, <2>4 DEF Renewed, Replaced
    <3>2. NewApp(h.iSuccessor).iIsPresent = "EIsPresent"
      BY <3>1, NewAppType
    <3> QED
      BY <3>1, <3>2
  <2>5. CASE ~Replaced(h, p)
    BY <2>1, <2>3, <2>5 DEF Renewed, NoneDropped
  <2> QED
    BY <2>4, <2>5
<1>5. ASSUME "EAppListHasChanged" \notin fl \cup FlagChange(r.changed)
      PROVE  LooksSame(s, r.list)
  <2>1. ~r.changed /\ "EAppListHasChanged" \notin fl
    BY <1>5 DEF FlagChange
  <2>2. ~AnyPending(s) /\ \A e \in Elements(s) : e.iIsPresent \notin {"ENotPresent", "ESuperseded"}
    BY <1>1, <2>1 DEF NoneDropped, SupersededTold
  <2> QED
    BY <1>1, <2>2, FinishedLooksSame
<1> QED
  BY <1>4, <1>5 DEF NoneDropped

(* A step of a scan, then.                                                   *)
LEMMA IdleUpdateTidy ==
    ASSUME World, {"NextFails", "SuccessorFails", "PurgeFails"} \cap Happens = {},
           NEW s, GoodList(s), NEW fin \in Finder, NEW r \in IdleUpdate(s, fin),
           NEW fl, NoneDropped(s), SupersededTold(s, fl)
    PROVE  /\ ~r.failed
           /\ NoneDropped(r.list)
           /\ r.more => SupersededTold(r.list, fl \cup FlagChange(r.changed))
           /\ "EAppListHasChanged" \notin fl \cup FlagChange(r.changed) => LooksSame(s, r.list)
<1>1. ~IsLeft(s, r) /\ "PurgeFails" \notin Happens
  BY DEF IsLeft
<1>2. CASE IsFinished(s, fin, r)
  BY <1>2, FinishedTidy DEF IsFinished
<1>3. ASSUME NEW f \in Listing(fin).files, IsLookedAt(s, f, r)
      PROVE  /\ ~r.failed /\ NoneDropped(r.list)
             /\ SupersededTold(r.list, fl \cup FlagChange(r.changed))
             /\ "EAppListHasChanged" \notin fl \cup FlagChange(r.changed) => LooksSame(s, r.list)
  <2>1. f \in Files
    BY <1>3, ListingType DEF Finder
  <2> QED
    BY <1>3, <2>1, LookedAtTidy DEF IsLookedAt
<1> QED
  BY <1>1, <1>2, <1>3, IdleUpdateLooks

(* The list is initiated to be stored: either the backup held it already, or *)
(* there is neither file until it is stored anew.                            *)
LEMMA InitiateStoringTidy ==
    ASSUME NEW s, NEW fl, NEW observer, InitiateStoring(s, fl, observer),
           iAppData' = s, ~iAppIdler', phase' = "Up", iAppIconLoader' = Off,
           cache = NoFile, NoneDropped(s), BackupHolds(s, fl)
    PROVE  Tidy'
<1>1. /\ backup' = NoFile
      /\ \/ BackupIsGood(fl) /\ cache' = backup /\ iAppListStorer' = Off
         \/ cache' = NoFile
  BY DEF InitiateStoring, KeepOrStore
<1>2. OneWorker' /\ ~Scanning' /\ BackupHolds(iAppData, iFlags)'
  BY <1>1 DEF OneWorker, Scanning, BackupHolds
<1>3. NoneDropped(iAppData')
  OBVIOUS
<1>4. CacheHolds'
  <2>1. CASE BackupIsGood(fl) /\ cache' = backup /\ iAppListStorer' = Off
    BY <2>1 DEF CacheHolds, BackupIsGood, BackupHolds
  <2>2. CASE cache' = NoFile
    BY <2>2 DEF CacheHolds
  <2> QED
    BY <1>1, <2>1, <2>2
<1> QED
  BY <1>2, <1>3, <1>4, Zenon DEF Tidy

(* What follows a scan.                                                      *)
LEMMA AfterScanTidy ==
    ASSUME NEW s, NEW gone, NEW fl, NEW observer, AfterScan(s, gone, fl, observer),
           iAppData' = s, ~iAppIdler', phase' = "Up", iAppListStorer = Off,
           cache = NoFile, NoneDropped(s), BackupHolds(s, fl)
    PROVE  Tidy'
<1>1. CASE iLoadMbmIconsOnDemand
  <2>1. iAppIconLoader' = Off /\ InitiateStoring(s, fl, observer)
    BY <1>1, Zenon DEF AfterScan
  <2> QED
    BY <2>1, InitiateStoringTidy
<1>2. CASE ~iLoadMbmIconsOnDemand
  <2>1. UNCHANGED <<cache, backup, iAppListStorer>> /\ iFlags' = fl
    BY <1>2, Zenon DEF AfterScan
  <2>2. OneWorker' /\ ~Scanning' /\ BackupHolds(iAppData, iFlags)' /\ NoneDropped(iAppData')
    BY <2>1 DEF OneWorker, Scanning, BackupHolds
  <2>3. CacheHolds'
    BY <2>1 DEF CacheHolds
  <2> QED
    BY <2>2, <2>3, Zenon DEF Tidy
<1> QED
  BY <1>1, <1>2

(* A scan starts: AppsList.bin becomes the backup, or the backup stays.      *)
LEMMA StartScanTidy ==
    ASSUME ListInv, Tidy, NEW fl, iFlags \subseteq fl, StartScan(iAppData, {}, fl), MoveCacheAway,
           phase = "Up", phase' = "Up"
    PROVE  Tidy'
<1>1. /\ iAppData' = SetPending(iAppData, Files) /\ iAppListStorer' = Off /\ iAppIdler' = TRUE
      /\ iFlags' = fl /\ cache' = NoFile /\ backup' = IF cache # NoFile THEN cache ELSE backup
  BY DEF StartScan, StopWorkers, MoveCacheAway
<1>2. iAppData \in Seq(AppData) /\ \A e \in Elements(iAppData) : e \in AppData
  BY ElementsGood DEF ListInv, GoodElements, GoodList
<1>3. Contents(iAppData) = Contents(iAppData')
  BY <1>1, <1>2, MarkedLooksSame, SameLook
<1>4. \A e \in Elements(iAppData') : e.iIsPresent = "EPresentPendingUpdate"
  <2>1. SUFFICES ASSUME NEW e \in Elements(iAppData)
                 PROVE  Pended(e, Files).iIsPresent = "EPresentPendingUpdate"
    BY <1>1, ElementsMarked
  <2>2. e \in AppData /\ e.iIsPresent \notin {"ENotPresent", "ENotPresentPendingUpdate"}
    BY <1>2 DEF Tidy, NoneDropped
  <2> QED
    BY <2>2 DEF Pended, SetAppPending, AppData
<1>5. NoneDropped(iAppData')
  BY <1>4 DEF NoneDropped
<1>6. SupersededTold(iAppData', iFlags')
  BY <1>4 DEF SupersededTold
<1>7. BackupHolds(iAppData, iFlags)'
  <2>1. CASE cache # NoFile
    BY <1>1, <1>3, <2>1 DEF Tidy, CacheHolds, BackupHolds
  <2>2. CASE cache = NoFile
    BY <1>1, <1>3, <2>2 DEF Tidy, BackupHolds
  <2> QED
    BY <2>1, <2>2
<1>8. CacheHolds' /\ OneWorker'
  BY <1>1 DEF CacheHolds, OneWorker
<1> QED
  BY <1>5, <1>6, <1>7, <1>8, Zenon DEF Tidy

(* A list of nothing.                                                        *)
LEMMA EmptyTidy ==
    ASSUME NEW fl, ScanFromNothing(fl), backup' = NoFile,
           UNCHANGED <<iAppIconLoader, iAppListStorer>>, OneWorker
    PROVE  Tidy'
<1>1. Elements(<<>>) = {}
  BY DEF Elements
<1>2. iAppData' = <<>> /\ cache' = NoFile /\ phase' = "Up" /\ iFlags' = fl
  BY DEF ScanFromNothing
<1>3. NoneDropped(iAppData') /\ SupersededTold(iAppData', iFlags')
  BY <1>1, <1>2 DEF NoneDropped, SupersededTold
<1>4. CacheHolds' /\ BackupHolds(iAppData, iFlags)' /\ OneWorker'
  BY <1>2 DEF CacheHolds, BackupHolds, OneWorker
<1> QED
  BY <1>3, <1>4, Zenon DEF Tidy

(* The list is restored: its file is now the backup.                         *)
LEMMA RestoredTidy ==
    ASSUME cache \in ListFile, backup' = cache, cache' = NoFile,
           iAppData' = SetPending(RestoredList(cache), Removable), phase' = "Restoring",
           GoodList(RestoredList(cache)),
           UNCHANGED <<iAppIconLoader, iAppListStorer>>, OneWorker
    PROVE  Tidy'
<1> DEFINE s == RestoredList(cache)
<1>1. Elements(s) = {RestoredApp(cache, r) : r \in ToSet(cache.apps)} /\ Contents(s) = ToSet(cache.apps)
  BY RestoredElements
<1>2. s \in Seq(AppData) /\ \A e \in Elements(s) : e \in AppData
  BY ElementsGood DEF GoodElements, GoodList
<1>3. \A e \in Elements(s) : e.iIsPresent = "EIsPresent"
  BY <1>1 DEF RestoredApp
<1> HIDE DEF s
<1>4. iAppData' = SetPending(s, Removable)
  BY DEF s
<1>5. Contents(iAppData') = ToSet(cache.apps)
  BY <1>1, <1>2, <1>4, MarkedLooksSame, SameLook
<1>6. \A e \in Elements(iAppData') : e.iIsPresent \in {"EIsPresent", "EPresentPendingUpdate"}
  <2>0. Elements(iAppData') = {Pended(e, Removable) : e \in Elements(s)}
    BY <1>4, ElementsMarked
  <2>1. SUFFICES ASSUME NEW e \in Elements(s)
                 PROVE  Pended(e, Removable).iIsPresent \in {"EIsPresent", "EPresentPendingUpdate"}
    BY <2>0
  <2>2. e \in AppData /\ e.iIsPresent = "EIsPresent"
    BY <1>2, <1>3
  <2> QED
    BY <2>2 DEF Pended, SetAppPending, AppData
<1>7. NoneDropped(iAppData') /\ SupersededTold(iAppData', iFlags')
  BY <1>6 DEF NoneDropped, SupersededTold
<1>8. CacheHolds' /\ BackupHolds(iAppData, iFlags)' /\ OneWorker'
  BY <1>5 DEF CacheHolds, BackupHolds, OneWorker
<1> QED
  BY <1>7, <1>8, Zenon DEF Tidy

(* Every step keeps the list and its files tidy.                             *)
LEMMA NextTidy ==
    ASSUME ScansComplete, ListInv, StoreInv, Tidy, [Next]_vars
    PROVE  Tidy'
<1>0. /\ World /\ GoodList(iAppData) /\ iAppData \in Seq(AppData) /\ iAppRegFinder \in Finder
      /\ OneAtWork /\ OneWorker /\ NoneDropped(iAppData)
      /\ {"NextFails", "SuccessorFails", "PurgeFails"} \cap Happens = {}
      /\ "StartFails" \notin Happens /\ "RestartScan" \notin Happens /\ ~idlerUnstarted
      /\ cache # NoFile => cache \in ListFile /\ OneEach(cache.apps)
  BY DEF ListInv, OneAtWork, TypeOK, World, Finder, GoodList, GoodFile, Tidy, ScansComplete
<1>a. ASSUME UNCHANGED <<cache, backup, iAppData, iFlags, iAppIdler, phase, iAppListStorer>>,
             iAppIconLoader' = iAppIconLoader \/ (iAppListStorer = Off /\ iAppIconLoader # Off)
      PROVE  Tidy'
  BY <1>a DEF Tidy, OneWorker, Scanning, BackupHolds, CacheHolds
<1>d. ASSUME UNCHANGED <<cache, backup, iAppData, iFlags, iAppIdler, phase, iAppListStorer,
                        iAppIconLoader>>
      PROVE  Tidy'
  BY <1>d DEF Tidy, OneWorker, Scanning, BackupHolds, CacheHolds
<1>b. \A r \in IdleUpdate(iAppData, iAppRegFinder) : \A fl :
        SupersededTold(iAppData, fl) =>
          /\ ~r.failed /\ NoneDropped(r.list)
          /\ r.more => SupersededTold(r.list, fl \cup FlagChange(r.changed))
          /\ "EAppListHasChanged" \notin fl \cup FlagChange(r.changed) => LooksSame(iAppData, r.list)
  BY <1>0, IdleUpdateTidy
<1>c. ASSUME phase # "Down", NEW s, NEW fl, iFlags \subseteq fl \cup {"ELangChangePending"},
             "EAppListHasChanged" \notin fl => LooksSame(iAppData, s)
      PROVE  BackupHolds(s, fl)
  <2>1. ASSUME "EAppListHasChanged" \notin fl
        PROVE  Contents(iAppData) = Contents(s) /\ "EAppListHasChanged" \notin iFlags
    BY <1>c, <2>1, SameLook
  <2> QED
    BY <1>c, <2>1 DEF Tidy, BackupHolds
<1>1. CASE UpdateApps
  <2>1. StartScan(iAppData, {}, iFlags) /\ MoveCacheAway /\ phase = "Up" /\ phase' = "Up"
    BY <1>0, <1>1, Zenon DEF UpdateApps, StartScanFails
  <2> QED
    BY <2>1, StartScanTidy
<1>2. CASE LangChangeRunL
  <2>1. phase = "Up" /\ phase' = "Up"
    BY <1>2 DEF LangChangeRunL
  <2>2. CASE StartScan(iAppData, {}, iFlags \cup {"ELangChangePending"}) /\ MoveCacheAway
    <3>1. iFlags \subseteq iFlags \cup {"ELangChangePending"}
      OBVIOUS
    <3> QED
      BY <2>1, <2>2, <3>1, StartScanTidy
  <2>3. CASE UNCHANGED <<cache, backup, iAppData, iFlags, scanVars, afterVars>>
    BY <1>d, <2>1, <2>3 DEF scanVars, afterVars
  <2> QED
    BY <1>0, <1>2, <2>2, <2>3, Zenon DEF LangChangeRunL, StartScanFails
<1>3. CASE ScanStep
  <2>1. PICK r \in IdleUpdate(iAppData, iAppRegFinder) :
           /\ iAppData' = r.list /\ iAppIdler' = r.more
           /\ \/ /\ r.more
                 /\ iFlags' = iFlags \cup FlagChange(r.changed)
                 /\ UNCHANGED <<cache, backup, afterVars>>
              \/ /\ ~r.more
                 /\ AfterScan(r.list, r.gone,
                              (iFlags \cup FlagChange(r.changed)) \ {"ELangChangePending"}, iObserver)
    BY <1>3, Zenon DEF ScanStep
  <2>2. phase = "Up" /\ phase' = "Up" /\ iAppIdler
    BY <1>3 DEF ScanStep, worldVars
  <2>3. /\ SupersededTold(iAppData, iFlags) /\ cache = NoFile
        /\ iAppIconLoader = Off /\ iAppListStorer = Off
    BY <1>0, <2>2 DEF Tidy, Scanning, CacheHolds, OneAtWork
  <2>4. NoneDropped(r.list)
    BY <1>b, <2>1, <2>3
  <2> DEFINE new == iFlags \cup FlagChange(r.changed)
  <2>5. /\ r.more => SupersededTold(r.list, new)
        /\ "EAppListHasChanged" \notin new => LooksSame(iAppData, r.list)
    BY <1>b, <2>1, <2>3
  <2>6. "EAppListHasChanged" \notin new \ {"ELangChangePending"} => LooksSame(iAppData, r.list)
    BY <2>5
  <2>7. BackupHolds(r.list, new) /\ BackupHolds(r.list, new \ {"ELangChangePending"})
    <3>1. /\ iFlags \subseteq new \cup {"ELangChangePending"}
          /\ iFlags \subseteq (new \ {"ELangChangePending"}) \cup {"ELangChangePending"}
      OBVIOUS
    <3>2. phase # "Down"
      BY <2>2
    <3> HIDE DEF new
    <3>3. BackupHolds(r.list, new)
      BY <1>c, <2>5, <3>1, <3>2
    <3>4. BackupHolds(r.list, new \ {"ELangChangePending"})
      BY <1>c, <2>6, <3>1, <3>2
    <3> QED
      BY <3>3, <3>4
  <2>8. CASE r.more /\ iFlags' = new /\ UNCHANGED <<cache, backup, afterVars>>
    <3>1. NoneDropped(iAppData') /\ SupersededTold(iAppData', iFlags')
      BY <2>1, <2>4, <2>5, <2>8
    <3>2. BackupHolds(iAppData, iFlags)'
      BY <2>1, <2>7, <2>8 DEF BackupHolds
    <3>3. CacheHolds' /\ OneWorker'
      BY <2>2, <2>3, <2>8 DEF CacheHolds, OneWorker, afterVars
    <3> QED
      BY <3>1, <3>2, <3>3, Zenon DEF Tidy
  <2>9. CASE ~r.more /\ AfterScan(r.list, r.gone, new \ {"ELangChangePending"}, iObserver)
    <3> HIDE DEF new
    <3> QED
      BY <2>1, <2>2, <2>3, <2>4, <2>7, <2>9, AfterScanTidy
  <2> QED
    BY <2>1, <2>8, <2>9
<1>4. CASE ScanStepLeaves
  <2>1. PICK r \in IdleUpdate(iAppData, iAppRegFinder) : r.failed
    BY <1>4, Zenon DEF ScanStepLeaves
  <2>2. SupersededTold(iAppData, iFlags)
    BY <1>4, Zenon DEF Tidy, Scanning, ScanStepLeaves
  <2> QED
    BY <1>b, <2>1, <2>2
<1>5. CASE LoadIcons
  <2>1. /\ UNCHANGED <<cache, backup, iAppData, iFlags, iAppIdler, phase, iAppListStorer>>
        /\ iAppIconLoader # Off
    BY <1>5, NullAssumption DEF LoadIcons, diskVars, listVars, scanVars, worldVars
  <2> QED
    BY <1>0, <1>a, <2>1 DEF OneWorker
<1>6. CASE IconsLoaded
  <2>1. /\ InitiateStoring(iAppData, iFlags, iObserver)
        /\ iAppData' = iAppData /\ iAppIconLoader' = Off /\ phase' = phase /\ iAppIdler' = iAppIdler
        /\ phase = "Up" /\ iAppIconLoader = Null
    BY <1>6 DEF IconsLoaded, scanVars, worldVars
  <2>2. ~iAppIdler /\ cache = NoFile /\ BackupHolds(iAppData, iFlags)
    BY <1>0, <2>1, NullAssumption DEF OneAtWork, Tidy, CacheHolds
  <2>3. ~iAppIdler' /\ phase' = "Up"
    BY <2>1, <2>2
  <2> QED
    BY <1>0, <2>1, <2>2, <2>3, InitiateStoringTidy
<1>7. CASE StoreEntry
  <2>1. /\ UNCHANGED <<cache, backup, iAppData, iFlags, iAppIdler, phase, iAppIconLoader>>
        /\ iAppListStorer # Off /\ phase = "Up"
    BY <1>7 DEF StoreEntry, diskVars, listVars, scanVars, worldVars
  <2>2. cache = NoFile /\ iAppIconLoader = Off
    BY <1>0, <2>1 DEF Tidy, CacheHolds, OneWorker
  <2> QED
    BY <2>1, <2>2 DEF Tidy, OneWorker, Scanning, BackupHolds, CacheHolds
<1>8. CASE StoreDone
  <2>1. /\ UNCHANGED <<backup, iAppData, iFlags, iAppIdler, phase, iAppIconLoader>>
        /\ phase = "Up" /\ iAppListStorer # Off /\ iAppListStorer.next = Null
        /\ iAppListStorer' = Off
        /\ cache' = [lang |-> iAppListStorer.lang, apps |-> iAppListStorer.out]
    BY <1>8 DEF StoreDone, listVars, scanVars, worldVars
  <2>2. ~iAppIdler /\ iAppIconLoader = Off
    BY <1>0, <2>1 DEF OneAtWork, OneWorker
  <2>3. WorkersFollowList
    BY <1>0, FollowingSuffices DEF StoreInv
  <2>4. iAppListStorer.out = [k \in 1 .. Len(iAppData) |-> Stored(iAppData[k])]
    BY <1>0, <2>1, <2>3, OnlyElement DEF WorkersFollowList
  <2>5. DOMAIN iAppData = 1 .. Len(iAppData)
    BY <1>0, LenProperties
  <2>6. Contents(iAppData) = ToSet(cache'.apps)
    BY <2>1, <2>4, <2>5 DEF Contents, ToSet
  <2>7. CacheHolds' /\ OneWorker'
    BY <2>1, <2>2, <2>6 DEF CacheHolds, OneWorker
  <2> QED
    BY <2>1, <2>2, <2>7 DEF Tidy, Scanning, BackupHolds
<1>9. CASE PowerOn
  <2>1. /\ UNCHANGED <<iAppIconLoader, iAppListStorer>>
        /\ \/ /\ cache # NoFile /\ backup' = cache /\ cache' = NoFile /\ phase' = "Restoring"
              /\ iAppData' = SetPending(RestoredList(cache), Removable)
           \/ backup' = NoFile /\ ScanFromNothing({})
    BY <1>9, Zenon DEF PowerOn, afterVars, Restorable
  <2>2. CASE /\ cache # NoFile /\ backup' = cache /\ cache' = NoFile /\ phase' = "Restoring"
             /\ iAppData' = SetPending(RestoredList(cache), Removable)
    <3>1. cache \in ListFile /\ GoodList(RestoredList(cache))
      BY <1>0, <2>2, RestoredGood
    <3> QED
      BY <1>0, <2>1, <2>2, <3>1, RestoredTidy
  <2>3. CASE backup' = NoFile /\ ScanFromNothing({})
    BY <1>0, <2>1, <2>3, EmptyTidy
  <2> QED
    BY <2>1, <2>2, <2>3
<1>10. CASE RestoreStep
  <2>1. /\ phase = "Restoring" /\ ~iAppIdler /\ cache = NoFile
        /\ SupersededTold(iAppData, iFlags) /\ iAppIconLoader = Off /\ iAppListStorer = Off
    BY <1>0, <1>10 DEF RestoreStep, OneAtWork, Tidy, Scanning, CacheHolds
  <2>2. PICK r \in IdleUpdate(iAppData, iAppRegFinder) :
           \/ r.failed
           \/ /\ iAppData' = r.list /\ iAppIdler' = iAppIdler
              /\ \/ /\ r.more
                    /\ iFlags' = iFlags \cup FlagChange(r.changed)
                    /\ UNCHANGED <<cache, backup, afterVars, phase>>
                 \/ /\ phase' = "Up"
                    /\ AfterScan(r.list, r.gone, iFlags \cup FlagChange(r.changed), TRUE)
    BY <1>10, Zenon DEF RestoreStep
  <2> DEFINE new == iFlags \cup FlagChange(r.changed)
  <2>3. /\ ~r.failed /\ NoneDropped(r.list)
        /\ r.more => SupersededTold(r.list, new)
        /\ "EAppListHasChanged" \notin new => LooksSame(iAppData, r.list)
    BY <1>b, <2>1
  <2>4. BackupHolds(r.list, new)
    <3>1. iFlags \subseteq new \cup {"ELangChangePending"}
      OBVIOUS
    <3> HIDE DEF new
    <3> QED
      BY <1>c, <2>1, <2>3, <3>1
  <2>5. CASE /\ iAppData' = r.list /\ iAppIdler' = iAppIdler /\ r.more /\ iFlags' = new
             /\ UNCHANGED <<cache, backup, afterVars, phase>>
    <3>1. NoneDropped(iAppData') /\ SupersededTold(iAppData', iFlags')
      BY <2>3, <2>5
    <3>2. BackupHolds(iAppData, iFlags)'
      BY <2>4, <2>5 DEF BackupHolds
    <3>3. CacheHolds' /\ OneWorker'
      BY <2>1, <2>5 DEF CacheHolds, OneWorker, afterVars
    <3> QED
      BY <3>1, <3>2, <3>3, Zenon DEF Tidy
  <2>6. CASE /\ iAppData' = r.list /\ iAppIdler' = iAppIdler /\ phase' = "Up"
             /\ AfterScan(r.list, r.gone, new, TRUE)
    <3> HIDE DEF new
    <3> QED
      BY <2>1, <2>3, <2>4, <2>6, AfterScanTidy
  <2> QED
    BY <2>2, <2>3, <2>5, <2>6
<1>11. CASE StoreFails
  <2>1. /\ UNCHANGED <<cache, backup, iAppData, iFlags, iAppIdler, phase, iAppIconLoader>>
        /\ iAppListStorer' = Off
    BY <1>11 DEF StoreFails, diskVars, listVars, scanVars, worldVars
  <2> QED
    BY <2>1 DEF Tidy, OneWorker, Scanning, BackupHolds, CacheHolds
<1>12. CASE PowerLoss
  <2>1. phase' = "Down" /\ iAppData' = <<>> /\ ~iAppIdler' /\ iAppIconLoader' = Off
    BY <1>12 DEF PowerLoss
  <2>2. NoneDropped(iAppData') /\ ~Scanning' /\ OneWorker' /\ CacheHolds'
    BY <2>1 DEF NoneDropped, Elements, Scanning, OneWorker, CacheHolds
  <2> QED
    BY <2>1, <2>2, Zenon DEF Tidy
<1>13. CASE RestartScan
  BY <1>13, <1>0 DEF RestartScan
<1>14. CASE SpuriousChange
  BY <1>14, <1>d, Zenon DEF SpuriousChange, diskVars, listVars, scanVars, afterVars
<1>15. ASSUME NEW nna \in BOOLEAN, StopScan(nna)
      PROVE  Tidy'
  <2>1. /\ iAppData' = UndoSetPending(iAppData) /\ ~iAppIdler' /\ phase = "Up" /\ phase' = "Up"
        /\ UNCHANGED <<cache, backup, iFlags, iAppIconLoader, iAppListStorer>>
    BY <1>15 DEF StopScan, diskVars, afterVars
  <2>2. Contents(iAppData') = Contents(iAppData)
    BY <1>0, <2>1, MarkedLooksSame, SameLook
  <2>3. NoneDropped(iAppData')
    <3>1. SUFFICES ASSUME NEW e \in Elements(iAppData)
                   PROVE  Unpended(e).iIsPresent \notin {"ENotPresent", "ENotPresentPendingUpdate"}
      BY <2>1, ElementsMarked DEF NoneDropped
    <3>2. e \in AppData /\ e.iIsPresent \notin {"ENotPresent", "ENotPresentPendingUpdate"}
      BY <1>0, ElementsGood DEF GoodElements, NoneDropped
    <3> QED
      BY <3>2 DEF Unpended, AppData
  <2>4. BackupHolds(iAppData, iFlags)' /\ ~Scanning' /\ OneWorker' /\ CacheHolds'
    BY <2>1, <2>2 DEF Tidy, BackupHolds, Scanning, OneWorker, CacheHolds
  <2> QED
    BY <2>3, <2>4, Zenon DEF Tidy
<1>16. ASSUME NEW u \in Uids, FindSpecificApp(u)
      PROVE  Tidy'
  <2>1. PICK f \in FirstRegistrations(u) : \E r \in UpdateNextApp(iAppData, f, iAppRegFinder) :
           iAppData' = r.list /\ iFlags' = iFlags \cup FlagChange(r.changed)
    BY <1>16, Zenon DEF FindSpecificApp
  <2>2. PICK r \in UpdateNextApp(iAppData, f, iAppRegFinder) :
           iAppData' = r.list /\ iFlags' = iFlags \cup FlagChange(r.changed)
    BY <2>1
  <2>3. /\ phase = "Up" /\ iAppIdler
        /\ UNCHANGED <<cache, backup, iAppIdler, phase, iAppIconLoader, iAppListStorer>>
    BY <1>0, <1>16 DEF FindSpecificApp, diskVars, scanVars, afterVars, worldVars
  <2>4. f \in Files /\ IsLookedAt(iAppData, f, r)
    <3>1. f \in Files
      BY FirstRegistrationsType
    <3>2. ~IsGivenUp(iAppData, r)
      BY <1>0 DEF IsGivenUp
    <3> QED
      BY <1>0, <3>1, <3>2, UpdateNextAppLooks
  <2>5. SupersededTold(iAppData, iFlags) /\ cache = NoFile
    BY <2>3 DEF Tidy, Scanning, CacheHolds
  <2>6. /\ NoneDropped(iAppData') /\ SupersededTold(iAppData', iFlags')
        /\ "EAppListHasChanged" \notin iFlags' => LooksSame(iAppData, iAppData')
    BY <1>0, <2>2, <2>4, <2>5, LookedAtTidy
  <2>7. BackupHolds(iAppData', iFlags')
    BY <1>c, <2>2, <2>3, <2>6
  <2>8. BackupHolds(iAppData, iFlags)' /\ CacheHolds' /\ OneWorker'
    BY <1>0, <2>3, <2>5, <2>7 DEF BackupHolds, CacheHolds, OneWorker
  <2> QED
    BY <2>6, <2>8, Zenon DEF Tidy
<1>17. ASSUME NEW f \in Files, NEW t \in Stamps \cup {Absent}, FsChange(f, t)
      PROVE  Tidy'
  BY <1>17, <1>d, Zenon DEF FsChange, listVars, scanVars, afterVars
<1>18. ASSUME NEW l \in Languages, SetLanguage(l)
      PROVE  Tidy'
  BY <1>18, <1>d, Zenon DEF SetLanguage, diskVars, listVars, scanVars, afterVars
<1>19. CASE UNCHANGED vars
  BY <1>19, <1>d, Zenon DEF vars, diskVars, listVars, scanVars, afterVars, worldVars
<1> HIDE DEF Next
<1> QED
  BY StepCases, <1>1, <1>2, <1>3, <1>4, <1>5, <1>6, <1>7, <1>8, <1>9, <1>10, <1>11, <1>12,
     <1>13, <1>14, <1>15, <1>16, <1>17, <1>18, <1>19, Zenon

----------------------------------------------------------------------------
(* What is stored is what is in memory.                                      *)

(* There is a file unless someone is at work to make one, or is to be.       *)
StoredOrWorking ==
    phase = "Up" /\ ~iAppIdler /\ iAppIconLoader = Off /\ iAppListStorer = Off /\ ~rescanDue =>
        cache # NoFile

(* Storing the list leaves a file or a storer.                               *)
LEMMA InitiateStoringStores ==
    ASSUME "StoreFails" \notin Happens, World, NEW s, GoodList(s), NEW fl, NEW observer,
           InitiateStoring(s, fl, observer)
    PROVE  StoredOrWorking'
<1>1. CASE BackupIsGood(fl) /\ cache' = backup
  BY <1>1 DEF BackupIsGood, StoredOrWorking
<1>2. CASE iAppListStorer' \in StoreOutcomes(s)
  <2>1. iAppListStorer' = [lang |-> language, next |-> Head0(s), out |-> <<>>]
    BY <1>2 DEF StoreOutcomes
  <2>2. Head0(s) \in Pointers /\ <<>> \in Seq(StoredApp) /\ language \in Languages
    BY WalkType DEF GoodList, Pointers, World
  <2>3. iAppListStorer' \in Storers
    BY <2>1, <2>2 DEF Storers
  <2> QED
    BY <2>3, FileAssumption DEF StoredOrWorking
<1> QED
  BY <1>1, <1>2 DEF InitiateStoring, KeepOrStore

(* ... and what follows a scan an icon loader, or those.                     *)
LEMMA AfterScanStores ==
    ASSUME {"StoreFails", "LoaderFails"} \cap Happens = {}, World, NEW s, GoodList(s), NEW gone, NEW fl, NEW observer,
           AfterScan(s, gone, fl, observer)
    PROVE  StoredOrWorking'
<1>0. "StoreFails" \notin Happens /\ "LoaderFails" \notin Happens
  OBVIOUS
<1>1. CASE iLoadMbmIconsOnDemand
  BY <1>0, <1>1, InitiateStoringStores DEF AfterScan
<1>2. CASE iAppIconLoader' = Head0(s)
  <2>1. Head0(s) # Off
    BY WalkType, NullAssumption DEF GoodList
  <2> QED
    BY <1>2, <2>1 DEF StoredOrWorking
<1> QED
  BY <1>0, <1>1, <1>2 DEF AfterScan, IconLoaders

(* Every step keeps it so.                                                   *)
LEMMA NextStored ==
    ASSUME ScansComplete, "StoreFails" \notin Happens, ListInv, StoredOrWorking, [Next]_vars
    PROVE  StoredOrWorking'
<1>0. /\ World /\ GoodList(iAppData) /\ iAppData \in Seq(AppData) /\ iAppRegFinder \in Finder
      /\ "StoreFails" \notin Happens /\ "StartFails" \notin Happens /\ "RestartScan" \notin Happens
      /\ {"StoreFails", "LoaderFails"} \cap Happens = {} /\ ~idlerUnstarted
      /\ OneAtWork /\ StorerOnList /\ iAppListStorer \in Storers \cup {Off}
  BY DEF ListInv, OneAtWork, TypeOK, World, Finder, GoodList, ScansComplete, Storers
<1>a. iAppIdler' \/ phase' # "Up" \/ iAppIconLoader' # Off \/ rescanDue' => StoredOrWorking'
  BY DEF StoredOrWorking
<1>b. \A r \in IdleUpdate(iAppData, iAppRegFinder) : GoodList(r.list)
  BY <1>0, IdleUpdateGood DEF GoodResult
<1>c. ASSUME UNCHANGED <<phase, iAppIdler, iAppIconLoader, iAppListStorer, rescanDue, cache>>
      PROVE  StoredOrWorking'
  BY <1>c DEF StoredOrWorking
<1>1. CASE UpdateApps
  <2>1. iAppIdler' = TRUE
    BY <1>0, <1>1, Zenon DEF UpdateApps, StartScan, StartScanFails
  <2> QED
    BY <1>a, <2>1
<1>2. CASE LangChangeRunL
  <2>1. CASE iAppIdler' = TRUE
    BY <1>a, <2>1
  <2>2. CASE UNCHANGED <<cache, scanVars, afterVars>>
    BY <1>2, <1>c, <2>2 DEF LangChangeRunL, scanVars, afterVars
  <2> QED
    BY <1>0, <1>2, <2>1, <2>2, Zenon DEF LangChangeRunL, StartScan, StartScanFails
<1>3. CASE ScanStep
  <2>1. PICK r \in IdleUpdate(iAppData, iAppRegFinder) :
           /\ iAppIdler' = r.more
           /\ \/ r.more
              \/ AfterScan(r.list, r.gone,
                           (iFlags \cup FlagChange(r.changed)) \ {"ELangChangePending"}, iObserver)
    BY <1>3, Zenon DEF ScanStep
  <2> QED
    BY <1>0, <1>a, <1>b, <2>1, AfterScanStores
<1>4. CASE ScanStepLeaves
  BY <1>4, <1>a DEF ScanStepLeaves
<1>5. CASE LoadIcons
  <2>1. iAppIconLoader' # Off
    BY <1>0, <1>5, WalkType, NullAssumption DEF LoadIcons
  <2> QED
    BY <1>a, <2>1
<1>6. CASE IconsLoaded
  BY <1>0, <1>6, InitiateStoringStores DEF IconsLoaded
<1>7. CASE StoreEntry
  <2>1. iAppListStorer' \in Storers
    BY <1>0, <1>7, StorerAdvances DEF StoreEntry, StorerOnList
  <2>2. iAppListStorer' # Off
    BY <2>1, FileAssumption DEF Storers
  <2> QED
    BY <2>2 DEF StoredOrWorking
<1>8. CASE StoreDone
  <2>1. /\ cache' = [lang |-> iAppListStorer.lang, apps |-> iAppListStorer.out]
        /\ iAppListStorer \in Storers
    BY <1>0, <1>8 DEF StoreDone
  <2>2. cache' # NoFile
    BY <2>1, FileAssumption DEF Storers, ListFile
  <2> QED
    BY <2>2 DEF StoredOrWorking
<1>9. CASE PowerOn
  <2>1. phase' = "Restoring" \/ iAppIdler' = TRUE
    BY <1>0, <1>9 DEF PowerOn, ScanFromNothing
  <2> QED
    BY <1>a, <2>1
<1>10. CASE RestoreStep
  <2>1. PICK r \in IdleUpdate(iAppData, iAppRegFinder) :
           \/ ScanFromNothing({"ENotifyUpdateOnFirstScanComplete"})
           \/ phase' = phase
           \/ AfterScan(r.list, r.gone, iFlags \cup FlagChange(r.changed), TRUE)
    BY <1>10, Zenon DEF RestoreStep
  <2>2. CASE ScanFromNothing({"ENotifyUpdateOnFirstScanComplete"})
    BY <1>0, <1>a, <2>2 DEF ScanFromNothing
  <2>3. CASE phase' = phase
    BY <1>10, <1>a, <2>3 DEF RestoreStep
  <2> QED
    BY <1>0, <1>b, <2>1, <2>2, <2>3, AfterScanStores
<1>11. CASE StoreFails
  BY <1>0, <1>11 DEF StoreFails
<1>12. CASE PowerLoss
  BY <1>12, <1>a DEF PowerLoss
<1>13. CASE RestartScan
  BY <1>0, <1>13 DEF RestartScan
<1>14. CASE SpuriousChange
  BY <1>14, <1>a DEF SpuriousChange
<1>15. ASSUME NEW nna \in BOOLEAN, StopScan(nna)
      PROVE  StoredOrWorking'
  <2>1. /\ UNCHANGED <<phase, iAppIconLoader, iAppListStorer, cache>>
        /\ ~rescanDue' => ~rescanDue /\ ~iAppIdler
    BY <1>15 DEF StopScan, diskVars, afterVars
  <2> QED
    BY <2>1 DEF StoredOrWorking
<1>16. ASSUME NEW u \in Uids, FindSpecificApp(u)
      PROVE  StoredOrWorking'
  BY <1>0, <1>16, <1>a, Zenon DEF FindSpecificApp, scanVars
<1>17. ASSUME NEW f \in Files, NEW t \in Stamps \cup {Absent}, FsChange(f, t)
      PROVE  StoredOrWorking'
  <2>1. phase' = phase /\ (phase # "Down" => rescanDue')
    BY <1>17 DEF FsChange
  <2> QED
    BY <1>a, <2>1
<1>18. ASSUME NEW l \in Languages, SetLanguage(l)
      PROVE  StoredOrWorking'
  BY <1>18, <1>c, Zenon DEF SetLanguage, diskVars, scanVars, afterVars
<1>19. CASE UNCHANGED vars
  BY <1>19, <1>c, Zenon DEF vars, diskVars, scanVars, afterVars, worldVars
<1> HIDE DEF Next
<1> QED
  BY StepCases, <1>1, <1>2, <1>3, <1>4, <1>5, <1>6, <1>7, <1>8, <1>9, <1>10, <1>11, <1>12,
     <1>13, <1>14, <1>15, <1>16, <1>17, <1>18, <1>19, Zenon

(* The list and its files are tidy, always.                                  *)
LEMMA TidyAlways ==
    ASSUME ScansComplete
    PROVE  Spec => [](ListInv /\ StoreInv /\ Tidy)
<1>1. Init => Tidy
  <2>1. Elements(<<>>) = {}
    BY DEF Elements
  <2> QED
    BY <2>1 DEF Init, Tidy, OneWorker, NoneDropped, Scanning, CacheHolds
<1>2. ListInv /\ StoreInv /\ Tidy /\ [Next]_vars => Tidy'
  BY NextTidy
<1>3. "StartFails" \notin Happens
  BY DEF ScansComplete
<1> QED
  BY <1>1, <1>2, <1>3, StoreInvariance, PTL DEF Spec

(* A finished update is stored: at rest AppsList.bin holds the list that is  *)
(* in memory; if scans start and complete, with their purge and the icon     *)
(* loader that follows, and storing does not fail.                           *)
THEOREM StoredWhenAtRest ==
    ASSUME ScansComplete, "StoreFails" \notin Happens
    PROVE  Spec => []StoredAtRest
<1>1. Init => StoredOrWorking
  BY DEF Init, StoredOrWorking
<1>2. ListInv /\ StoredOrWorking /\ [Next]_vars => StoredOrWorking'
  BY NextStored
<1>3. Tidy /\ StoredOrWorking => StoredAtRest
  BY DEF Tidy, CacheHolds, StoredOrWorking, StoredAtRest, AtRest, Working, Contents
<1> QED
  BY <1>1, <1>2, <1>3, TidyAlways, PTL DEF Spec

----------------------------------------------------------------------------
(* The registration files on the phone.                                      *)

DirOf(f) == CHOOSE i \in DOMAIN Dirs : f \in Dirs[i]

(* f is in the first directory that registers its application.               *)
First(f) == \A g \in Files : Readable(g) /\ UidOf[g] = UidOf[f] => DirOf(f) <= DirOf(g)

(* An application on a removable and a fixed drive is found on the fixed one *)
(* first.                                                                    *)
NoCardShadows ==
    \A f \in Removable, g \in Files \ Removable : UidOf[f] = UidOf[g] => DirOf(g) < DirOf(f)

(* Each file is in one directory.                                            *)
LEMMA OneDirectory ==
    /\ \A f \in Files : DirOf(f) \in DOMAIN Dirs /\ f \in Dirs[DirOf(f)] /\ DirOf(f) \in 1 .. Len(Dirs)
    /\ \A i \in DOMAIN Dirs : \A f \in Dirs[i] : f \in Files /\ DirOf(f) = i
<1>1. \A f \in Files : \E i \in DOMAIN Dirs : f \in Dirs[i]
  BY FilesAssumption
<1>2. \A f \in Files : DirOf(f) \in DOMAIN Dirs /\ f \in Dirs[DirOf(f)]
  BY <1>1 DEF DirOf
<1>3. ASSUME NEW i \in DOMAIN Dirs, NEW f \in Dirs[i] PROVE f \in Files /\ DirOf(f) = i
  <2>1. f \in Files
    BY DirsType
  <2>2. DirOf(f) \in DOMAIN Dirs /\ f \in Dirs[DirOf(f)] \cap Dirs[i]
    BY <1>2, <2>1
  <2> QED
    BY <2>1, <2>2, FilesAssumption
<1> QED
  BY <1>2, <1>3, DirsType

(* What a scan may find now are the first registrations.                     *)
LEMMA OnDiskIsFirst ==
    OnDisk = {[uid |-> UidOf[f], file |-> f, stamp |-> disk[f]] :
              f \in {g \in Files : Readable(g) /\ First(g)}}
<1> DEFINE reg(f) == [uid |-> UidOf[f], file |-> f, stamp |-> disk[f]]
<1>1. ASSUME NEW f \in Files PROVE Fresh(reg(f)) <=> First(f)
  <2>1. ASSUME NEW g \in Files
        PROVE  (\A i, j \in DOMAIN Dirs : g \in Dirs[i] /\ f \in Dirs[j] => j <= i)
                 <=> DirOf(f) <= DirOf(g)
    BY OneDirectory
  <2>2. reg(f).uid = UidOf[f] /\ reg(f).file = f
    OBVIOUS
  <2> HIDE DEF reg
  <2> QED
    BY <2>1, <2>2 DEF Fresh, First, Readable
<1>2. OnDisk = {r \in {reg(f) : f \in {g \in Files : Readable(g)}} : Fresh(r)}
  BY DEF OnDisk, Readable
<1> HIDE DEF reg
<1>3. OnDisk = {reg(f) : f \in {g \in Files : Readable(g) /\ First(g)}}
  BY <1>1, <1>2
<1> QED
  BY <1>3 DEF reg

(* An application that is registered is registered somewhere first.          *)
LEMMA SomeFirst ==
    ASSUME NEW f \in Files, Readable(f)
    PROVE  \E g \in Files : Readable(g) /\ UidOf[g] = UidOf[f] /\ First(g)
<1> DEFINE where == {DirOf(g) : g \in {h \in Files : Readable(h) /\ UidOf[h] = UidOf[f]}}
<1>1. where \in SUBSET Nat /\ where # {}
  BY OneDirectory
<1>2. PICK d \in where : \A x \in where : d <= x
  <2> HIDE DEF where
  <2> QED
    BY <1>1, LeastNat
<1>3. PICK g \in Files : Readable(g) /\ UidOf[g] = UidOf[f] /\ DirOf(g) = d
  BY <1>2
<1>4. First(g)
  BY <1>2, <1>3 DEF First
<1> QED
  BY <1>3, <1>4

(* FindAndAddSpecificAppL finds a first registration.                        *)
LEMMA FirstRegistrationIsFirst ==
    ASSUME NEW u, NEW f \in FirstRegistrations(u)
    PROVE  f \in Files /\ Readable(f) /\ UidOf[f] = u /\ First(f)
<1> DEFINE where == {i \in DOMAIN Dirs : \E g \in Listed(Files, i) : UidOf[g] = u}
<1>1. where \in SUBSET Nat /\ where # {}
  BY DirsType DEF FirstRegistrations
<1>2. \E i \in where : \A k \in where : i <= k
  <2> HIDE DEF where
  <2> QED
    BY <1>1, LeastNat
<1>3. PICK i \in where : (\A k \in where : i <= k) /\ f \in {g \in Listed(Files, i) : UidOf[g] = u}
  BY <1>1, <1>2 DEF FirstRegistrations
<1>4. f \in Files /\ Readable(f) /\ UidOf[f] = u /\ DirOf(f) = i
  BY <1>3, OneDirectory DEF Listed, Readable
<1>5. ASSUME NEW g \in Files, Readable(g), UidOf[g] = u PROVE i <= DirOf(g)
  <2>1. DirOf(g) \in DOMAIN Dirs /\ g \in Listed(Files, DirOf(g))
    BY <1>5, OneDirectory DEF Listed, Readable
  <2> QED
    BY <1>3, <1>5, <2>1
<1> QED
  BY <1>4, <1>5 DEF First

----------------------------------------------------------------------------
(* What a scan has seen.                                                     *)

Seen(fin, f) ==
    /\ f \in Files /\ Readable(f)
    /\ \/ f \notin fin.scope
       \/ DirOf(f) < fin.dir
       \/ DirOf(f) = fin.dir /\ f \notin fin.files

(* The files still to be read are of the directory reached, and can be.      *)
FinderFits(fin) == \A f \in fin.files : f \in fin.scope /\ DirOf(f) = fin.dir /\ Readable(f)

(* Nothing of the scope has been seen when a scan begins.                    *)
LEMMA FindInSees ==
    ASSUME NEW scope
    PROVE  FinderFits(FindIn(scope)) /\ \A f : Seen(FindIn(scope), f) => f \notin scope
<1>1. FindIn(scope).scope = scope /\ FindIn(scope).dir = 0 /\ FindIn(scope).files = {}
  BY DEF FindIn
<1>2. \A f \in Files : DirOf(f) \in 1 .. Len(Dirs) /\ Len(Dirs) \in Nat
  BY OneDirectory, DirsType
<1> QED
  BY <1>1, <1>2 DEF FinderFits, Seen

(* Moving to the next directory skips nothing that can be read; at the end   *)
(* everything has been seen.                                                 *)
LEMMA ListingSees ==
    ASSUME NEW fin \in Finder, FinderFits(fin)
    PROVE  /\ FinderFits(Listing(fin))
           /\ \A f : Seen(Listing(fin), f) <=> Seen(fin, f)
           /\ Listing(fin).files = {} => \A f \in Files : Readable(f) => Seen(fin, f)
<1> DEFINE later == {i \in DOMAIN Dirs : i > fin.dir /\ Listed(fin.scope, i) # {}}
<1>1. /\ fin.dir \in 0 .. Len(Dirs) /\ fin.files \subseteq Files /\ fin.scope \subseteq Files
      /\ fin = [scope |-> fin.scope, dir |-> fin.dir, files |-> fin.files]
      /\ Len(Dirs) \in Nat /\ DOMAIN Dirs = 1 .. Len(Dirs)
  BY DirsType DEF Finder
<1>2. \A f \in Files : /\ DirOf(f) \in DOMAIN Dirs /\ DirOf(f) \in 1 .. Len(Dirs)
                       /\ \A i \in DOMAIN Dirs :
                            f \in Listed(fin.scope, i) <=> DirOf(f) = i /\ f \in fin.scope /\ Readable(f)
  BY OneDirectory DEF Listed, Readable
<1>3. \A i \in DOMAIN Dirs : Listed(fin.scope, i) \subseteq Files
  BY DirsType DEF Listed
<1>4. CASE fin.files # {}
  <2>1. Listing(fin) = fin
    BY <1>4 DEF Listing
  <2> QED
    BY <1>4, <2>1
<1>5. CASE fin.files = {} /\ later = {}
  <2>1. Listing(fin) = [scope |-> fin.scope, dir |-> Len(Dirs), files |-> {}]
    BY <1>1, <1>5 DEF Listing, TheEnd
  <2>2. ASSUME NEW f \in Files, Readable(f) PROVE Seen(Listing(fin), f) /\ Seen(fin, f)
    <3>1. DirOf(f) > fin.dir => f \notin fin.scope
      BY <1>2, <1>5, <2>2
    <3>2. DirOf(f) \in Nat /\ fin.dir \in Nat /\ DirOf(f) <= Len(Dirs)
      BY <1>1, <1>2
    <3>3. Seen(fin, f)
      BY <1>5, <2>2, <3>1, <3>2 DEF Seen
    <3>4. Seen(Listing(fin), f)
      BY <1>1, <2>1, <2>2, <3>2 DEF Seen
    <3> QED
      BY <3>3, <3>4
  <2>3. FinderFits(Listing(fin))
    BY <2>1 DEF FinderFits
  <2>4. \A f : Seen(Listing(fin), f) <=> Seen(fin, f)
    BY <2>2 DEF Seen
  <2> QED
    BY <2>2, <2>3, <2>4
<1>6. CASE fin.files = {} /\ later # {}
  <2>1. \E i \in later : \A k \in later : i <= k
    <3>1. later \in SUBSET Nat
      BY <1>1
    <3> HIDE DEF later
    <3> QED
      BY <1>6, <3>1, LeastNat
  <2>2. PICK i \in later : /\ \A k \in later : i <= k
                           /\ Listing(fin) = [fin EXCEPT !.dir = i, !.files = Listed(fin.scope, i)]
    BY <1>6, <2>1 DEF Listing
  <2>3. Listing(fin) = [scope |-> fin.scope, dir |-> i, files |-> Listed(fin.scope, i)]
    BY <1>1, <2>2
  <2>4. i \in DOMAIN Dirs /\ i > fin.dir /\ Listed(fin.scope, i) # {}
    BY <2>2
  <2>5. FinderFits(Listing(fin))
    BY <1>2, <1>3, <2>3, <2>4 DEF FinderFits
  <2>6. ASSUME NEW f \in Files, Readable(f), f \in fin.scope
        PROVE  DirOf(f) <= fin.dir <=> DirOf(f) < i \/ (DirOf(f) = i /\ f \notin Listed(fin.scope, i))
    <3>1. DirOf(f) \in DOMAIN Dirs /\ DirOf(f) \in Nat /\ i \in Nat /\ fin.dir \in Nat
      BY <1>1, <1>2, <2>4
    <3>2. f \in Listed(fin.scope, DirOf(f))
      BY <1>2, <2>6, <3>1
    <3>3. DirOf(f) > fin.dir => i <= DirOf(f)
      BY <2>2, <3>1, <3>2
    <3> QED
      BY <2>4, <3>1, <3>2, <3>3
  <2>7. \A f : Seen(Listing(fin), f) <=> Seen(fin, f)
    <3>1. ASSUME NEW f \in Files PROVE DirOf(f) \in Nat /\ fin.dir \in Nat
      BY <1>1, <1>2
    <3> QED
      BY <1>6, <2>3, <2>6, <3>1 DEF Seen
  <2> QED
    BY <2>3, <2>4, <2>5, <2>7
<1> QED
  BY <1>4, <1>5, <1>6

(* One more file has been seen; if no registration of its application was    *)
(* seen before, it is a first one.                                           *)
LEMMA ReadSees ==
    ASSUME NEW l \in Finder, FinderFits(l), NEW f \in l.files,
           NEW fin, fin = [l EXCEPT !.files = @ \ {f}]
    PROVE  /\ f \in Files /\ Readable(f) /\ FinderFits(fin)
           /\ \A g : Seen(fin, g) => Seen(l, g) \/ g = f
           /\ (\A g : Seen(l, g) => UidOf[g] # UidOf[f]) => First(f)
<1>1. /\ fin.scope = l.scope /\ fin.dir = l.dir /\ fin.files = l.files \ {f}
      /\ l.dir \in Nat /\ f \in Files
  BY DirsType DEF Finder
<1>2. Readable(f) /\ DirOf(f) = l.dir
  BY DEF FinderFits
<1>3. FinderFits(fin) /\ \A g : Seen(fin, g) => Seen(l, g) \/ g = f
  BY <1>1 DEF FinderFits, Seen
<1>4. ASSUME \A g : Seen(l, g) => UidOf[g] # UidOf[f],
             NEW g \in Files, Readable(g), UidOf[g] = UidOf[f]
      PROVE  DirOf(f) <= DirOf(g)
  <2>1. ~Seen(l, g)
    BY <1>4
  <2>2. DirOf(g) \in Nat
    BY OneDirectory, DirsType
  <2> QED
    BY <1>1, <1>2, <1>4, <2>1, <2>2 DEF Seen
<1> QED
  BY <1>1, <1>2, <1>3, <1>4 DEF First

----------------------------------------------------------------------------
(* What the list says of the phone.                                          *)

(* An element is as its file is now, which is a first registration.          *)
IsCurrent(e) ==
    /\ Readable(e.file) /\ First(e.file)
    /\ e.stamp = disk[e.file]
    /\ e.lang = language \/ iLangNotifier

Registers(s, f) == \E e \in Elements(s) : e.uid = UidOf[f]

(* During a scan: what is present is current, what is superseded has a       *)
(* current successor, and nothing seen so far is pending or left out.        *)
ScanGood(s, fin) ==
    /\ \A e \in Elements(s) :
         /\ e.iIsPresent = "EIsPresent" => IsCurrent(e)
         /\ e.iIsPresent = "ESuperseded" => Readable(e.iSuccessor) /\ First(e.iSuccessor)
         /\ IsPending(e) => \A f : Seen(fin, f) => UidOf[f] # e.uid
    /\ \A f : Seen(fin, f) => Registers(s, f)
    /\ FinderFits(fin)

(* After it: everything in the list is current, nothing is left out.         *)
AllCurrent(s) ==
    /\ \A e \in Elements(s) : e.iIsPresent = "EIsPresent" /\ IsCurrent(e)
    /\ \A f \in Files : Readable(f) => Registers(s, f)

(* Both depend on the world only through what is on the phone and in which   *)
(* language.                                                                 *)
LEMMA SameScan ==
    ASSUME UNCHANGED disk,
           \A l : l = language \/ iLangNotifier => l = language' \/ iLangNotifier',
           NEW s, NEW fin, iAppData' = s, iAppRegFinder' = fin, ScanGood(s, fin)
    PROVE  ScanGood(iAppData, iAppRegFinder)'
<1>1. /\ \A f : Readable(f) => Readable(f)'
      /\ \A f : First(f) => First(f)'
      /\ \A e : IsCurrent(e) => IsCurrent(e)'
      /\ \A f : Seen(fin, f)' => Seen(fin, f)
  BY DEF Readable, First, IsCurrent, Seen
<1>2. \A e \in Elements(s) :
         /\ e.iIsPresent = "EIsPresent" => IsCurrent(e)'
         /\ e.iIsPresent = "ESuperseded" => Readable(e.iSuccessor)' /\ First(e.iSuccessor)'
         /\ IsPending(e) => \A f : Seen(fin, f)' => UidOf[f] # e.uid
  BY <1>1 DEF ScanGood
<1>3. \A f : Seen(fin, f)' => \E e \in Elements(s) : e.uid = UidOf[f]
  BY <1>1 DEF ScanGood, Registers
<1>4. FinderFits(fin)'
  BY <1>1 DEF ScanGood, FinderFits
<1> QED
  BY <1>2, <1>3, <1>4 DEF ScanGood, Registers, FinderFits, Seen

(* ... and so with a list that is current.                                   *)
LEMMA SameCurrent ==
    ASSUME UNCHANGED disk,
           \A l : l = language \/ iLangNotifier => l = language' \/ iLangNotifier',
           NEW s, iAppData' = s, AllCurrent(s)
    PROVE  AllCurrent(iAppData)'
BY DEF AllCurrent, IsCurrent, First, Readable, Registers

(* A file is looked at, which was not seen before or is a first registration.*)
LEMMA LookedAtScan ==
    ASSUME World, "NewFails" \notin Happens,
           NEW s, GoodList(s), NEW f \in Files, Readable(f), NEW r, IsLookedAt(s, f, r),
           NEW old, NEW new, ScanGood(s, old), FinderFits(new),
           \A g : Seen(new, g) => Seen(old, g) \/ g = f,
           (\A g : Seen(old, g) => UidOf[g] # UidOf[f]) => First(f)
    PROVE  ScanGood(r.list, new)
<1> DEFINE E == Elements(s)
<1>1. /\ \A e \in E : e \in AppData /\ e.uid = UidOf[e.file]
      /\ \A e, g \in E : e.uid = g.uid => e = g
  BY ElementsGood DEF GoodElements
<1>2. /\ \A e \in E :
           /\ e.iIsPresent = "EIsPresent" => IsCurrent(e)
           /\ e.iIsPresent = "ESuperseded" => Readable(e.iSuccessor) /\ First(e.iSuccessor)
           /\ IsPending(e) => \A g : Seen(old, g) => UidOf[g] # e.uid
      /\ \A g : Seen(old, g) => \E e \in E : e.uid = UidOf[g]
  BY DEF ScanGood, Registers
<1> HIDE DEF E
<1>a. ASSUME NEW e \in E, e.uid = UidOf[f], IsPending(e) PROVE First(f)
  BY <1>2, <1>a
<1>b. ASSUME NEW a, a.uid = UidOf[f], ~IsPending(a),
             a.iIsPresent = "EIsPresent" => IsCurrent(a),
             a.iIsPresent = "ESuperseded" => Readable(a.iSuccessor) /\ First(a.iSuccessor),
             \A e \in Elements(r.list) : e = a \/ (e \in E /\ e.uid # UidOf[f]),
             \A e \in E : e \in Elements(r.list) \/ e.uid = UidOf[f],
             a \in Elements(r.list)
      PROVE  ScanGood(r.list, new)
  <2>1. ASSUME NEW e \in Elements(r.list)
        PROVE  /\ e.iIsPresent = "EIsPresent" => IsCurrent(e)
               /\ e.iIsPresent = "ESuperseded" => Readable(e.iSuccessor) /\ First(e.iSuccessor)
               /\ IsPending(e) => \A g : Seen(new, g) => UidOf[g] # e.uid
    <3>1. CASE e = a
      BY <1>b, <3>1
    <3>2. CASE e \in E /\ e.uid # UidOf[f]
      BY <1>2, <3>2
    <3> QED
      BY <1>b, <3>1, <3>2
  <2>2. ASSUME NEW g, Seen(new, g) PROVE \E e \in Elements(r.list) : e.uid = UidOf[g]
    <3>1. CASE UidOf[g] = UidOf[f]
      BY <1>b, <3>1
    <3>2. CASE UidOf[g] # UidOf[f]
      <4>1. PICK e \in E : e.uid = UidOf[g]
        BY <1>2, <2>2, <3>2
      <4> QED
        BY <1>b, <3>2, <4>1
    <3> QED
      BY <3>1, <3>2
  <2> QED
    BY <2>1, <2>2 DEF ScanGood, Registers
<1>3. CASE IsAdded(s, f, r)
  <2>1. (\A e \in E : e.uid # UidOf[f]) /\ Elements(r.list) = E \cup {NewApp(f)}
    BY <1>3 DEF IsAdded, E
  <2>2. First(f)
    BY <1>2, <2>1
  <2>3. /\ NewApp(f).uid = UidOf[f] /\ NewApp(f).iIsPresent = "EIsPresent"
        /\ NewApp(f).file = f /\ NewApp(f).stamp = disk[f] /\ NewApp(f).lang = language
    BY DEF NewApp
  <2>4. ~IsPending(NewApp(f)) /\ IsCurrent(NewApp(f)) /\ NewApp(f).iIsPresent # "ESuperseded"
    BY <2>2, <2>3 DEF IsPending, IsCurrent
  <2> QED
    BY <1>b, <2>1, <2>3, <2>4
<1>4. CASE IsIgnored(s, f, r)
  <2>1. PICK a \in E : r.list = s /\ a.uid = UidOf[f] /\ ~IsPending(a)
    BY <1>4 DEF IsIgnored, E
  <2>2. Elements(r.list) = E
    BY <2>1 DEF E
  <2> QED
    BY <1>1, <1>2, <1>b, <2>1, <2>2
<1>5. CASE IsSuperseded(s, f, r)
  <2>1. PICK e \in E : /\ e.uid = UidOf[f] /\ IsPending(e)
                       /\ Elements(r.list) = (E \ {e}) \cup {SupersededBy(e, f)}
    BY <1>5 DEF IsSuperseded, E
  <2>2. First(f)
    BY <1>a, <2>1
  <2> DEFINE a == SupersededBy(e, f)
  <2>3. a.uid = UidOf[f] /\ a.iIsPresent = "ESuperseded" /\ a.iSuccessor = f
    BY <1>1, <2>1 DEF SupersededBy, AppData
  <2> HIDE DEF a
  <2>4. ~IsPending(a)
    BY <2>3 DEF IsPending
  <2>5. Elements(r.list) = (E \ {e}) \cup {a}
    BY <2>1 DEF a
  <2> QED
    BY <1>1, <1>b, <2>1, <2>2, <2>3, <2>4, <2>5
<1>6. CASE IsRefreshed(s, f, r)
  <2>1. PICK e \in E : /\ e.file = f /\ IsPending(e)
                       /\ Elements(r.list) = (E \ {e}) \cup {Refreshed(e)}
    BY <1>6 DEF IsRefreshed, E
  <2>2. e.uid = UidOf[f]
    BY <1>1, <2>1
  <2>3. First(f)
    BY <1>a, <2>1, <2>2
  <2> DEFINE a == Refreshed(e)
  <2>4. /\ a.uid = UidOf[f] /\ a.iIsPresent = "EIsPresent" /\ a.file = f
        /\ a.stamp = disk[f] /\ a.lang = language
    BY <1>1, <2>1, <2>2 DEF Refreshed, Update, AppData
  <2> HIDE DEF a
  <2>5. ~IsPending(a) /\ IsCurrent(a) /\ a.iIsPresent # "ESuperseded"
    BY <2>3, <2>4 DEF IsPending, IsCurrent
  <2>6. Elements(r.list) = (E \ {e}) \cup {a}
    BY <2>1 DEF a
  <2> QED
    BY <1>1, <1>b, <2>1, <2>2, <2>4, <2>5, <2>6
<1> QED
  BY <1>3, <1>4, <1>5, <1>6 DEF IsLookedAt

(* The scan ends: everything has been seen.                                  *)
LEMMA FinishedScan ==
    ASSUME World, "NewFails" \notin Happens, NEW s, GoodList(s), NoneDropped(s), NEW fin \in Finder, ScanGood(s, fin),
           NEW r, IsFinished(s, fin, r)
    PROVE  AllCurrent(r.list)
<1> DEFINE q == SetNotFound(s)
           E == Elements(s)
<1>0. PICK p \in WholePurges(q) : r.list = Purge(q, p)
  BY DEF IsFinished
<1>p. p.reached = Uids /\ p.unread = {}
  BY DEF WholePurges, Unread
<1>1. GoodList(q) /\ r.list = Purge(q, p) /\ Elements(q) = {NotFound(e) : e \in E}
  BY <1>0, SetNotFoundSame, SameElementsGood, ElementsMarked DEF GoodList, IsFinished
<1>2. \A e \in E : /\ e \in AppData
                   /\ e.iIsPresent = "ESuperseded" =>
                        e.iSuccessor \in Files /\ UidOf[e.iSuccessor] = e.uid
  BY ElementsGood DEF GoodElements
<1>u. \A e \in E : e.uid \in Uids
  BY <1>2 DEF AppData
<1>3. \A f \in Files : Readable(f) => Seen(fin, f)
  BY ListingSees DEF IsFinished, ScanGood
<1>4. \A e \in E : IsPending(e) \/ e.iIsPresent \in {"EIsPresent", "ESuperseded"}
  <2>1. ASSUME NEW e \in E PROVE e.iIsPresent \in Presence
    BY <1>2 DEF AppData
  <2> QED
    BY <2>1 DEF NoneDropped, Presence, IsPending
<1>5. ASSUME NEW h \in E, ~IsPending(h)
      PROVE  /\ NotFound(h) = h /\ ~Stuck(h, p)
             /\ Renewed(h, p).iIsPresent = "EIsPresent" /\ IsCurrent(Renewed(h, p))
             /\ Renewed(h, p).uid = h.uid
  <2>1. NotFound(h) = h
    BY <1>5 DEF NotFound
  <2>2. CASE h.iIsPresent = "EIsPresent"
    <3>1. Renewed(h, p) = h /\ ~Stuck(h, p)
      BY <2>2 DEF Renewed, Replaced, Stuck
    <3> QED
      BY <2>1, <2>2, <3>1 DEF ScanGood
  <2>3. CASE h.iIsPresent = "ESuperseded"
    <3>1. Readable(h.iSuccessor) /\ First(h.iSuccessor)
      BY <2>3 DEF ScanGood
    <3>2. Renewed(h, p) = NewApp(h.iSuccessor) /\ ~Stuck(h, p)
      BY <1>p, <1>u, <2>3, <3>1 DEF Renewed, Replaced, Stuck, CanReplace
    <3>3. /\ NewApp(h.iSuccessor).uid = UidOf[h.iSuccessor]
          /\ NewApp(h.iSuccessor).file = h.iSuccessor
          /\ NewApp(h.iSuccessor).stamp = disk[h.iSuccessor]
          /\ NewApp(h.iSuccessor).lang = language
          /\ NewApp(h.iSuccessor).iIsPresent = "EIsPresent"
      BY DEF NewApp
    <3>4. IsCurrent(NewApp(h.iSuccessor))
      BY <3>1, <3>3 DEF IsCurrent
    <3>5. UidOf[h.iSuccessor] = h.uid
      BY <1>2, <2>3
    <3> QED
      BY <2>1, <3>2, <3>3, <3>4, <3>5
  <2> QED
    BY <1>4, <1>5, <2>2, <2>3
<1>6. ASSUME NEW e \in Elements(r.list)
      PROVE  e.iIsPresent = "EIsPresent" /\ IsCurrent(e)
  <2>1. PICK g \in Elements(q) : g.iIsPresent # "ENotPresent" /\ e = Renewed(g, p)
    <3> HIDE DEF q
    <3> QED
      BY <1>1, <1>6, PurgedElements
  <2>2. PICK h \in E : g = NotFound(h)
    BY <1>1, <2>1
  <2>3. ~IsPending(h)
    <3>1. h \in AppData
      BY <1>2
    <3>2. IsPending(h) => NotFound(h).iIsPresent = "ENotPresent"
      BY <3>1, MarkedElement
    <3> QED
      BY <2>1, <2>2, <3>2
  <2> QED
    BY <1>5, <2>1, <2>2, <2>3
<1>7. ASSUME NEW f \in Files, Readable(f) PROVE Registers(r.list, f)
  <2>1. PICK h \in E : h.uid = UidOf[f]
    BY <1>3, <1>7 DEF ScanGood, Registers
  <2>2. ~IsPending(h)
    BY <1>3, <1>7, <2>1 DEF ScanGood
  <2>3. h \in Elements(q) /\ h.iIsPresent # "ENotPresent" /\ ~Stuck(h, p)
    BY <1>1, <1>4, <1>5, <2>2
  <2>4. Renewed(h, p) \in Elements(r.list)
    <3> HIDE DEF q
    <3> QED
      BY <1>1, <2>3, PurgedElements
  <2> QED
    BY <1>5, <2>1, <2>2, <2>4 DEF Registers
<1> QED
  BY <1>6, <1>7 DEF AllCurrent

(* A step of a scan that fails at nothing.                                   *)
LEMMA ScanGoesOn ==
    ASSUME World, {"NewFails", "NextFails", "SuccessorFails", "PurgeFails"} \cap Happens = {},
           NEW s, GoodList(s), NoneDropped(s), NEW fin \in Finder, ScanGood(s, fin),
           NEW r \in IdleUpdate(s, fin)
    PROVE  /\ r.more => ScanGood(r.list, r.finder)
           /\ ~r.more => AllCurrent(r.list)
<1>1. ~IsLeft(s, r) /\ "PurgeFails" \notin Happens /\ "NewFails" \notin Happens
  BY DEF IsLeft
<1>2. CASE IsFinished(s, fin, r)
  <2>1. r.more = FALSE
    BY <1>2 DEF IsFinished
  <2>2. AllCurrent(r.list)
    BY <1>1, <1>2, FinishedScan
  <2> QED
    BY <2>1, <2>2
<1>3. ASSUME NEW f \in Listing(fin).files, IsLookedAt(s, f, r),
             r.finder = [Listing(fin) EXCEPT !.files = @ \ {f}]
      PROVE  r.more = TRUE /\ ScanGood(r.list, r.finder)
  <2> DEFINE l == Listing(fin)
  <2>1. l \in Finder /\ FinderFits(l) /\ \A g : Seen(l, g) <=> Seen(fin, g)
    BY ListingType, ListingSees DEF ScanGood
  <2> HIDE DEF l
  <2>2. f \in l.files /\ r.finder = [l EXCEPT !.files = @ \ {f}]
    BY <1>3 DEF l
  <2>3. /\ f \in Files /\ Readable(f) /\ FinderFits(r.finder)
        /\ \A g : Seen(r.finder, g) => Seen(l, g) \/ g = f
        /\ (\A g : Seen(l, g) => UidOf[g] # UidOf[f]) => First(f)
    BY <2>1, <2>2, ReadSees
  <2>4. /\ \A g : Seen(r.finder, g) => Seen(fin, g) \/ g = f
        /\ (\A g : Seen(fin, g) => UidOf[g] # UidOf[f]) => First(f)
    BY <2>1, <2>3
  <2>5. "NewFails" \notin Happens
    OBVIOUS
  <2>6. ScanGood(r.list, r.finder)
    BY <1>3, <2>3, <2>4, <2>5, LookedAtScan
  <2>7. r.more = TRUE
    BY <1>3 DEF IsLookedAt
  <2> QED
    BY <2>6, <2>7
<1> QED
  BY <1>1, <1>2, <1>3, IdleUpdateLooks

(* A scan starts: everything in the list is pending.                         *)
LEMMA ScanStarts ==
    ASSUME NEW s, GoodList(s), iAppData' = SetPending(s, Files), iAppRegFinder' = FindIn(Files)
    PROVE  ScanGood(iAppData, iAppRegFinder)'
<1> DEFINE t == SetPending(s, Files)
           fin == FindIn(Files)
<1>1. FinderFits(fin)' /\ \A f : ~Seen(fin, f)'
  <2>1. fin.scope = Files /\ fin.dir = 0 /\ fin.files = {}
    BY DEF FindIn
  <2>2. \A f \in Files : DirOf(f) \in 1 .. Len(Dirs) /\ Len(Dirs) \in Nat
    BY OneDirectory, DirsType
  <2> HIDE DEF fin
  <2> QED
    BY <2>1, <2>2 DEF FinderFits, Seen
<1>2. ASSUME NEW e \in Elements(t) PROVE IsPending(e)
  <2>1. PICK g \in Elements(s) : e = Pended(g, Files)
    BY <1>2, ElementsMarked
  <2>2. g \in AppData
    BY <2>1, ElementsGood DEF GoodElements
  <2>3. g.file \in Files
    BY <2>2 DEF AppData
  <2> QED
    BY <2>1, <2>2, <2>3, MarkedElement
<1>3. \A e \in Elements(t) : e.iIsPresent # "EIsPresent" /\ e.iIsPresent # "ESuperseded"
  BY <1>2 DEF IsPending
<1>4. iAppData' = t /\ iAppRegFinder' = fin
  OBVIOUS
<1> HIDE DEF t, fin
<1> QED
  BY <1>1, <1>3, <1>4 DEF ScanGood

(* A scan of an empty list starts.                                           *)
LEMMA EmptyScanStarts ==
    ASSUME iAppData' = <<>>, iAppRegFinder' = FindIn(Files)
    PROVE  ScanGood(iAppData, iAppRegFinder)'
<1> DEFINE fin == FindIn(Files)
<1>1. FinderFits(fin)' /\ \A f : ~Seen(fin, f)'
  <2>1. fin.scope = Files /\ fin.dir = 0 /\ fin.files = {}
    BY DEF FindIn
  <2>2. \A f \in Files : DirOf(f) \in 1 .. Len(Dirs) /\ Len(Dirs) \in Nat
    BY OneDirectory, DirsType
  <2> HIDE DEF fin
  <2> QED
    BY <2>1, <2>2 DEF FinderFits, Seen
<1>2. Elements(<<>>) = {}
  BY DEF Elements
<1>3. iAppData' = <<>> /\ iAppRegFinder' = fin
  OBVIOUS
<1> HIDE DEF fin
<1> QED
  BY <1>1, <1>2, <1>3 DEF ScanGood

----------------------------------------------------------------------------
(* What the stored list says of the fixed drives.                            *)

FixedCurrent(apps) ==
    /\ \A r \in ToSet(apps) :
         r.file \notin Removable => Readable(r.file) /\ First(r.file) /\ r.stamp = disk[r.file]
    /\ \A f \in Files \ Removable : Readable(f) =>
         \E r \in ToSet(apps) : r.uid = UidOf[f] /\ r.file \notin Removable

(* A current list, stored, is current for the fixed drives.                  *)
LEMMA StoredIsFixed ==
    ASSUME NoCardShadows, NEW s, GoodList(s), AllCurrent(s), NEW apps, Contents(s) = ToSet(apps)
    PROVE  FixedCurrent(apps)
<1>1. \A e \in Elements(s) : e \in AppData /\ e.uid = UidOf[e.file] /\ IsCurrent(e)
  BY ElementsGood DEF GoodElements, AllCurrent
<1>2. /\ \A r \in ToSet(apps) : \E e \in Elements(s) : r = Stored(e)
      /\ \A e \in Elements(s) : Stored(e) \in ToSet(apps)
  BY DEF Contents, Elements
<1>3. ASSUME NEW r \in ToSet(apps)
      PROVE  Readable(r.file) /\ First(r.file) /\ r.stamp = disk[r.file]
  BY <1>1, <1>2, <1>3 DEF Stored, IsCurrent
<1>4. ASSUME NEW f \in Files \ Removable, Readable(f)
      PROVE  \E r \in ToSet(apps) : r.uid = UidOf[f] /\ r.file \notin Removable
  <2>1. PICK e \in Elements(s) : e.uid = UidOf[f]
    BY <1>4 DEF AllCurrent, Registers
  <2>2. e.file \in Files /\ First(e.file) /\ UidOf[e.file] = UidOf[f]
    BY <1>1, <2>1 DEF AppData, IsCurrent
  <2>3. DirOf(e.file) <= DirOf(f) /\ DirOf(f) \in Nat /\ DirOf(e.file) \in Nat
    BY <1>4, <2>2, OneDirectory, DirsType DEF First
  <2>4. e.file \notin Removable
    BY <2>2, <2>3 DEF NoCardShadows
  <2>5. Stored(e) \in ToSet(apps) /\ Stored(e).uid = e.uid /\ Stored(e).file = e.file
    BY <1>2 DEF Stored
  <2> QED
    BY <2>1, <2>4, <2>5
<1> QED
  BY <1>3, <1>4 DEF FixedCurrent

(* While the server is down only removable media change, which hide nothing  *)
(* that is on the fixed drives.                                              *)
LEMMA FixedStays ==
    ASSUME NoCardShadows, World, NEW f \in Removable, NEW t, disk' = [disk EXCEPT ![f] = t],
           NEW apps, \A r \in ToSet(apps) : r.file \in Files, FixedCurrent(apps)
    PROVE  FixedCurrent(apps)'
<1>1. \A g : g \in Files \ Removable => disk'[g] = disk[g]
  BY DEF World
<1>2. \A g \in Files : DirOf(g) \in Nat
  BY OneDirectory, DirsType
<1>3. ASSUME NEW g \in Files \ Removable, First(g), NEW h \in Files, Readable(h)',
             UidOf[h] = UidOf[g]
      PROVE  DirOf(g) <= DirOf(h)
  <2>1. CASE h \in Removable
    BY <1>2, <1>3, <2>1 DEF NoCardShadows
  <2>2. CASE h \notin Removable
    <3>1. Readable(h)
      BY <1>1, <1>3, <2>2 DEF Readable
    <3> QED
      BY <1>3, <3>1 DEF First
  <2> QED
    BY <2>1, <2>2
<1>4. \A g \in Files \ Removable : First(g) => First(g)'
  BY <1>3 DEF First
<1>5. \A g \in Files \ Removable : Readable(g)' <=> Readable(g)
  BY <1>1 DEF Readable
<1>6. \A r \in ToSet(apps) :
        r.file \notin Removable => Readable(r.file)' /\ First(r.file)' /\ r.stamp = disk'[r.file]
  BY <1>1, <1>4, <1>5 DEF FixedCurrent
<1>7. \A g \in Files \ Removable : Readable(g)' =>
        \E r \in ToSet(apps) : r.uid = UidOf[g] /\ r.file \notin Removable
  BY <1>5 DEF FixedCurrent
<1> QED
  BY <1>6, <1>7 DEF FixedCurrent

(* An element restored is of the list's type.                                *)
LEMMA RestoredAppType ==
    ASSUME NEW file \in ListFile, NEW r \in ToSet(file.apps)
    PROVE  /\ RestoredApp(file, r) \in AppData
           /\ RestoredApp(file, r).uid = r.uid /\ RestoredApp(file, r).file = r.file
<1>1. file.lang \in Languages /\ file.apps \in Seq(StoredApp)
  BY DEF ListFile
<1>2. r \in StoredApp
  <2>1. \A i \in DOMAIN file.apps : file.apps[i] \in StoredApp
    BY <1>1, ElementOfSeq, LenProperties
  <2> QED
    BY <2>1 DEF ToSet
<1> QED
  BY <1>1, <1>2 DEF RestoredApp, AppData, StoredApp, Presence

(* The list is restored: the fixed drives' applications are as they are, and *)
(* what is on removable drives is to be looked for.                          *)
LEMMA RestoredScan ==
    ASSUME NEW file \in ListFile, OneEach(file.apps), file.lang = language, FixedCurrent(file.apps),
           UNCHANGED <<disk, language>>,
           iAppData' = SetPending(RestoredList(file), Removable),
           iAppRegFinder' = FindIn(Removable)
    PROVE  ScanGood(iAppData, iAppRegFinder)'
<1> DEFINE t == SetPending(RestoredList(file), Removable)
           fin == FindIn(Removable)
           R == ToSet(file.apps)
<1>1. \A r, q \in R : r \in StoredApp /\ (r.uid = q.uid => r = q)
  <2>1. file.apps \in Seq(StoredApp) /\ \A i \in DOMAIN file.apps : file.apps[i] \in StoredApp
    BY ElementOfSeq, LenProperties DEF ListFile
  <2> QED
    BY <2>1 DEF ToSet, OneEach
<1>2. ASSUME NEW e \in Elements(t)
      PROVE  \E r \in R : /\ e.uid = r.uid
                          /\ r.file \in Removable => IsPending(e)
                          /\ r.file \notin Removable => e = RestoredApp(file, r)
  <2>1. PICK g \in Elements(RestoredList(file)) : e = Pended(g, Removable)
    BY <1>2, ElementsMarked
  <2>2. PICK r \in R : g = RestoredApp(file, r)
    BY <2>1, RestoredElements
  <2>3. g \in AppData /\ g.uid = r.uid /\ g.file = r.file
    BY <2>2, RestoredAppType
  <2>4. e.uid = g.uid /\ (g.file \in Removable => IsPending(e)) /\ (g.file \notin Removable => e = g)
    BY <2>1, <2>3, MarkedElement
  <2> QED
    BY <2>2, <2>3, <2>4
<1>3. ASSUME NEW r \in R PROVE \E e \in Elements(t) : e.uid = r.uid
  <2>1. RestoredApp(file, r) \in Elements(RestoredList(file))
    BY RestoredElements
  <2>2. Pended(RestoredApp(file, r), Removable) \in Elements(t)
    <3>1. Elements(t) = {Pended(e, Removable) : e \in Elements(RestoredList(file))}
      BY ElementsMarked
    <3> HIDE DEF t
    <3> QED
      BY <2>1, <3>1
  <2>3. RestoredApp(file, r) \in AppData /\ RestoredApp(file, r).uid = r.uid
    BY RestoredAppType
  <2>4. Pended(RestoredApp(file, r), Removable).uid = r.uid
    BY <2>3, MarkedElement
  <2> QED
    BY <2>2, <2>4
<1>4. /\ \A f : Readable(f)' <=> Readable(f)
      /\ \A f : First(f)' <=> First(f)
      /\ \A f : Seen(fin, f)' <=> Seen(fin, f)
      /\ FinderFits(fin)'
      /\ \A f : Seen(fin, f) => f \in Files \ Removable /\ Readable(f)
  <2>1. FinderFits(fin) /\ \A f : Seen(fin, f) => f \notin Removable
    BY FindInSees
  <2> HIDE DEF fin
  <2>2. \A f : Readable(f)' <=> Readable(f)
    BY DEF Readable
  <2>3. \A f : First(f)' <=> First(f)
    BY <2>2 DEF First
  <2>4. \A f : Seen(fin, f)' <=> Seen(fin, f)
    BY <2>2 DEF Seen
  <2>5. FinderFits(fin)'
    BY <2>1, <2>2 DEF FinderFits
  <2>6. \A f : Seen(fin, f) => f \in Files /\ Readable(f)
    BY DEF Seen
  <2> QED
    BY <2>1, <2>2, <2>3, <2>4, <2>5, <2>6
<1> HIDE DEF t, fin, R
<1>5. ASSUME NEW e \in Elements(t)
      PROVE  /\ e.iIsPresent = "EIsPresent" => IsCurrent(e)'
             /\ e.iIsPresent # "ESuperseded"
             /\ IsPending(e) => \A f : Seen(fin, f)' => UidOf[f] # e.uid
  <2>1. PICK r \in R : /\ e.uid = r.uid
                       /\ r.file \in Removable => IsPending(e)
                       /\ r.file \notin Removable => e = RestoredApp(file, r)
    BY <1>2
  <2>2. CASE r.file \in Removable
    <3>1. ASSUME NEW f, Seen(fin, f)' PROVE UidOf[f] # e.uid
      <4>1. f \in Files \ Removable /\ Readable(f)
        BY <1>4, <3>1
      <4>2. PICK q \in R : q.uid = UidOf[f] /\ q.file \notin Removable
        BY <4>1 DEF FixedCurrent, R
      <4> QED
        BY <1>1, <2>1, <2>2, <4>2
    <3>2. IsPending(e)
      BY <2>1, <2>2
    <3>3. e.iIsPresent # "EIsPresent" /\ e.iIsPresent # "ESuperseded"
      BY <3>2 DEF IsPending
    <3> QED
      BY <3>1, <3>3
  <2>3. CASE r.file \notin Removable
    <3>1. Readable(r.file) /\ First(r.file) /\ r.stamp = disk[r.file]
      BY <2>3 DEF FixedCurrent, R
    <3>2. /\ e.file = r.file /\ e.stamp = r.stamp /\ e.lang = language
          /\ e.iIsPresent = "EIsPresent"
      BY <2>1, <2>3 DEF RestoredApp
    <3>3. ~IsPending(e) /\ e.iIsPresent # "ESuperseded"
      BY <3>2 DEF IsPending
    <3>4. IsCurrent(e)'
      BY <1>4, <3>1, <3>2 DEF IsCurrent
    <3> QED
      BY <3>3, <3>4
  <2> QED
    BY <2>2, <2>3
<1>6. ASSUME NEW f, Seen(fin, f)' PROVE \E e \in Elements(t) : e.uid = UidOf[f]
  <2>1. f \in Files \ Removable /\ Readable(f)
    BY <1>4, <1>6
  <2>2. PICK r \in R : r.uid = UidOf[f]
    BY <2>1 DEF FixedCurrent, R
  <2> QED
    BY <1>3, <2>2
<1>7. iAppData' = t /\ iAppRegFinder' = fin
  BY DEF t, fin
<1> QED
  BY <1>4, <1>5, <1>6, <1>7 DEF ScanGood, Registers

----------------------------------------------------------------------------
(* The list is accurate: current when no scan is at work, as a scan leaves   *)
(* it when one is; and so is the stored list when the server is down.        *)
ListAccurate ==
    phase # "Down" /\ ~rescanOwed =>
        IF Scanning THEN ScanGood(iAppData, iAppRegFinder) ELSE AllCurrent(iAppData)

StoreAccurate ==
    phase = "Down" /\ cache # NoFile /\ ~rescanOwed => FixedCurrent(cache.apps)

Accurate == ListAccurate /\ StoreAccurate

(* Whenever AppsList.bin exists it is current for the fixed drives.          *)
LEMMA StoreCurrent ==
    ASSUME NoCardShadows, ListInv, Tidy, Accurate, cache # NoFile, ~rescanOwed
    PROVE  FixedCurrent(cache.apps)
<1>1. CASE phase = "Down"
  BY <1>1 DEF Accurate, StoreAccurate
<1>2. CASE phase # "Down"
  <2>1. phase = "Up"
    BY <1>2 DEF ListInv, TypeOK, Tidy, CacheHolds
  <2>2. ~Scanning /\ Contents(iAppData) = ToSet(cache.apps)
    BY <2>1 DEF Tidy, CacheHolds, Scanning
  <2>3. AllCurrent(iAppData) /\ GoodList(iAppData)
    BY <1>2, <2>2 DEF Accurate, ListAccurate, ListInv
  <2> QED
    BY <2>2, <2>3, StoredIsFixed
<1> QED
  BY <1>1, <1>2

(* Every step keeps it so.                                                   *)
LEMMA NextAccurate ==
    ASSUME ScansComplete, "NewFails" \notin Happens, NoCardShadows,
           ListInv, Tidy, Accurate, [Next]_vars
    PROVE  Accurate'
<1>0. /\ World /\ GoodList(iAppData) /\ iAppData \in Seq(AppData) /\ iAppRegFinder \in Finder
      /\ OneAtWork /\ NoneDropped(iAppData)
      /\ {"NewFails", "NextFails", "SuccessorFails", "PurgeFails"} \cap Happens = {}
      /\ "StartFails" \notin Happens /\ "RestartScan" \notin Happens
      /\ "PurgeFails" \notin Happens /\ ~idlerUnstarted
      /\ phase \in {"Down", "Restoring", "Up"}
      /\ cache # NoFile => cache \in ListFile /\ OneEach(cache.apps)
  BY DEF ListInv, OneAtWork, TypeOK, World, Finder, GoodList, GoodFile, Tidy, ScansComplete
<1>a. ASSUME phase' # "Down",
             ~rescanOwed' =>
               \/ Scanning' /\ ScanGood(iAppData, iAppRegFinder)'
               \/ ~Scanning' /\ AllCurrent(iAppData)'
      PROVE  Accurate'
  BY <1>a DEF Accurate, ListAccurate, StoreAccurate
<1>b. ASSUME UNCHANGED <<disk, iAppData, iAppRegFinder, rescanOwed>>,
             Scanning' = Scanning, ~rescanOwed, phase # "Down",
             \A l : l = language \/ iLangNotifier => l = language' \/ iLangNotifier'
      PROVE  \/ Scanning' /\ ScanGood(iAppData, iAppRegFinder)'
             \/ ~Scanning' /\ AllCurrent(iAppData)'
  <2>1. CASE Scanning
    <3>1. ScanGood(iAppData, iAppRegFinder)
      BY <1>b, <2>1 DEF Accurate, ListAccurate
    <3>2. ScanGood(iAppData, iAppRegFinder)'
      BY <1>b, <3>1, SameScan
    <3> QED
      BY <1>b, <2>1, <3>2
  <2>2. CASE ~Scanning
    <3>1. AllCurrent(iAppData)
      BY <1>b, <2>2 DEF Accurate, ListAccurate
    <3>2. AllCurrent(iAppData)'
      BY <1>b, <3>1, SameCurrent
    <3> QED
      BY <1>b, <2>2, <3>2
  <2> QED
    BY <2>1, <2>2
<1>c. \A l : UNCHANGED <<language, iLangNotifier>> =>
        (l = language \/ iLangNotifier => l = language' \/ iLangNotifier')
  OBVIOUS
<1>d. ASSUME UNCHANGED <<disk, language, phase, iPrevLanguage, iLangNotifier, iAppData, iAppIdler,
                        iAppRegFinder, rescanOwed>>,
             phase # "Down" \/ cache' = cache
      PROVE  Accurate'
  <2>1. Scanning' = Scanning
    BY <1>d DEF Scanning
  <2>2. CASE phase = "Down"
    <3>1. FixedCurrent(cache.apps) => FixedCurrent(cache.apps)'
      <4>1. /\ \A f : Readable(f)' <=> Readable(f)
            /\ \A f : First(f)' <=> First(f)
        BY <1>d DEF First, Readable
      <4> QED
        BY <1>d, <2>2, <4>1 DEF FixedCurrent
    <3> QED
      BY <1>d, <2>1, <2>2, <3>1 DEF Accurate, ListAccurate, StoreAccurate
  <2>3. CASE phase # "Down"
    BY <1>a, <1>b, <1>c, <1>d, <2>1, <2>3
  <2> QED
    BY <2>2, <2>3
<1>s. ASSUME NEW fl, StartScan(iAppData, {}, fl), phase' = "Up"
      PROVE  Accurate'
  <2>1. /\ iAppData' = SetPending(iAppData, Files) /\ iAppRegFinder' = FindIn(Files)
        /\ iAppIdler' = TRUE
    BY <1>s DEF StartScan
  <2>2. ScanGood(iAppData, iAppRegFinder)'
    BY <1>0, <2>1, ScanStarts
  <2>3. Scanning'
    BY <2>1 DEF Scanning
  <2> QED
    BY <1>a, <1>s, <2>2, <2>3
<1>r. ASSUME NEW r \in IdleUpdate(iAppData, iAppRegFinder), Scanning, phase # "Down", ~rescanOwed,
             UNCHANGED <<disk, language, iLangNotifier>>, iAppData' = r.list
      PROVE  /\ r.more /\ iAppRegFinder' = r.finder => ScanGood(iAppData, iAppRegFinder)'
             /\ ~r.more => AllCurrent(iAppData)'
  <2>1. ScanGood(iAppData, iAppRegFinder)
    BY <1>r DEF Accurate, ListAccurate
  <2>2. (r.more => ScanGood(r.list, r.finder)) /\ (~r.more => AllCurrent(r.list))
    BY <1>0, <2>1, ScanGoesOn
  <2>3. CASE r.more /\ iAppRegFinder' = r.finder
    <3>1. ScanGood(r.list, r.finder)
      BY <2>2, <2>3
    <3> QED
      BY <1>c, <1>r, <2>3, <3>1, SameScan
  <2>4. CASE ~r.more
    <3>1. AllCurrent(r.list)
      BY <2>2, <2>4
    <3> QED
      BY <1>c, <1>r, <2>4, <3>1, SameCurrent
  <2> QED
    BY <2>3, <2>4
<1>f. \A r \in IdleUpdate(iAppData, iAppRegFinder) : ~r.failed /\ GoodResult(r)
  <2>1. ASSUME NEW r \in IdleUpdate(iAppData, iAppRegFinder) PROVE ~r.failed
    <3>1. ~IsLeft(iAppData, r)
      BY <1>0 DEF IsLeft
    <3>2. IsFinished(iAppData, iAppRegFinder, r) => ~r.failed
      BY DEF IsFinished
    <3>3. \A f : IsLookedAt(iAppData, f, r) => ~r.failed
      BY DEF IsLookedAt
    <3> QED
      BY <1>0, <3>1, <3>2, <3>3, IdleUpdateLooks
  <2> QED
    BY <1>0, <2>1, IdleUpdateGood
<1>1. CASE UpdateApps
  <2>1. /\ StartScan(iAppData, {}, iFlags) /\ phase' = "Up" /\ phase = "Up"
        /\ UNCHANGED <<language, iPrevLanguage, iLangNotifier>>
    BY <1>0, <1>1, Zenon DEF UpdateApps, StartScanFails
  <2> QED
    BY <1>s, <2>1
<1>2. CASE LangChangeRunL
  <2>1. phase = "Up" /\ phase' = "Up"
    BY <1>2 DEF LangChangeRunL
  <2>2. \/ rescanOwed' = TRUE
        \/ StartScan(iAppData, {}, iFlags \cup {"ELangChangePending"})
    BY <1>0, <1>2, Zenon DEF LangChangeRunL, StartScanFails
  <2> QED
    BY <1>a, <1>s, <2>1, <2>2
<1>3. CASE ScanStep
  <2>1. PICK r \in IdleUpdate(iAppData, iAppRegFinder) :
           iAppData' = r.list /\ iAppIdler' = r.more /\ iAppRegFinder' = r.finder
    BY <1>3, Zenon DEF ScanStep
  <2>2. /\ phase = "Up" /\ iAppIdler
        /\ UNCHANGED <<disk, language, phase, iPrevLanguage, iLangNotifier, rescanOwed>>
    BY <1>3, Zenon DEF ScanStep, worldVars
  <2>3. Scanning /\ (Scanning' <=> iAppIdler')
    BY <2>2 DEF Scanning
  <2>4. ~rescanOwed =>
          /\ r.more => ScanGood(iAppData, iAppRegFinder)'
          /\ ~r.more => AllCurrent(iAppData)'
    BY <1>r, <2>1, <2>2, <2>3
  <2> QED
    BY <1>a, <2>1, <2>2, <2>3, <2>4
<1>4. CASE ScanStepLeaves
  <2>1. PICK r \in IdleUpdate(iAppData, iAppRegFinder) : r.failed
    BY <1>4, Zenon DEF ScanStepLeaves
  <2> QED
    BY <1>f, <2>1
<1>5. CASE LoadIcons
  BY <1>5, <1>d, Zenon DEF LoadIcons, diskVars, listVars, scanVars, worldVars
<1>6. CASE IconsLoaded
  <2>1. /\ UNCHANGED <<disk, language, phase, iPrevLanguage, iLangNotifier, iAppData, iAppIdler,
                       iAppRegFinder, rescanOwed>>
        /\ phase # "Down"
    BY <1>6 DEF IconsLoaded, scanVars, worldVars
  <2> QED
    BY <1>d, <2>1
<1>7. CASE StoreEntry
  BY <1>7, <1>d, Zenon DEF StoreEntry, diskVars, listVars, scanVars, worldVars
<1>8. CASE StoreDone
  <2>1. /\ UNCHANGED <<disk, language, phase, iPrevLanguage, iLangNotifier, iAppData, iAppIdler,
                       iAppRegFinder, rescanOwed>>
        /\ phase # "Down"
    BY <1>8 DEF StoreDone, listVars, scanVars, worldVars
  <2> QED
    BY <1>d, <2>1
<1>9. CASE PowerOn
  <2>1. /\ phase = "Down" /\ iPrevLanguage' = language /\ ~iLangNotifier'
        /\ UNCHANGED <<disk, language>>
        /\ \/ /\ Restorable /\ phase' = "Restoring" /\ rescanOwed' = rescanOwed
              /\ iAppData' = SetPending(RestoredList(cache), Removable)
              /\ iAppRegFinder' = FindIn(Removable)
           \/ ScanFromNothing({})
    BY <1>9 DEF PowerOn
  <2>3. CASE /\ Restorable /\ phase' = "Restoring" /\ rescanOwed' = rescanOwed
             /\ iAppData' = SetPending(RestoredList(cache), Removable)
             /\ iAppRegFinder' = FindIn(Removable)
    <3>1. /\ cache \in ListFile /\ OneEach(cache.apps) /\ cache.lang = language
          /\ Scanning'
      BY <1>0, <2>3 DEF Restorable, Scanning
    <3>2. ~rescanOwed => FixedCurrent(cache.apps)
      BY <2>1, <2>3 DEF Accurate, StoreAccurate, Restorable
    <3>3. ~rescanOwed => ScanGood(iAppData, iAppRegFinder)'
      BY <2>1, <2>3, <3>1, <3>2, RestoredScan
    <3> QED
      BY <1>a, <2>3, <3>1, <3>3
  <2>4. CASE ScanFromNothing({})
    <3>1. /\ phase' = "Up" /\ iAppIdler' = TRUE /\ iAppData' = <<>>
          /\ iAppRegFinder' = FindIn(Files)
      BY <1>0, <2>4 DEF ScanFromNothing
    <3>2. Scanning' /\ ScanGood(iAppData, iAppRegFinder)'
      BY <3>1, EmptyScanStarts DEF Scanning
    <3> QED
      BY <1>a, <3>1, <3>2
  <2> QED
    BY <2>1, <2>3, <2>4
<1>10. CASE RestoreStep
  <2>1. /\ phase = "Restoring" /\ ~iAppIdler
        /\ UNCHANGED <<disk, language, iPrevLanguage, iLangNotifier>>
    BY <1>0, <1>10 DEF RestoreStep, OneAtWork
  <2>2. PICK r \in IdleUpdate(iAppData, iAppRegFinder) :
           \/ r.failed
           \/ /\ iAppData' = r.list /\ iAppRegFinder' = r.finder
              /\ UNCHANGED <<iAppIdler, rescanOwed>>
              /\ \/ r.more /\ UNCHANGED <<cache, backup, afterVars, phase>>
                 \/ ~r.more /\ phase' = "Up"
    BY <1>10, Zenon DEF RestoreStep
  <2>3. /\ iAppData' = r.list /\ iAppRegFinder' = r.finder
        /\ UNCHANGED <<iAppIdler, rescanOwed>>
        /\ \/ r.more /\ phase' = phase
           \/ ~r.more /\ phase' = "Up"
    <3>1. ~r.failed
      BY <1>f
    <3> QED
      BY <2>2, <3>1
  <2>4. Scanning /\ (Scanning' <=> r.more) /\ phase' # "Down"
    BY <2>1, <2>3 DEF Scanning
  <2>5. ~rescanOwed =>
          /\ r.more => ScanGood(iAppData, iAppRegFinder)'
          /\ ~r.more => AllCurrent(iAppData)'
    BY <1>r, <2>1, <2>3, <2>4
  <2> QED
    BY <1>a, <2>3, <2>4, <2>5
<1>11. CASE StoreFails
  BY <1>11, <1>d, Zenon DEF StoreFails, diskVars, listVars, scanVars, worldVars
<1>12. CASE PowerLoss
  <2>1. phase' = "Down" /\ phase # "Down" /\ UNCHANGED <<disk, cache, rescanOwed>>
    BY <1>12 DEF PowerLoss, diskVars
  <2>2. cache # NoFile /\ ~rescanOwed => FixedCurrent(cache.apps)
    BY StoreCurrent
  <2>3. FixedCurrent(cache.apps) => FixedCurrent(cache.apps)'
    <3>1. /\ \A f : Readable(f)' <=> Readable(f)
          /\ \A f : First(f)' <=> First(f)
      BY <2>1 DEF First, Readable
    <3> QED
      BY <2>1, <3>1 DEF FixedCurrent
  <2> QED
    BY <2>1, <2>2, <2>3 DEF Accurate, ListAccurate, StoreAccurate
<1>13. CASE RestartScan
  BY <1>13, <1>0 DEF RestartScan
<1>14. CASE SpuriousChange
  BY <1>14, <1>d, Zenon DEF SpuriousChange, diskVars, listVars, scanVars
<1>15. ASSUME NEW nna \in BOOLEAN, StopScan(nna)
      PROVE  Accurate'
  <2>1. /\ iAppData' = UndoSetPending(iAppData) /\ ~iAppIdler' /\ phase = "Up" /\ phase' = "Up"
        /\ rescanOwed' = (rescanOwed \/ iAppIdler)
        /\ UNCHANGED <<disk, language, iPrevLanguage, iLangNotifier>>
    BY <1>15 DEF StopScan, diskVars
  <2>2. ~Scanning'
    BY <2>1 DEF Scanning
  <2>3. ASSUME ~rescanOwed' PROVE AllCurrent(iAppData)'
    <3>1. ~Scanning /\ ~rescanOwed
      BY <2>1, <2>3 DEF Scanning
    <3>2. AllCurrent(iAppData)
      BY <2>1, <3>1 DEF Accurate, ListAccurate
    <3> DEFINE t == UndoSetPending(iAppData)
    <3>3. Elements(t) = Elements(iAppData)
      <4>1. \A e \in Elements(iAppData) : Unpended(e) = e
        BY <3>2 DEF AllCurrent, Unpended
      <4>2. Elements(t) = {Unpended(e) : e \in Elements(iAppData)}
        BY ElementsMarked
      <4>3. {Unpended(e) : e \in Elements(iAppData)} = Elements(iAppData)
        BY <4>1
      <4> QED
        BY <4>2, <4>3
    <3> HIDE DEF t
    <3>4. AllCurrent(t)
      BY <3>2, <3>3 DEF AllCurrent, Registers
    <3>5. iAppData' = t
      BY <2>1 DEF t
    <3> QED
      BY <1>c, <2>1, <3>4, <3>5, SameCurrent
  <2> QED
    BY <1>a, <2>1, <2>2, <2>3
<1>16. ASSUME NEW u \in Uids, FindSpecificApp(u)
      PROVE  Accurate'
  <2>1. PICK f \in FirstRegistrations(u) : \E r \in UpdateNextApp(iAppData, f, iAppRegFinder) :
           iAppData' = r.list
    BY <1>16, Zenon DEF FindSpecificApp
  <2>2. PICK r \in UpdateNextApp(iAppData, f, iAppRegFinder) : iAppData' = r.list
    BY <2>1
  <2>3. /\ phase = "Up" /\ iAppIdler
        /\ UNCHANGED <<disk, language, phase, iPrevLanguage, iLangNotifier, iAppIdler,
                       iAppRegFinder, rescanOwed>>
    BY <1>0, <1>16 DEF FindSpecificApp, diskVars, scanVars, worldVars
  <2>4. f \in Files /\ Readable(f) /\ First(f) /\ IsLookedAt(iAppData, f, r)
    <3>1. f \in Files /\ Readable(f) /\ First(f)
      BY FirstRegistrationIsFirst
    <3>2. ~IsGivenUp(iAppData, r)
      BY <1>0 DEF IsGivenUp
    <3> QED
      BY <1>0, <3>1, <3>2, UpdateNextAppLooks
  <2>5. Scanning /\ Scanning' /\ phase' # "Down"
    BY <2>3 DEF Scanning
  <2>6. ASSUME ~rescanOwed PROVE ScanGood(iAppData, iAppRegFinder)'
    <3>1. ScanGood(iAppData, iAppRegFinder)
      BY <2>3, <2>5, <2>6 DEF Accurate, ListAccurate
    <3>2. FinderFits(iAppRegFinder)
      BY <3>1 DEF ScanGood
    <3>3. "NewFails" \notin Happens
      OBVIOUS
    <3>4. ScanGood(r.list, iAppRegFinder)
      BY <1>0, <2>4, <3>1, <3>2, <3>3, LookedAtScan
    <3> QED
      BY <1>c, <2>2, <2>3, <3>4, SameScan
  <2> QED
    BY <1>a, <2>3, <2>5, <2>6
<1>17. ASSUME NEW f \in Files, NEW t \in Stamps \cup {Absent}, FsChange(f, t)
      PROVE  Accurate'
  <2>1. /\ disk' = [disk EXCEPT ![f] = t] /\ (phase = "Down" => f \in Removable)
        /\ rescanOwed' = (rescanOwed \/ phase # "Down")
        /\ UNCHANGED <<cache, language, phase, iPrevLanguage, iLangNotifier>>
    BY <1>17 DEF FsChange
  <2>3. CASE phase # "Down"
    BY <1>a, <2>1, <2>3
  <2>4. CASE phase = "Down"
    <3>1. ASSUME cache # NoFile, ~rescanOwed PROVE FixedCurrent(cache.apps)'
      <4> DEFINE apps == cache.apps
      <4>1. FixedCurrent(apps)
        BY <2>4, <3>1 DEF Accurate, StoreAccurate
      <4>2. apps \in Seq(StoredApp)
        BY <1>0, <3>1 DEF ListFile
      <4>3. \A r \in ToSet(apps) : r.file \in Files
        <5> HIDE DEF apps
        <5>1. \A i \in DOMAIN apps : apps[i] \in StoredApp
          BY <4>2, ElementOfSeq, LenProperties
        <5> QED
          BY <5>1 DEF ToSet, StoredApp
      <4>4. PICK s : s = apps
        OBVIOUS
      <4>5. FixedCurrent(s)'
        BY <1>0, <2>1, <2>4, <4>1, <4>3, <4>4, FixedStays
      <4>6. cache'.apps = s
        BY <2>1, <4>4
      <4> QED
        BY <4>5, <4>6 DEF FixedCurrent
    <3> QED
      BY <2>1, <2>4, <3>1 DEF Accurate, ListAccurate, StoreAccurate
  <2> QED
    BY <2>3, <2>4
<1>18. ASSUME NEW l \in Languages, SetLanguage(l)
      PROVE  Accurate'
  <2>1. /\ ~iLangNotifier /\ l # language /\ language' = l /\ iLangNotifier' = (phase # "Down")
        /\ UNCHANGED <<disk, cache, phase, iPrevLanguage, iAppData, iAppIdler, iAppRegFinder,
                       rescanOwed>>
    BY <1>18 DEF SetLanguage, diskVars, listVars, scanVars
  <2>2. CASE phase # "Down"
    <3>1. Scanning' = Scanning
      BY <2>1 DEF Scanning
    <3>2. \A k : k = language \/ iLangNotifier => k = language' \/ iLangNotifier'
      BY <2>1, <2>2
    <3> QED
      BY <1>a, <1>b, <2>1, <2>2, <3>1, <3>2
  <2>3. CASE phase = "Down"
    <3>1. /\ \A f : Readable(f)' <=> Readable(f)
          /\ \A f : First(f)' <=> First(f)
      BY <2>1 DEF First, Readable
    <3>2. FixedCurrent(cache.apps) => FixedCurrent(cache.apps)'
      BY <2>1, <3>1 DEF FixedCurrent
    <3> QED
      BY <2>1, <2>3, <3>2 DEF Accurate, ListAccurate, StoreAccurate
  <2> QED
    BY <2>2, <2>3
<1>19. CASE UNCHANGED vars
  BY <1>19, <1>d, Zenon DEF vars, diskVars, listVars, scanVars, worldVars
<1> HIDE DEF Next
<1> QED
  BY StepCases, <1>1, <1>2, <1>3, <1>4, <1>5, <1>6, <1>7, <1>8, <1>9, <1>10, <1>11, <1>12,
     <1>13, <1>14, <1>15, <1>16, <1>17, <1>18, <1>19, Zenon

(* What the list and its file say is accurate, always.                       *)
LEMMA AccurateAlways ==
    ASSUME ScansComplete, "NewFails" \notin Happens, NoCardShadows
    PROVE  Spec => [](ListInv /\ Tidy /\ Accurate)
<1>1. Init => Accurate
  BY DEF Init, Accurate, ListAccurate, StoreAccurate
<1>2. ListInv /\ Tidy /\ Accurate /\ [Next]_vars => Accurate'
  BY NextAccurate
<1> QED
  BY <1>1, <1>2, TidyAlways, PTL DEF Spec

(* At rest, no rescan being owed, the list is what is on the phone: each     *)
(* registered application once, from the first directory that registers it,  *)
(* as its files are now and in the current language; if scans start and      *)
(* complete, what they find can be read, and nothing on a removable drive is *)
(* found before what is fixed.  A rescan is owed after a change of language  *)
(* the monitor was told of together with something else: nothing is then     *)
(* done for it, and the list stays in the old language until the next scan.  *)
THEOREM ListCurrent ==
    ASSUME ScansComplete, "NewFails" \notin Happens, NoCardShadows
    PROVE  Spec => []ListIsCurrent
<1>1. ListInv /\ Accurate => ListIsCurrent
  <2> SUFFICES ASSUME ListInv, Accurate, AtRest, ~rescanOwed
               PROVE  /\ View(iAppData) \subseteq {[r EXCEPT !.stamp = <<@, language>>] : r \in OnDisk}
                      /\ UidsOf(OnDisk) \subseteq ListUids
    BY DEF ListIsCurrent
  <2> DEFINE reg(f) == [uid |-> UidOf[f], file |-> f, stamp |-> disk[f]]
  <2>1. AllCurrent(iAppData) /\ GoodList(iAppData) /\ ~iLangNotifier
    BY DEF AtRest, Working, Accurate, ListAccurate, Scanning, ListInv
  <2>2. \A e \in Elements(iAppData) :
          /\ e \in AppData /\ e.uid = UidOf[e.file]
          /\ Readable(e.file) /\ First(e.file) /\ e.stamp = disk[e.file] /\ e.lang = language
    BY <2>1, ElementsGood DEF GoodElements, AllCurrent, IsCurrent
  <2>3. OnDisk = {reg(f) : f \in {g \in Files : Readable(g) /\ First(g)}}
    BY OnDiskIsFirst
  <2>4. ASSUME NEW i \in DOMAIN iAppData
        PROVE  [Stored(iAppData[i]) EXCEPT !.stamp = <<@, iAppData[i].lang>>]
                 \in {[r EXCEPT !.stamp = <<@, language>>] : r \in OnDisk}
    <3>1. PICK e \in Elements(iAppData) : e = iAppData[i]
      BY DEF Elements
    <3>2. e.file \in Files /\ Stored(e) = reg(e.file)
      BY <2>2 DEF AppData, Stored
    <3>3. Stored(e) \in OnDisk
      BY <2>2, <2>3, <3>2
    <3>4. e.lang = language
      BY <2>2
    <3> QED
      BY <3>1, <3>3, <3>4
  <2>5. ASSUME NEW u \in UidsOf(OnDisk) PROVE u \in ListUids
    <3>1. PICK f \in Files : Readable(f) /\ u = UidOf[f]
      BY <2>3 DEF UidsOf
    <3>2. PICK e \in Elements(iAppData) : e.uid = u
      BY <2>1, <3>1 DEF AllCurrent, Registers
    <3> QED
      BY <3>2 DEF Elements, ListUids
  <2> QED
    BY <2>4, <2>5 DEF View
<1> QED
  BY <1>1, AccurateAlways, PTL

(* AppsList.bin is never stale: whenever it exists, and no rescan is owed, a *)
(* power loss now would restore the fixed drives' applications as they are;  *)
(* under the same conditions.                                                *)
THEOREM CacheCurrent ==
    ASSUME ScansComplete, "NewFails" \notin Happens, NoCardShadows
    PROVE  Spec => []CacheIsCurrent
<1>1. ListInv /\ Tidy /\ Accurate => CacheIsCurrent
  <2> SUFFICES ASSUME ListInv, Tidy, Accurate, cache # NoFile, ~rescanOwed
               PROVE  /\ Fixed(ToSet(cache.apps)) \subseteq OnDisk
                      /\ UidsOf(Fixed(OnDisk)) \subseteq UidsOf(Fixed(ToSet(cache.apps)))
    BY DEF CacheIsCurrent
  <2> DEFINE reg(f) == [uid |-> UidOf[f], file |-> f, stamp |-> disk[f]]
             R == ToSet(cache.apps)
  <2>1. FixedCurrent(cache.apps)
    BY StoreCurrent
  <2>2. \A r \in R : r \in StoredApp /\ r.uid = UidOf[r.file]
    <3>1. cache.apps \in Seq(StoredApp) /\ OneEach(cache.apps)
      BY DEF ListInv, TypeOK, ListFile, GoodFile
    <3>2. \A i \in DOMAIN cache.apps : cache.apps[i] \in StoredApp
      BY <3>1, ElementOfSeq, LenProperties
    <3> QED
      BY <3>1, <3>2 DEF ToSet, OneEach
  <2>3. OnDisk = {reg(f) : f \in {g \in Files : Readable(g) /\ First(g)}}
    BY OnDiskIsFirst
  <2>4. ASSUME NEW r \in Fixed(R) PROVE r \in OnDisk
    <3>1. r \in R /\ r.file \notin Removable
      BY DEF Fixed
    <3>2. Readable(r.file) /\ First(r.file) /\ r.stamp = disk[r.file] /\ r.file \in Files
      BY <2>1, <2>2, <3>1 DEF FixedCurrent, StoredApp
    <3>3. r = reg(r.file)
      BY <2>2, <3>1, <3>2 DEF StoredApp
    <3> QED
      BY <2>3, <3>2, <3>3
  <2>5. ASSUME NEW u \in UidsOf(Fixed(OnDisk)) PROVE u \in UidsOf(Fixed(R))
    <3>1. PICK f \in Files \ Removable : Readable(f) /\ u = UidOf[f]
      BY <2>3 DEF UidsOf, Fixed
    <3>2. PICK r \in R : r.uid = u /\ r.file \notin Removable
      BY <2>1, <3>1 DEF FixedCurrent
    <3> QED
      BY <3>2 DEF UidsOf, Fixed
  <2> QED
    BY <2>4, <2>5
<1> QED
  BY <1>1, AccurateAlways, PTL

(* Only the end of a scan removes applications, and only those with no       *)
(* registration left on the phone; under the same conditions.                *)
THEOREM NothingPresentRemoved ==
    ASSUME ScansComplete, "NewFails" \notin Happens, NoCardShadows
    PROVE  Spec => NothingPresentIsRemoved
<1> DEFINE P == phase = "Down" \/ phase' = "Down" \/ rescanOwed \/ rescanOwed' \/
                \A r \in OnDisk : r.uid \in ListUids => r.uid \in ListUids'
<1>1. ListInv /\ Tidy /\ Accurate /\ [Next]_vars => [P]_vars
  <2> SUFFICES ASSUME ListInv, Tidy, Accurate, [Next]_vars, phase # "Down", phase' # "Down",
                      ~rescanOwed, ~rescanOwed'
               PROVE  \A r \in OnDisk : r.uid \in ListUids => r.uid \in ListUids'
    BY DEF P
  <2>0. /\ World /\ GoodList(iAppData) /\ iAppData \in Seq(AppData) /\ iAppRegFinder \in Finder
        /\ NoneDropped(iAppData)
        /\ {"NewFails", "NextFails", "SuccessorFails", "PurgeFails"} \cap Happens = {}
        /\ "StartFails" \notin Happens /\ "RestartScan" \notin Happens
        /\ "PurgeFails" \notin Happens /\ ~idlerUnstarted
    BY DEF ListInv, OneAtWork, TypeOK, World, Finder, GoodList, Tidy, ScansComplete
  <2>k. ASSUME KeepsUids(iAppData, iAppData')
        PROVE  \A r \in OnDisk : r.uid \in ListUids => r.uid \in ListUids'
    BY <2>k DEF KeepsUids, ListUids
  <2>s. KeepsUids(iAppData, iAppData)
    BY DEF KeepsUids
  <2>r. ASSUME NEW r \in IdleUpdate(iAppData, iAppRegFinder), Scanning, iAppData' = r.list
        PROVE  \A q \in OnDisk : q.uid \in ListUids => q.uid \in ListUids'
    <3>1. CASE r.more
      <4>1. KeepsUids(iAppData, r.list)
        BY <2>0, <3>1, IdleUpdateKeeps
      <4> QED
        BY <2>k, <2>r, <4>1
    <3>2. CASE ~r.more
      <4>1. ScanGood(iAppData, iAppRegFinder)
        BY <2>r DEF Accurate, ListAccurate
      <4>2. AllCurrent(r.list)
        BY <2>0, <3>2, <4>1, ScanGoesOn
      <4>3. ASSUME NEW q \in OnDisk PROVE q.uid \in ListUids'
        <5>1. PICK f \in Files : Readable(f) /\ q.uid = UidOf[f]
          BY OnDiskIsFirst
        <5>2. PICK e \in Elements(r.list) : e.uid = q.uid
          BY <4>2, <5>1 DEF AllCurrent, Registers
        <5>3. PICK i \in DOMAIN r.list : e = r.list[i]
          BY DEF Elements
        <5> QED
          BY <2>r, <5>2, <5>3 DEF ListUids
      <4> QED
        BY <4>3
    <3> QED
      BY <3>1, <3>2
  <2>1. CASE UpdateApps \/ LangChangeRunL
    <3>1. iAppData' = SetPending(iAppData, Files) \/ iAppData' = iAppData
      BY <2>1, Zenon DEF UpdateApps, LangChangeRunL, StartScan, StartScanFails
    <3>2. KeepsUids(iAppData, SetPending(iAppData, Files))
      BY <2>0, SetPendingSame, SameKeeps
    <3> QED
      BY <2>k, <2>s, <3>1, <3>2
  <2>2. CASE ScanStep \/ ScanStepLeaves
    <3>1. /\ \E r \in IdleUpdate(iAppData, iAppRegFinder) : iAppData' = r.list
          /\ Scanning
      BY <2>2, Zenon DEF ScanStep, ScanStepLeaves, Scanning
    <3> QED
      BY <2>r, <3>1
  <2>3. CASE UNCHANGED iAppData
    BY <2>3, <2>k, <2>s
  <2>4. CASE RestoreStep
    <3>1. Scanning
      BY <2>4 DEF RestoreStep, Scanning
    <3>2. PICK r \in IdleUpdate(iAppData, iAppRegFinder) : r.failed \/ iAppData' = r.list
      BY <2>4, Zenon DEF RestoreStep
    <3>3. ~r.failed
      <4>1. ~IsLeft(iAppData, r)
        BY <2>0 DEF IsLeft
      <4>2. IsFinished(iAppData, iAppRegFinder, r) => ~r.failed
        BY DEF IsFinished
      <4>3. \A f : IsLookedAt(iAppData, f, r) => ~r.failed
        BY DEF IsLookedAt
      <4> QED
        BY <2>0, <4>1, <4>2, <4>3, IdleUpdateLooks
    <3> QED
      BY <2>r, <3>1, <3>2, <3>3
  <2>5. ASSUME NEW nna \in BOOLEAN, StopScan(nna)
        PROVE  \A r \in OnDisk : r.uid \in ListUids => r.uid \in ListUids'
    <3>1. iAppData' = UndoSetPending(iAppData)
      BY <2>5 DEF StopScan
    <3>2. KeepsUids(iAppData, UndoSetPending(iAppData))
      BY <2>0, UndoSetPendingSame, SameKeeps
    <3> QED
      BY <2>k, <3>1, <3>2
  <2>6. ASSUME NEW u \in Uids, FindSpecificApp(u)
        PROVE  \A r \in OnDisk : r.uid \in ListUids => r.uid \in ListUids'
    <3>1. PICK f \in FirstRegistrations(u) : \E r \in UpdateNextApp(iAppData, f, iAppRegFinder) :
             iAppData' = r.list
      BY <2>6, Zenon DEF FindSpecificApp
    <3>2. PICK r \in UpdateNextApp(iAppData, f, iAppRegFinder) : iAppData' = r.list
      BY <3>1
    <3>3. KeepsUids(iAppData, r.list)
      BY <2>0, FirstRegistrationsType, UpdateNextAppKeeps
    <3> QED
      BY <2>k, <3>2, <3>3
  <2>7. LoadIcons \/ IconsLoaded \/ StoreEntry \/ StoreDone \/ StoreFails \/ SpuriousChange
          \/ UNCHANGED vars => UNCHANGED iAppData
    BY Zenon DEF LoadIcons, IconsLoaded, StoreEntry, StoreDone, StoreFails, SpuriousChange, vars,
       listVars
  <2>8. /\ \A f \in Files, t \in Stamps \cup {Absent} : FsChange(f, t) => UNCHANGED iAppData
        /\ \A l \in Languages : SetLanguage(l) => UNCHANGED iAppData
    BY Zenon DEF FsChange, SetLanguage, listVars
  <2>9. ~PowerOn /\ ~PowerLoss /\ ~RestartScan
    BY <2>0 DEF PowerOn, PowerLoss, RestartScan
  <2> HIDE DEF Next
  <2> QED
    BY StepCases, <2>1, <2>2, <2>3, <2>4, <2>5, <2>6, <2>7, <2>8, <2>9, Zenon
<1> QED
  BY <1>1, AccurateAlways, PTL DEF Spec, NothingPresentIsRemoved

----------------------------------------------------------------------------
(* What the observer is told.                                                *)

(* The end of the scan will call EAppListChanged.                            *)
WillTell(fl) == fl \cap {"EAppListHasChanged", "ENotifyUpdateOnFirstScanComplete"} # {}

(* The end of the scan will change the list even if it finds everything.     *)
ToBeChanged(s) == \E e \in Elements(s) : e.iIsPresent \in {"ESuperseded", "ENotPresent"}

(* Until a change has been told someone is at work, or is to be, who will    *)
(* tell it, and the observer is there to hear it.                            *)
Told ==
    /\ ~iLangNotifier
    /\ phase = "Down" => iAppData = <<>>
    /\ untold => phase # "Down" /\ WillTell(iFlags)
    /\ phase = "Up" /\ WillTell(iFlags) => iAppIdler \/ iAppIconLoader # Off \/ rescanDue
    /\ phase = "Up" /\ (iAppIdler \/ iAppIconLoader # Off) => iObserver
    /\ Scanning /\ ToBeChanged(iAppData) => WillTell(iFlags)

(* A look at a file, or a failure at it, that changes the list sets the flag.*)
LEMMA LookTold ==
    ASSUME World, NEW s, GoodList(s), NEW f \in Files, NEW r,
           IsLookedAt(s, f, r) \/ IsGivenUp(s, r),
           NEW fl, ToBeChanged(s) => WillTell(fl)
    PROVE  /\ WillTell(fl \cup FlagChange(r.changed)) \/ View(r.list) = View(s)
           /\ ToBeChanged(r.list) => WillTell(fl \cup FlagChange(r.changed))
<1> DEFINE new == fl \cup FlagChange(r.changed)
<1>1. (WillTell(fl) => WillTell(new)) /\ (r.changed => WillTell(new))
  BY DEF WillTell, FlagChange
<1> HIDE DEF new
<1>2. \A e \in Elements(s) : e \in AppData
  BY ElementsGood DEF GoodElements
<1>3. r.changed \/ View(r.list) = View(s)
  <2>1. r.changed \/ LooksSame(s, r.list)
    BY LookedAtLooksSame, GivenUpLooksSame
  <2> QED
    BY <2>1, SameLook
<1>4. ASSUME ~r.changed, NEW e \in Elements(r.list), e.iIsPresent \in {"ESuperseded", "ENotPresent"}
      PROVE  ToBeChanged(s)
  <2>1. CASE IsAdded(s, f, r)
    BY <1>4, <2>1 DEF IsAdded
  <2>2. CASE IsIgnored(s, f, r)
    BY <1>4, <2>2 DEF IsIgnored, ToBeChanged
  <2>3. CASE IsSuperseded(s, f, r)
    BY <1>4, <2>3 DEF IsSuperseded
  <2>4. CASE IsRefreshed(s, f, r)
    <3>1. PICK g \in Elements(s) : Elements(r.list) = (Elements(s) \ {g}) \cup {Refreshed(g)}
      BY <2>4 DEF IsRefreshed
    <3>2. Refreshed(g).iIsPresent = "EIsPresent"
      BY <1>2, <3>1 DEF Refreshed, Update, AppData
    <3> QED
      BY <1>4, <3>1, <3>2 DEF ToBeChanged
  <2>5. CASE IsGivenUp(s, r)
    <3>1. PICK g \in Elements(s) :
             IsPending(g) /\ Elements(r.list) = (Elements(s) \ {g}) \cup {Unreplaced(g)}
      BY <2>5 DEF IsGivenUp
    <3>2. Unreplaced(g).iIsPresent = g.iIsPresent
      BY <1>2, <3>1 DEF Unreplaced, AppData
    <3> QED
      BY <1>4, <3>1, <3>2 DEF ToBeChanged
  <2> QED
    BY <2>1, <2>2, <2>3, <2>4, <2>5 DEF IsLookedAt
<1> QED
  BY <1>1, <1>3, <1>4 DEF ToBeChanged, new

(* A step of a scan, failing or not, that changes the list sets the flag.    *)
LEMMA IdleUpdateTold ==
    ASSUME World, "PurgeFails" \notin Happens, NEW s, GoodList(s), NEW fin \in Finder, NEW r \in IdleUpdate(s, fin),
           NEW fl, ToBeChanged(s) => WillTell(fl)
    PROVE  /\ WillTell(fl \cup FlagChange(r.changed)) \/ View(r.list) = View(s)
           /\ r.more /\ ToBeChanged(r.list) => WillTell(fl \cup FlagChange(r.changed))
<1> DEFINE new == fl \cup FlagChange(r.changed)
<1>1. (WillTell(fl) => WillTell(new)) /\ (r.changed => WillTell(new))
  BY DEF WillTell, FlagChange
<1> HIDE DEF new
<1>2. s \in Seq(AppData) /\ \A e \in Elements(s) : e \in AppData
  BY ElementsGood DEF GoodElements, GoodList
<1>3. CASE IsFinished(s, fin, r)
  <2>1. r.more = FALSE /\ r.changed = AnyPending(s)
    BY <1>3 DEF IsFinished
  <2>2. CASE ~AnyPending(s) /\ ~ToBeChanged(s)
    <3>1. LooksSame(s, r.list)
      BY <1>3, <2>2, FinishedLooksSame DEF ToBeChanged, IsFinished
    <3> QED
      BY <2>1, <3>1, SameLook
  <2>3. CASE AnyPending(s) \/ ToBeChanged(s)
    <3>1. AnyPending(s) => r.changed
      BY <2>1, Zenon
    <3>2. WillTell(new)
      BY <1>1, <2>3, <3>1, Zenon
    <3> QED
      BY <3>2 DEF new
  <2> QED
    BY <2>2, <2>3
<1>4. ASSUME NEW f \in Listing(fin).files, IsLookedAt(s, f, r)
      PROVE  /\ WillTell(new) \/ View(r.list) = View(s)
             /\ ToBeChanged(r.list) => WillTell(new)
  <2>1. f \in Files
    BY <1>4, ListingType DEF Finder
  <2> QED
    BY <1>4, <2>1, LookTold DEF new
<1>5. CASE IsLeft(s, r)
  <2>1. r.more = FALSE
    BY <1>5 DEF IsLeft
  <2>2. CASE r.list = s
    BY <2>1, <2>2
  <2>3. ASSUME NEW q, IsGivenUp(s, q), r.list = SetNotFound(q.list)
        PROVE  View(r.list) = View(s)
    <3> DEFINE t == q.list
    <3>1. LooksSame(s, t)
      BY <2>3, GivenUpLooksSame
    <3>2. \A e \in Elements(t) : e \in AppData
      <4>1. PICK e \in Elements(s) : Elements(t) = (Elements(s) \ {e}) \cup {Unreplaced(e)}
        BY <2>3 DEF IsGivenUp
      <4>2. Unreplaced(e) \in AppData
        BY <1>2, <4>1 DEF Unreplaced, AppData
      <4> QED
        BY <1>2, <4>1, <4>2
    <3> HIDE DEF t
    <3>3. \A e \in Elements(t) : Alike(e, NotFound(e))
      BY <3>2, MarkedElement DEF Alike, Stored
    <3>4. LooksSame(t, SetNotFound(t))
      BY <3>3, ElementsMarked DEF LooksSame
    <3>5. LooksSame(s, SetNotFound(t))
      BY <3>1, <3>4, LooksSameOn
    <3> QED
      BY <2>3, <3>5, SameLook DEF t
  <2>4. r.list = s \/ \E q : IsGivenUp(s, q) /\ r.list = SetNotFound(q.list)
    BY <1>5 DEF IsLeft
  <2> QED
    BY <2>1, <2>2, <2>3, <2>4
<1> QED
  BY <1>3, <1>4, <1>5, IdleUpdateLooks DEF new

(* The list is initiated to be stored: first the observer is told.           *)
LEMMA InitiateStoringTold ==
    ASSUME NEW s, NEW fl, NEW observer, observer = TRUE, InitiateStoring(s, fl, observer),
           iAppData' = s, ~iAppIdler', phase' = "Up", iAppIconLoader' = Off, ~iLangNotifier',
           Remember, WillTell(fl) \/ (~untold /\ View(iAppData) = View(s))
    PROVE  Told'
<1>1. calls' = ObserverCalls(TRUE, fl) /\ ~WillTell(iFlags')
  BY DEF InitiateStoring, WillTell
<1>2. WillTell(fl) => "EAppListChanged" \in calls'
  BY <1>1 DEF ObserverCalls, WillTell
<1>3. ~untold'
  <2>1. "EAppListChanged" \in calls' \/ (~untold /\ View(iAppData') = View(iAppData))
    BY <1>2
  <2> QED
    BY <2>1, Zenon DEF Remember
<1> QED
  BY <1>1, <1>3 DEF Told, Scanning, WillTell

(* What follows a scan.                                                      *)
LEMMA AfterScanTold ==
    ASSUME World, "LoaderFails" \notin Happens, NEW s, GoodList(s), NEW gone, NEW fl, NEW observer, observer = TRUE,
           AfterScan(s, gone, fl, observer),
           iAppData' = s, ~iAppIdler', phase' = "Up", ~iLangNotifier',
           Remember, WillTell(fl) \/ (~untold /\ View(iAppData) = View(s))
    PROVE  Told'
<1>1. CASE iLoadMbmIconsOnDemand
  <2>1. iAppIconLoader' = Off /\ InitiateStoring(s, fl, observer)
    BY <1>1, Zenon DEF AfterScan
  <2> QED
    BY <2>1, InitiateStoringTold
<1>2. CASE ~iLoadMbmIconsOnDemand
  <2>1. iAppIconLoader' \in IconLoaders(s) /\ iFlags' = fl /\ iObserver' = TRUE
    BY <1>2, Zenon DEF AfterScan
  <2>2. iAppIconLoader' # Off
    BY <2>1, WalkType, NullAssumption DEF GoodList, IconLoaders
  <2>3. untold' => WillTell(iFlags')
    BY <2>1, Zenon DEF Remember
  <2> QED
    BY <2>1, <2>2, <2>3 DEF Told, Scanning, WillTell
<1> QED
  BY <1>1, <1>2

(* Every step leaves it so that what is untold will be told.                 *)
LEMMA NextTold ==
    ASSUME {"StartFails", "PurgeFails", "LoaderFails", "RestartScan", "Language"} \cap Happens = {}, ListInv, Told, [Next]_vars
    PROVE  Told'
<1>0. /\ World /\ GoodList(iAppData) /\ iAppData \in Seq(AppData) /\ iAppRegFinder \in Finder
      /\ OneAtWork /\ "StartFails" \notin Happens /\ "RestartScan" \notin Happens
      /\ "PurgeFails" \notin Happens /\ "LoaderFails" \notin Happens /\ ~idlerUnstarted
      /\ "Language" \notin Happens /\ ~iLangNotifier
      /\ iObserver \in BOOLEAN
  BY DEF ListInv, OneAtWork, TypeOK, World, Finder, GoodList, Told
<1>a. ASSUME Remember, phase' # "Down", ~iLangNotifier',
             \/ WillTell(iFlags')
             \/ ~untold /\ View(iAppData') = View(iAppData),
             iAppIdler' \/ phase' = "Restoring",
             phase' = "Up" => iObserver',
             ToBeChanged(iAppData') => WillTell(iFlags')
      PROVE  Told'
  <2>1. untold' => WillTell(iFlags')
    BY <1>a, Zenon DEF Remember
  <2>2. ToBeChanged(iAppData)' => WillTell(iFlags')
    BY <1>a DEF ToBeChanged, Elements
  <2> QED
    BY <1>a, <2>1, <2>2 DEF Told, WillTell
<1>d. ASSUME Remember, UNCHANGED <<phase, iAppData, iFlags, iAppIdler, iObserver, iLangNotifier>>,
             iAppIconLoader' = iAppIconLoader \/ (iAppIconLoader # Off /\ iAppIconLoader' # Off),
             rescanDue => rescanDue'
      PROVE  Told'
  <2>1. untold' => untold /\ phase' # "Down"
    BY <1>d, Zenon DEF Remember
  <2>2. ToBeChanged(iAppData)' => ToBeChanged(iAppData)
    BY <1>d DEF ToBeChanged, Elements
  <2> QED
    BY <1>d, <2>1, <2>2 DEF Told, WillTell, Scanning
<1>e. ASSUME UNCHANGED <<untold, phase, iAppData, iFlags, iAppIdler, iObserver, iLangNotifier,
                        iAppIconLoader, rescanDue>>
      PROVE  Told'
  <2>1. ToBeChanged(iAppData)' => ToBeChanged(iAppData)
    BY <1>e DEF ToBeChanged, Elements
  <2> QED
    BY <1>e, <2>1 DEF Told, WillTell, Scanning
<1>n. ASSUME Remember, phase' = "Down", iAppData' = <<>>, ~iLangNotifier'
      PROVE  Told'
  <2>1. ~untold'
    BY <1>n, Zenon DEF Remember
  <2> QED
    BY <1>0, <1>n, <2>1 DEF Told, Scanning, OneAtWork, ToBeChanged, Elements
<1>r. \A r \in IdleUpdate(iAppData, iAppRegFinder) : \A fl :
        (ToBeChanged(iAppData) => WillTell(fl)) =>
          /\ GoodList(r.list)
          /\ \/ WillTell(fl \cup FlagChange(r.changed))
             \/ View(r.list) = View(iAppData)
          /\ r.more /\ ToBeChanged(r.list) => WillTell(fl \cup FlagChange(r.changed))
  <2>1. ASSUME NEW r \in IdleUpdate(iAppData, iAppRegFinder), NEW fl,
               ToBeChanged(iAppData) => WillTell(fl)
        PROVE  /\ GoodList(r.list)
               /\ \/ WillTell(fl \cup FlagChange(r.changed))
                  \/ View(r.list) = View(iAppData)
               /\ r.more /\ ToBeChanged(r.list) => WillTell(fl \cup FlagChange(r.changed))
    <3>1. GoodList(r.list)
      BY <1>0, IdleUpdateGood DEF GoodResult
    <3> QED
      BY <1>0, <2>1, <3>1, IdleUpdateTold
  <2> QED
    BY <2>1
<1>l. \A fl, c : WillTell(fl) =>
        WillTell(fl \cup FlagChange(c)) /\ WillTell((fl \cup FlagChange(c)) \ {"ELangChangePending"})
  BY DEF WillTell
<1>m. \A fl : WillTell(fl) => WillTell(fl \ {"ELangChangePending"})
  BY DEF WillTell
<1>1. CASE UpdateApps
  <2>1. /\ phase = "Up" /\ phase' = "Up" /\ iObserver' = TRUE /\ Remember
        /\ iLangNotifier' = iLangNotifier /\ StartScan(iAppData, {}, iFlags)
    BY <1>0, <1>1, Zenon DEF UpdateApps, StartScanFails
  <2>2. iAppData' = SetPending(iAppData, Files) /\ iAppIdler' = TRUE /\ iFlags' = iFlags
    BY <2>1 DEF StartScan
  <2>3. View(iAppData') = View(iAppData)
    BY <1>0, <2>2, MarkedLooksSame, SameLook
  <2>4. ~ToBeChanged(iAppData')
    <3>1. ASSUME NEW e \in Elements(SetPending(iAppData, Files)) PROVE IsPending(e)
      <4>0. Elements(SetPending(iAppData, Files)) = {Pended(g, Files) : g \in Elements(iAppData)}
        BY ElementsMarked
      <4>1. PICK g \in Elements(iAppData) : e = Pended(g, Files)
        BY <3>1, <4>0
      <4>2. g \in AppData /\ g.file \in Files
        BY <1>0, ElementsGood DEF GoodElements, AppData
      <4> QED
        BY <4>1, <4>2, MarkedElement
    <3> QED
      BY <2>2, <3>1 DEF ToBeChanged, IsPending
  <2>5. untold => WillTell(iFlags')
    BY <2>2 DEF Told
  <2> QED
    BY <1>0, <1>a, <2>1, <2>2, <2>3, <2>4, <2>5
<1>2. CASE LangChangeRunL
  BY <1>0, <1>2 DEF LangChangeRunL
<1>3. CASE ScanStep
  <2>1. PICK r \in IdleUpdate(iAppData, iAppRegFinder) :
           /\ iAppData' = r.list /\ iAppIdler' = r.more
           /\ \/ /\ r.more
                 /\ iFlags' = iFlags \cup FlagChange(r.changed)
                 /\ iObserver' = iObserver
              \/ /\ ~r.more
                 /\ AfterScan(r.list, r.gone,
                              (iFlags \cup FlagChange(r.changed)) \ {"ELangChangePending"}, iObserver)
    BY <1>3, Zenon DEF ScanStep
  <2>2. /\ phase = "Up" /\ phase' = "Up" /\ iAppIdler /\ Remember /\ iLangNotifier' = iLangNotifier
    BY <1>3, Zenon DEF ScanStep, worldVars
  <2>3. iObserver = TRUE /\ (ToBeChanged(iAppData) => WillTell(iFlags))
    BY <1>0, <2>2 DEF Told, Scanning
  <2> DEFINE new == iFlags \cup FlagChange(r.changed)
  <2>4. /\ GoodList(r.list)
        /\ WillTell(new) \/ View(r.list) = View(iAppData)
        /\ r.more /\ ToBeChanged(r.list) => WillTell(new)
    BY <1>r, <2>3
  <2>5. untold => WillTell(new)
    BY <1>l DEF Told
  <2> HIDE DEF new
  <2>6. WillTell(new) \/ (~untold /\ View(r.list) = View(iAppData))
    BY <2>4, <2>5
  <2>7. CASE r.more /\ iFlags' = new /\ iObserver' = iObserver
    BY <1>0, <1>a, <2>1, <2>2, <2>3, <2>4, <2>6, <2>7
  <2>8. CASE ~r.more /\ AfterScan(r.list, r.gone, new \ {"ELangChangePending"}, iObserver)
    <3>1. WillTell(new \ {"ELangChangePending"}) \/ (~untold /\ View(iAppData) = View(r.list))
      BY <1>m, <2>6
    <3>2. ~iAppIdler' /\ ~iLangNotifier'
      BY <1>0, <2>1, <2>2, <2>8
    <3> QED
      BY <1>0, <2>1, <2>2, <2>3, <2>4, <2>8, <3>1, <3>2, AfterScanTold
  <2> QED
    BY <2>1, <2>7, <2>8 DEF new
<1>4. CASE ScanStepLeaves
  <2>1. /\ phase = "Up" /\ iAppIdler /\ "ENotifyUpdateOnFirstScanComplete" \in iFlags
        /\ UNCHANGED <<phase, iFlags, iObserver, iAppIdler, iLangNotifier>> /\ Remember
    BY <1>4, Zenon DEF ScanStepLeaves, worldVars
  <2>2. WillTell(iFlags') /\ iObserver'
    BY <2>1 DEF WillTell, Told
  <2> QED
    BY <1>0, <1>a, <2>1, <2>2
<1>5. CASE LoadIcons
  <2>1. iAppIconLoader # Off /\ iAppIconLoader' # Off
    BY <1>0, <1>5, WalkType, NullAssumption DEF LoadIcons
  <2>2. /\ UNCHANGED <<phase, iAppData, iFlags, iAppIdler, iObserver, iLangNotifier, rescanDue>>
        /\ Remember
    BY <1>5, Zenon DEF LoadIcons, listVars, scanVars, worldVars
  <2> QED
    BY <1>d, <2>1, <2>2
<1>6. CASE IconsLoaded
  <2>1. /\ phase = "Up" /\ phase' = "Up" /\ iAppIconLoader = Null /\ iAppIconLoader' = Off
        /\ InitiateStoring(iAppData, iFlags, iObserver) /\ Remember
        /\ UNCHANGED <<iAppData, iAppIdler, iLangNotifier>>
    BY <1>6, Zenon DEF IconsLoaded, scanVars, worldVars
  <2>2. iAppIconLoader # Off
    BY <2>1, NullAssumption
  <2>3. ~iAppIdler' /\ ~iLangNotifier' /\ iObserver = TRUE
    BY <1>0, <2>1, <2>2 DEF OneAtWork, Told
  <2>4. WillTell(iFlags) \/ ~untold
    BY DEF Told
  <2> QED
    BY <2>1, <2>3, <2>4, InitiateStoringTold
<1>7. CASE StoreEntry
  BY <1>7, <1>d, Zenon DEF StoreEntry, listVars, scanVars, worldVars
<1>8. CASE StoreDone
  BY <1>8, <1>d, Zenon DEF StoreDone, listVars, scanVars, worldVars
<1>9. CASE PowerOn
  <2>1. /\ phase = "Down" /\ ~iLangNotifier' /\ Remember
        /\ \/ /\ iFlags' = {"ENotifyUpdateOnFirstScanComplete"} /\ phase' = "Restoring"
           \/ ScanFromNothing({})
    BY <1>9 DEF PowerOn
  <2>2. iAppData = <<>> /\ ~untold
    BY <2>1 DEF Told
  <2>3. CASE iFlags' = {"ENotifyUpdateOnFirstScanComplete"} /\ phase' = "Restoring"
    <3>1. WillTell(iFlags')
      BY <2>3 DEF WillTell
    <3> QED
      BY <1>a, <2>1, <2>3, <3>1
  <2>4. CASE ScanFromNothing({})
    <3>1. phase' = "Up" /\ iAppIdler' = TRUE /\ iAppData' = <<>> /\ iObserver' = TRUE
      BY <1>0, <2>4 DEF ScanFromNothing
    <3>2. ~ToBeChanged(iAppData') /\ View(iAppData') = View(iAppData)
      BY <2>2, <3>1 DEF ToBeChanged, Elements
    <3> QED
      BY <1>a, <2>1, <2>2, <3>1, <3>2
  <2> QED
    BY <2>1, <2>3, <2>4
<1>10. CASE RestoreStep
  <2>1. phase = "Restoring" /\ ~iAppIdler /\ Remember /\ iLangNotifier' = iLangNotifier
    BY <1>0, <1>10 DEF RestoreStep, OneAtWork
  <2>2. PICK r \in IdleUpdate(iAppData, iAppRegFinder) :
           \/ ScanFromNothing({"ENotifyUpdateOnFirstScanComplete"})
           \/ /\ iAppData' = r.list /\ UNCHANGED <<iAppIdler, rescanOwed>>
              /\ \/ /\ r.more
                    /\ iFlags' = iFlags \cup FlagChange(r.changed)
                    /\ UNCHANGED <<cache, backup, iValidFirstAppData, iNNAInstallation,
                                   iObserver, afterVars, phase>>
                 \/ /\ phase' = "Up"
                    /\ AfterScan(r.list, r.gone, iFlags \cup FlagChange(r.changed), TRUE)
    BY <1>10, Zenon DEF RestoreStep
  <2>3. ToBeChanged(iAppData) => WillTell(iFlags)
    BY <2>1 DEF Told, Scanning
  <2> DEFINE new == iFlags \cup FlagChange(r.changed)
  <2>4. /\ GoodList(r.list)
        /\ WillTell(new) \/ View(r.list) = View(iAppData)
        /\ r.more /\ ToBeChanged(r.list) => WillTell(new)
    BY <1>r, <2>3
  <2>5. untold => WillTell(new)
    BY <1>l DEF Told
  <2> HIDE DEF new
  <2>6. WillTell(new) \/ (~untold /\ View(r.list) = View(iAppData))
    BY <2>4, <2>5
  <2>7. CASE ScanFromNothing({"ENotifyUpdateOnFirstScanComplete"})
    <3>1. /\ phase' = "Up" /\ iAppIdler' = TRUE /\ iObserver' = TRUE
          /\ iFlags' = {"ENotifyUpdateOnFirstScanComplete"}
      BY <1>0, <2>7 DEF ScanFromNothing
    <3>2. WillTell(iFlags')
      BY <3>1 DEF WillTell
    <3> QED
      BY <1>0, <1>a, <2>1, <3>1, <3>2
  <2>8. CASE r.more /\ iFlags' = new /\ phase' = phase /\ iAppData' = r.list
    BY <1>0, <1>a, <2>1, <2>4, <2>6, <2>8
  <2>9. CASE /\ phase' = "Up" /\ iAppData' = r.list /\ iAppIdler' = iAppIdler
             /\ AfterScan(r.list, r.gone, new, TRUE)
    <3>1. ~iAppIdler' /\ ~iLangNotifier'
      BY <1>0, <2>1, <2>9
    <3> QED
      BY <1>0, <2>1, <2>4, <2>6, <2>9, <3>1, AfterScanTold
  <2> QED
    BY <2>2, <2>7, <2>8, <2>9 DEF new
<1>11. CASE StoreFails
  BY <1>11, <1>d, Zenon DEF StoreFails, listVars, scanVars, worldVars
<1>12. CASE PowerLoss
  BY <1>0, <1>12, <1>n DEF PowerLoss
<1>13. CASE RestartScan
  BY <1>13, <1>0 DEF RestartScan
<1>14. CASE SpuriousChange
  BY <1>14, <1>d, Zenon DEF SpuriousChange, listVars, scanVars, afterVars
<1>15. ASSUME NEW nna \in BOOLEAN, StopScan(nna)
      PROVE  Told'
  <2>1. /\ iAppData' = UndoSetPending(iAppData) /\ ~iAppIdler' /\ phase = "Up" /\ phase' = "Up"
        /\ rescanDue' = (rescanDue \/ iAppIdler) /\ Remember
        /\ UNCHANGED <<iFlags, iObserver, iAppIconLoader, iLangNotifier>>
    BY <1>15 DEF StopScan, afterVars
  <2>2. View(iAppData') = View(iAppData)
    BY <1>0, <2>1, MarkedLooksSame, SameLook
  <2>3. untold' => untold
    BY <2>1, <2>2, Zenon DEF Remember
  <2> QED
    BY <2>1, <2>3 DEF Told, WillTell, Scanning
<1>16. ASSUME NEW u \in Uids, FindSpecificApp(u)
      PROVE  Told'
  <2>1. PICK f \in FirstRegistrations(u) : \E r \in UpdateNextApp(iAppData, f, iAppRegFinder) :
           iAppData' = r.list /\ iFlags' = iFlags \cup FlagChange(r.changed)
    BY <1>16, Zenon DEF FindSpecificApp
  <2>2. PICK r \in UpdateNextApp(iAppData, f, iAppRegFinder) :
           iAppData' = r.list /\ iFlags' = iFlags \cup FlagChange(r.changed)
    BY <2>1
  <2>3. /\ phase = "Up" /\ iAppIdler /\ Remember
        /\ UNCHANGED <<iAppIdler, phase, iObserver, iLangNotifier>>
    BY <1>0, <1>16, Zenon DEF FindSpecificApp, scanVars, worldVars
  <2>4. /\ iObserver /\ (ToBeChanged(iAppData) => WillTell(iFlags))
    BY <2>3 DEF Told, Scanning
  <2>5. f \in Files /\ (IsLookedAt(iAppData, f, r) \/ IsGivenUp(iAppData, r))
    <3>1. f \in Files
      BY FirstRegistrationsType
    <3> QED
      BY <1>0, <3>1, UpdateNextAppLooks
  <2>6. /\ WillTell(iFlags') \/ View(iAppData') = View(iAppData)
        /\ ToBeChanged(iAppData') => WillTell(iFlags')
    BY <1>0, <2>2, <2>4, <2>5, LookTold
  <2>7. untold => WillTell(iFlags')
    BY <1>l, <2>2 DEF Told
  <2> QED
    BY <1>0, <1>a, <2>3, <2>4, <2>6, <2>7
<1>17. ASSUME NEW f \in Files, NEW t \in Stamps \cup {Absent}, FsChange(f, t)
      PROVE  Told'
  <2>1. /\ UNCHANGED <<phase, iAppData, iFlags, iAppIdler, iObserver, iLangNotifier, iAppIconLoader>>
        /\ Remember
    BY <1>17, Zenon DEF FsChange, listVars, scanVars, afterVars
  <2>2. rescanDue => rescanDue'
    BY <1>17 DEF FsChange
  <2> QED
    BY <1>d, <2>1, <2>2
<1>18. ASSUME NEW l \in Languages, SetLanguage(l)
      PROVE  Told'
  BY <1>0, <1>18 DEF SetLanguage
<1>19. CASE UNCHANGED vars
  BY <1>19, <1>e, Zenon DEF vars, listVars, scanVars, afterVars, worldVars
<1> HIDE DEF Next
<1> QED
  BY StepCases, <1>1, <1>2, <1>3, <1>4, <1>5, <1>6, <1>7, <1>8, <1>9, <1>10, <1>11, <1>12,
     <1>13, <1>14, <1>15, <1>16, <1>17, <1>18, <1>19, Zenon

(* No change of the list goes unreported: once the server is at rest every   *)
(* change a client could have seen has been told to the observer; whatever   *)
(* fails to be read, found or stored, if the language stays, scans start,    *)
(* PurgeL finishes once begun and an icon loader can be created after it.    *)
THEOREM ChangesTold ==
    ASSUME {"StartFails", "PurgeFails", "LoaderFails", "RestartScan", "Language"} \cap Happens = {}
    PROVE  Spec => []ChangesAreTold
<1>1. Init => Told
  BY DEF Init, Told, Scanning, WillTell
<1>2. ListInv /\ Told /\ [Next]_vars => Told'
  BY NextTold
<1>3. ListInv /\ Told => ChangesAreTold
  BY DEF Told, ChangesAreTold, AtRest, Working
<1> QED
  BY <1>1, <1>2, <1>3, Invariance, PTL DEF Spec
=============================================================================
