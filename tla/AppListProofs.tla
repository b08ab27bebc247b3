----------------------------- MODULE AppListProofs -----------------------------
(***************************************************************************)
(* Safety of the application list, for any registration files in any       *)
(* directories, any languages, with or without icon loading, any number of *)
(* changes and power losses, and whatever may fail.                        *)
(***************************************************************************)
EXTENDS AppList, Integers, FiniteSetTheorems, SequenceTheorems, WellFoundedInduction, TLAPS

(* Entries of a list, in memory or in a file: each is of the application its *)
(* file registers, and no two are of one application.                        *)
OneEach(apps) ==
    /\ \A i \in DOMAIN apps : apps[i].uid = UidOf[apps[i].file]
    /\ \A i, j \in DOMAIN apps : apps[i].uid = apps[j].uid => i = j

(* A superseded element has the registration that will take its place, which *)
(* is of the same application.                                               *)
SuccessorsFit(s) ==
    \A i \in DOMAIN s : s[i].iIsPresent = "ESuperseded" =>
        s[i].iSuccessor \in Files /\ UidOf[s[i].iSuccessor] = s[i].uid

GoodList(s) == s \in Seq(AppData) /\ OneEach(s) /\ SuccessorsFit(s)

GoodFile(file) == file # NoFile => OneEach(file.apps)

(* What is stored so far is of other applications than the element the       *)
(* storer stands on and all that follow it, which is an element of the list. *)
StorerOn(storer, s) ==
    storer # Off =>
        /\ OneEach(storer.out)
        /\ storer.next \in Uids => \E i \in DOMAIN s : s[i].uid = storer.next
        /\ \A i \in DOMAIN s : s[i].uid = storer.next =>
             \A j \in DOMAIN s, k \in DOMAIN storer.out :
                i <= j => storer.out[k].uid # s[j].uid
StorerOnList == StorerOn(iAppListStorer, iAppData)

(* The idle scanner exists only while the server is up, and the workers are  *)
(* at work only when it does not.                                            *)
OneAtWork ==
    /\ phase # "Up" => ~iAppIdler /\ ~idlerUnstarted
    /\ iAppIconLoader # Off \/ iAppListStorer # Off => phase = "Up" /\ ~iAppIdler /\ ~idlerUnstarted
    /\ idlerUnstarted => ~iAppIdler /\ "StartFails" \in Happens

(* Until the first scan is complete there is an observer to hear of it.      *)
ObserverWaits ==
    "EFirstScanComplete" \in iFlags \/ iObserver \/ phase # "Up"
FirstScanNeedsServer == "EFirstScanComplete" \in iFlags => phase = "Up"

(* While the list is stored no backup is kept.                               *)
NoBackupWhileStoring == iAppListStorer # Off => backup = NoFile

(* The invariant.                                                            *)
ListInv ==
    /\ TypeOK
    /\ GoodList(iAppData) /\ GoodFile(cache) /\ GoodFile(backup)
    /\ StorerOnList
    /\ OneAtWork
    /\ ObserverWaits /\ FirstScanNeedsServer

----------------------------------------------------------------------------
(* Natural numbers, and the n-th element of a set of them.                   *)

(* Every set of natural numbers has a least one: finite sets have no         *)
(* infinite descent.                                                         *)
LEMMA LeastNat ==
    ASSUME NEW T \in SUBSET Nat, T # {}
    PROVE  \E x \in T : \A y \in T : x <= y
<1> DEFINE R == StrictSubsetOrdering(Nat)
           F == FiniteSubsetsOf(Nat)
           W == {0 .. x : x \in T}
<1>1. IsWellFoundedOn(R, F)
  BY FS_StrictSubsetOrderingWellFounded
<1>2. W \subseteq F
  <2> SUFFICES ASSUME NEW x \in T PROVE 0 .. x \in F
    OBVIOUS
  <2>1. IsFiniteSet(0 .. x)
    BY FS_Interval
  <2> QED
    BY <2>1 DEF FiniteSubsetsOf
<1>3. PICK w \in W : \A v \in W : <<v, w>> \notin R
  <2>1. W # {}
    OBVIOUS
  <2> HIDE DEF R, F, W
  <2> QED
    BY <1>1, <1>2, <2>1, WFMin, Zenon
<1>4. PICK x \in T : w = 0 .. x
  OBVIOUS
<1>5. SUFFICES ASSUME NEW y \in T, y < x PROVE FALSE
  OBVIOUS
<1>6. 0 .. y \subseteq 0 .. x /\ 0 .. y # 0 .. x
  <2>1. x \in 0 .. x /\ x \notin 0 .. y
    BY <1>5
  <2> QED
    BY <1>5, <2>1
<1>7. <<0 .. y, 0 .. x>> \in R
  BY <1>6 DEF StrictSubsetOrdering
<1> QED
  BY <1>3, <1>4, <1>7

(* How many elements of S are below i.                                       *)
Below(S, i) == {j \in S : j < i}
Rank(S, i) == Cardinality(Below(S, i))

(* There are fewer elements below one than in the set.                       *)
LEMMA RankType ==
    ASSUME NEW S \in SUBSET Nat, IsFiniteSet(S), NEW i \in S
    PROVE  /\ IsFiniteSet(Below(S, i))
           /\ Cardinality(S) \in Nat
           /\ Rank(S, i) \in 0 .. Cardinality(S) - 1
<1>2. IsFiniteSet(S)
  OBVIOUS
<1>3. Cardinality(S) \in Nat
  BY <1>2, FS_CardinalityType
<1>4. Below(S, i) \in SUBSET S /\ i \notin Below(S, i)
  BY DEF Below
<1>5. /\ IsFiniteSet(Below(S, i))
      /\ Cardinality(Below(S, i)) <= Cardinality(S)
      /\ Cardinality(Below(S, i)) # Cardinality(S)
  <2> HIDE DEF Below
  <2> QED
    BY <1>2, <1>4, FS_Subset
<1>6. Cardinality(Below(S, i)) \in Nat
  BY <1>5, FS_CardinalityType
<1> QED
  BY <1>2, <1>3, <1>5, <1>6 DEF Rank

(* A greater element has more below it.                                      *)
LEMMA RankGrows ==
    ASSUME NEW S \in SUBSET Nat, IsFiniteSet(S), NEW i \in S, NEW j \in S, i < j
    PROVE  Rank(S, i) < Rank(S, j)
<1>1. Below(S, i) \in SUBSET Below(S, j)
  <2> SUFFICES ASSUME NEW x \in S, x < i PROVE x < j
    BY DEF Below
  <2> x \in Int /\ i \in Int /\ j \in Int
    OBVIOUS
  <2> QED
    OBVIOUS
<1>2. i \in Below(S, j) /\ i \notin Below(S, i)
  BY DEF Below
<1>3. IsFiniteSet(Below(S, j)) /\ Rank(S, i) \in Nat /\ Rank(S, j) \in Nat
  BY RankType
<1>4. /\ Cardinality(Below(S, i)) <= Cardinality(Below(S, j))
      /\ Cardinality(Below(S, i)) # Cardinality(Below(S, j))
  BY <1>1, <1>2, <1>3, FS_Subset
<1> QED
  BY <1>3, <1>4 DEF Rank

(* The ranks of S are 0, 1, ... without a gap.                               *)
LEMMA EveryRank ==
    ASSUME NEW S \in SUBSET Nat, IsFiniteSet(S), NEW n \in Nat, n < Cardinality(S)
    PROVE  \E i \in S : Rank(S, i) = n
<1> DEFINE T == {k \in Nat : k < Cardinality(S) /\ \A i \in S : Rank(S, i) # k}
<1>1. SUFFICES T = {}
  OBVIOUS
<1>2. SUFFICES ASSUME T # {} PROVE FALSE
  OBVIOUS
<1>3. PICK k \in T : \A l \in T : k <= l
  <2> T \in SUBSET Nat
    OBVIOUS
  <2> HIDE DEF T
  <2> QED
    BY <1>2, LeastNat
<1>4. Cardinality(S) \in Nat
  BY FS_CardinalityType
<1>5. CASE k = 0
  <2>1. S # {}
    BY <1>4, <1>5, FS_EmptySet
  <2>2. PICK i \in S : \A j \in S : i <= j
    BY <2>1, LeastNat
  <2>3. Below(S, i) = {}
    <3> SUFFICES ASSUME NEW x \in S, x < i PROVE FALSE
      BY DEF Below
    <3> x \in Int /\ i \in Int
      OBVIOUS
    <3> QED
      BY <2>2
  <2>4. Rank(S, i) = 0
    BY <2>3, FS_EmptySet DEF Rank
  <2> QED
    BY <1>5, <2>4
<1>6. CASE k # 0
  <2>1. PICK i \in S : Rank(S, i) = k - 1
    <3>1. k - 1 \in Nat /\ k - 1 < Cardinality(S) /\ k - 1 \notin T
      BY <1>3, <1>4, <1>6
    <3> QED
      BY <3>1
  <2> DEFINE Rest == {j \in S : i < j}
  <2>2. Rest # {}
    <3>1. SUFFICES ASSUME Rest = {} PROVE FALSE
      OBVIOUS
    <3>2. S = Below(S, i) \cup {i}
      <4>1. S \subseteq Int
        OBVIOUS
      <4>2. \A x \in S : ~(i < x)
        BY <3>1
      <4>3. \A x \in S : x < i \/ x = i
        BY <4>1, <4>2
      <4> HIDE DEF Rest
      <4> QED
        BY <4>3 DEF Below
    <3>3. Cardinality(Below(S, i) \cup {i}) = Rank(S, i) + 1
      <4>1. IsFiniteSet(Below(S, i)) /\ i \notin Below(S, i)
        BY RankType DEF Below
      <4> QED
        BY <4>1, FS_AddElement DEF Rank
    <3>4. Cardinality(S) = k
      BY <2>1, <3>2, <3>3
    <3> QED
      BY <1>3, <3>4
  <2>3. PICK j \in Rest : \A l \in Rest : j <= l
    <3> Rest \in SUBSET Nat
      OBVIOUS
    <3> HIDE DEF Rest
    <3> QED
      BY <2>2, LeastNat
  <2>4. Below(S, j) = Below(S, i) \cup {i}
    <3>1. S \subseteq Int /\ j \in S /\ i < j
      BY <2>3
    <3>2. \A x \in S : i < x => j <= x
      BY <2>3
    <3>3. \A x \in S : x < j <=> x < i \/ x = i
      BY <3>1, <3>2
    <3> HIDE DEF Rest
    <3> QED
      BY <3>1, <3>3 DEF Below
  <2>5. Rank(S, j) = Rank(S, i) + 1
    <3>1. IsFiniteSet(Below(S, i)) /\ i \notin Below(S, i)
      BY RankType DEF Below
    <3> QED
      BY <2>4, <3>1, FS_AddElement DEF Rank
  <2>6. Rank(S, j) = k
    BY <2>1, <2>5
  <2> QED
    BY <2>6
<1> QED
  BY <1>5, <1>6

(* NthOf counts S upwards: it stays in S, grows, and misses nothing.         *)
LEMMA NthOfRank ==
    ASSUME NEW S \in SUBSET Nat, IsFiniteSet(S), NEW n \in 1 .. Cardinality(S)
    PROVE  NthOf(S, n) \in S /\ Rank(S, NthOf(S, n)) = n - 1
<1>1. n - 1 \in Nat /\ n - 1 < Cardinality(S)
  BY FS_CardinalityType
<1>2. \E i \in S : Rank(S, i) = n - 1
  BY <1>1, EveryRank
<1> QED
  BY <1>2 DEF NthOf, Rank, Below

(* Counting through a set is in its order...                                 *)
LEMMA NthOfGrows ==
    ASSUME NEW S \in SUBSET Nat, IsFiniteSet(S),
           NEW n \in 1 .. Cardinality(S), NEW l \in 1 .. Cardinality(S)
    PROVE  n < l <=> NthOf(S, n) < NthOf(S, l)
<1> DEFINE i == NthOf(S, n)
           j == NthOf(S, l)
<1>1. /\ i \in S /\ Rank(S, i) = n - 1
      /\ j \in S /\ Rank(S, j) = l - 1
  BY NthOfRank
<1> HIDE DEF i, j
<1>2. i \in Nat /\ j \in Nat
  BY <1>1
<1>3. i < j => n < l
  BY <1>1, RankGrows
<1>4. j < i => l < n
  BY <1>1, RankGrows
<1>5. i = j => n = l
  BY <1>1
<1> QED
  BY <1>2, <1>3, <1>4, <1>5 DEF i, j

(* ... and reaches every element.                                            *)
LEMMA NthOfReaches ==
    ASSUME NEW S \in SUBSET Nat, IsFiniteSet(S), NEW i \in S
    PROVE  \E n \in 1 .. Cardinality(S) : NthOf(S, n) = i
<1> DEFINE n == Rank(S, i) + 1
<1>1. n \in 1 .. Cardinality(S)
  BY RankType
<1> HIDE DEF n
<1> DEFINE j == NthOf(S, n)
<1>2. j \in S /\ Rank(S, j) = n - 1
  BY <1>1, NthOfRank
<1> HIDE DEF j
<1>3. Rank(S, i) = n - 1 /\ Rank(S, i) \in Int
  BY RankType DEF n
<1>4. i < j => FALSE
  BY <1>2, <1>3, RankGrows
<1>5. j < i => FALSE
  BY <1>2, <1>3, RankGrows
<1>6. j = i
  BY <1>2, <1>4, <1>5
<1> QED
  BY <1>1, <1>6 DEF j

----------------------------------------------------------------------------
(* The list.                                                                 *)

World == disk \in [Files -> Stamps \cup {Absent}] /\ language \in Languages

(* Elements are what they were but for their presence, so the list stays as  *)
(* good as it was.                                                           *)
SameElements(s, t) ==
    /\ t \in Seq(AppData) /\ DOMAIN t = DOMAIN s
    /\ \A i \in DOMAIN s :
         /\ t[i].uid = s[i].uid /\ t[i].file = s[i].file /\ t[i].stamp = s[i].stamp
         /\ t[i].iIsPresent = "ESuperseded" => t[i] = s[i]

(* A list whose elements only changed presence is as good as before.         *)
LEMMA SameElementsGood ==
    ASSUME NEW s, GoodList(s), NEW t, SameElements(s, t)
    PROVE  GoodList(t)
<1>1. OneEach(t)
  BY DEF GoodList, OneEach, SameElements
<1>2. SuccessorsFit(t)
  BY DEF GoodList, SuccessorsFit, SameElements
<1> QED
  BY <1>1, <1>2 DEF GoodList, SameElements

(* Some elements have another presence, none became superseded.              *)
Marked(s, t) ==
    /\ DOMAIN t = DOMAIN s /\ t = [i \in DOMAIN s |-> t[i]]
    /\ \A i \in DOMAIN s :
         t[i] = s[i] \/ \E p \in Presence \ {"ESuperseded"} : t[i] = [s[i] EXCEPT !.iIsPresent = p]

(* Marking elements keeps them what they were.                               *)
LEMMA MarkedSame ==
    ASSUME NEW s \in Seq(AppData), NEW t, Marked(s, t)
    PROVE  SameElements(s, t)
<1> USE DEF Marked
<1>1. ASSUME NEW i \in DOMAIN s
      PROVE  /\ t[i] \in AppData /\ t[i].uid = s[i].uid /\ t[i].file = s[i].file
             /\ t[i].stamp = s[i].stamp
             /\ t[i].iIsPresent = "ESuperseded" => t[i] = s[i]
  <2>1. s[i] \in AppData
    BY <1>1, ElementOfSeq
  <2>2. CASE t[i] = s[i]
    BY <2>1, <2>2
  <2>3. ASSUME NEW p \in Presence \ {"ESuperseded"}, t[i] = [s[i] EXCEPT !.iIsPresent = p]
        PROVE  /\ t[i] \in AppData /\ t[i].uid = s[i].uid /\ t[i].file = s[i].file
               /\ t[i].stamp = s[i].stamp
               /\ t[i].iIsPresent # "ESuperseded"
    BY <2>1, <2>3 DEF AppData, Presence
  <2> QED
    BY <1>1, <2>2, <2>3
<1>2. t \in Seq(AppData)
  <2>1. DOMAIN s = 1 .. Len(s) /\ Len(s) \in Nat
    BY LenProperties
  <2>2. t \in [1 .. Len(s) -> AppData]
    BY <1>1, <2>1
  <2> QED
    BY <2>1, <2>2, IsASeq
<1> QED
  BY <1>1, <1>2 DEF SameElements

(* So does making them pending,                                              *)
LEMMA SetPendingSame ==
    ASSUME NEW s \in Seq(AppData), NEW which PROVE SameElements(s, SetPending(s, which))
<1> DEFINE t == SetPending(s, which)
<1>1. DOMAIN t = DOMAIN s /\ t = [i \in DOMAIN s |-> t[i]]
  BY DEF SetPending
<1>2. ASSUME NEW i \in DOMAIN s
      PROVE  \/ t[i] = s[i]
             \/ \E p \in Presence \ {"ESuperseded"} : t[i] = [s[i] EXCEPT !.iIsPresent = p]
  <2>1. \E p \in {"ENotPresentPendingUpdate", "EPresentPendingUpdate"} :
           SetAppPending(s[i]) = [s[i] EXCEPT !.iIsPresent = p]
    BY DEF SetAppPending
  <2>2. t[i] = s[i] \/ t[i] = SetAppPending(s[i])
    BY <1>2 DEF SetPending
  <2> QED
    BY <2>1, <2>2 DEF Presence
<1>5. Marked(s, t)
  BY <1>1, <1>2 DEF Marked
<1> HIDE DEF t
<1>3. SameElements(s, t)
  BY <1>5, MarkedSame
<1> QED
  BY <1>3 DEF t

(* taking that back when a scan is stopped,                                  *)
LEMMA UndoSetPendingSame ==
    ASSUME NEW s \in Seq(AppData) PROVE SameElements(s, UndoSetPending(s))
<1> DEFINE t == UndoSetPending(s)
<1>1. DOMAIN t = DOMAIN s /\ t = [i \in DOMAIN s |-> t[i]]
  BY DEF UndoSetPending
<1>2. \A i \in DOMAIN s : t[i] = s[i] \/ t[i] = [s[i] EXCEPT !.iIsPresent = "EIsPresent"]
  BY DEF UndoSetPending
<1>3. "EIsPresent" \in Presence \ {"ESuperseded"}
  BY DEF Presence
<1>5. Marked(s, t)
  BY <1>1, <1>2, <1>3 DEF Marked
<1> HIDE DEF t
<1>4. SameElements(s, t)
  BY <1>5, MarkedSame
<1> QED
  BY <1>4 DEF t

(* and finding that they are gone.                                           *)
LEMMA SetNotFoundSame ==
    ASSUME NEW s \in Seq(AppData) PROVE SameElements(s, SetNotFound(s))
<1> DEFINE t == SetNotFound(s)
<1>1. DOMAIN t = DOMAIN s /\ t = [i \in DOMAIN s |-> t[i]]
  BY DEF SetNotFound
<1>2. \A i \in DOMAIN s : t[i] = s[i] \/ t[i] = [s[i] EXCEPT !.iIsPresent = "ENotPresent"]
  BY DEF SetNotFound
<1>3. "ENotPresent" \in Presence \ {"ESuperseded"}
  BY DEF Presence
<1>5. Marked(s, t)
  BY <1>1, <1>2, <1>3 DEF Marked
<1> HIDE DEF t
<1>4. SameElements(s, t)
  BY <1>5, MarkedSame
<1> QED
  BY <1>4 DEF t

(* An element as it is read from its registration file.                      *)
LEMMA NewAppType ==
    ASSUME World, NEW f \in Files
    PROVE  /\ NewApp(f) \in AppData
           /\ NewApp(f).uid = UidOf[f] /\ NewApp(f).file = f
           /\ NewApp(f).iIsPresent = "EIsPresent"
BY DEF World, NewApp, AppData, Presence, Uids

(* What PurgeL leaves: elements that were there or their successors, in the  *)
(* order they had; whatever it leaves out, no pointer points to.             *)
LEMMA PurgeKeeps ==
    ASSUME World, NEW s, GoodList(s), NEW p
    PROVE  /\ Kept(s, p) \in SUBSET Nat /\ IsFiniteSet(Kept(s, p)) /\ Kept(s, p) \subseteq DOMAIN s
           /\ Cardinality(Kept(s, p)) \in Nat
           /\ Len(Purge(s, p)) = Cardinality(Kept(s, p))
           /\ DOMAIN Purge(s, p) = 1 .. Cardinality(Kept(s, p))
           /\ \A n \in DOMAIN Purge(s, p) :
                /\ NthOf(Kept(s, p), n) \in DOMAIN s
                /\ Purge(s, p)[n] = Renewed(s[NthOf(Kept(s, p), n)], p)
                /\ Purge(s, p)[n] \in AppData
                /\ Purge(s, p)[n].uid = s[NthOf(Kept(s, p), n)].uid
                /\ Purge(s, p)[n].uid = UidOf[Purge(s, p)[n].file]
                /\ Purge(s, p)[n].iIsPresent = "ESuperseded" =>
                     Purge(s, p)[n].iSuccessor \in Files /\ UidOf[Purge(s, p)[n].iSuccessor] = Purge(s, p)[n].uid
<1>1. s \in Seq(AppData) /\ Len(s) \in Nat /\ DOMAIN s = 1 .. Len(s)
  BY LenProperties DEF GoodList
<1>2. Kept(s, p) \subseteq DOMAIN s
  BY DEF Kept
<1>3. IsFiniteSet(Kept(s, p))
  <2>1. IsFiniteSet(1 .. Len(s))
    BY <1>1, FS_Interval
  <2>2. Kept(s, p) \in SUBSET (1 .. Len(s))
    BY <1>1, <1>2
  <2> QED
    BY <2>1, <2>2, FS_Subset
<1>4. Cardinality(Kept(s, p)) \in Nat
  BY <1>3, FS_CardinalityType
<1>5. Kept(s, p) \in SUBSET Nat
  BY <1>1, <1>2
<1>6. DOMAIN Purge(s, p) = 1 .. Cardinality(Kept(s, p))
  BY DEF Purge
<1>7. ASSUME NEW n \in DOMAIN Purge(s, p)
      PROVE  /\ NthOf(Kept(s, p), n) \in DOMAIN s
             /\ Purge(s, p)[n] = Renewed(s[NthOf(Kept(s, p), n)], p)
             /\ Purge(s, p)[n] \in AppData
             /\ Purge(s, p)[n].uid = s[NthOf(Kept(s, p), n)].uid
             /\ Purge(s, p)[n].uid = UidOf[Purge(s, p)[n].file]
             /\ Purge(s, p)[n].iIsPresent = "ESuperseded" =>
                  Purge(s, p)[n].iSuccessor \in Files /\ UidOf[Purge(s, p)[n].iSuccessor] = Purge(s, p)[n].uid
  <2> DEFINE i == NthOf(Kept(s, p), n)
             a == s[i]
  <2>1. i \in DOMAIN s
    BY <1>2, <1>3, <1>5, <1>6, <1>7, NthOfRank
  <2>2. Purge(s, p)[n] = Renewed(a, p)
    BY <1>6, <1>7 DEF Purge
  <2>3. /\ a \in AppData /\ a.uid = UidOf[a.file]
        /\ a.iIsPresent = "ESuperseded" => a.iSuccessor \in Files /\ UidOf[a.iSuccessor] = a.uid
    BY <1>1, <2>1, ElementOfSeq DEF GoodList, OneEach, SuccessorsFit
  <2> HIDE DEF i, a
  <2>4. CASE Replaced(a, p)
    <3>1. a.iSuccessor \in Files /\ UidOf[a.iSuccessor] = a.uid
      BY <2>3, <2>4 DEF Replaced
    <3>2. Purge(s, p)[n] = NewApp(a.iSuccessor)
      BY <2>2, <2>4 DEF Renewed
    <3> QED
      BY <2>1, <2>2, <3>1, <3>2, NewAppType DEF i, a
  <2>5. CASE ~Replaced(a, p)
    BY <2>1, <2>2, <2>3, <2>5 DEF Renewed, i, a
  <2> QED
    BY <2>4, <2>5
<1>8. Len(Purge(s, p)) = Cardinality(Kept(s, p))
  <2>1. Purge(s, p) \in [1 .. Cardinality(Kept(s, p)) -> AppData]
    BY <1>6, <1>7 DEF Purge
  <2> QED
    BY <1>4, <1>6, <2>1, IsASeq, LenProperties
<1> QED
  BY <1>2, <1>3, <1>4, <1>5, <1>6, <1>7, <1>8

(* What PurgeL leaves is a good list.                                        *)
LEMMA PurgeGood ==
    ASSUME World, NEW s, GoodList(s), NEW p
    PROVE  GoodList(Purge(s, p))
<1> DEFINE t == Purge(s, p)
           m == Cardinality(Kept(s, p))
           at(n) == NthOf(Kept(s, p), n)
<1>1. t \in Seq(AppData)
  <2>1. t \in [1 .. m -> AppData] /\ m \in Nat
    BY PurgeKeeps DEF Purge
  <2> QED
    BY <2>1, IsASeq
<1>2. ASSUME NEW n \in DOMAIN t, NEW l \in DOMAIN t, t[n].uid = t[l].uid PROVE n = l
  <2>1. at(n) \in DOMAIN s /\ at(l) \in DOMAIN s /\ s[at(n)].uid = s[at(l)].uid
    BY <1>2, PurgeKeeps
  <2>2. at(n) = at(l)
    BY <2>1 DEF GoodList, OneEach
  <2>3. n \in 1 .. m /\ l \in 1 .. m /\ m \in Nat
    BY PurgeKeeps
  <2>4. /\ n < l <=> at(n) < at(l)
        /\ l < n <=> at(l) < at(n)
    BY <2>3, PurgeKeeps, NthOfGrows
  <2>5. ~(at(n) < at(n)) /\ at(n) \in Nat
    <3>1. at(n) \in Nat
      BY <2>1, LenProperties DEF GoodList
    <3> QED
      BY <3>1
  <2> HIDE DEF at
  <2> QED
    BY <2>2, <2>3, <2>4, <2>5
<1>3. OneEach(t)
  BY <1>2, PurgeKeeps DEF OneEach
<1>4. SuccessorsFit(t)
  BY PurgeKeeps DEF SuccessorsFit
<1> QED
  BY <1>1, <1>3, <1>4 DEF GoodList

(* An element that may still be pointed to is in the list PurgeL leaves.     *)
LEMMA PurgeFinds ==
    ASSUME World, NEW s, GoodList(s), NEW p, NEW i \in DOMAIN s, s[i].uid \notin PurgedUids(s, p)
    PROVE  \E n \in DOMAIN Purge(s, p) : NthOf(Kept(s, p), n) = i
<1>1. i \in Kept(s, p)
  <2>1. ~Purged(s[i], p) /\ ~Leaked(s, i, p)
    BY DEF PurgedUids
  <2> QED
    BY <2>1 DEF Kept, Purged
<1> QED
  BY <1>1, PurgeKeeps, NthOfReaches

----------------------------------------------------------------------------
(* One step of a scan.                                                       *)

Finder == [scope : SUBSET Files, dir : 0 .. Len(Dirs), files : SUBSET Files]

GoodResult(r) ==
    GoodList(r.list) /\ r.finder \in Finder /\ r.more \in BOOLEAN

(* Results are built from good parts.                                        *)
LEMMA ResultGood ==
    ASSUME NEW list, NEW changed, NEW gone, NEW fin \in Finder, NEW more \in BOOLEAN, NEW failed,
           GoodList(list)
    PROVE  GoodResult(Result(list, changed, gone, fin, more, failed))
BY Zenon DEF Result, GoodResult

(* The directories are numbered from one.                                    *)
LEMMA DirsType ==
    /\ Len(Dirs) \in Nat /\ DOMAIN Dirs = 1 .. Len(Dirs)
    /\ \A i \in DOMAIN Dirs : Dirs[i] \subseteq Files
BY FilesAssumption, LenProperties, ElementOfSeq

(* NextL stays within the directories and the files of the phone.            *)
LEMMA ListingType ==
    ASSUME NEW fin \in Finder
    PROVE  Listing(fin) \in Finder
<1> DEFINE later == {i \in DOMAIN Dirs : i > fin.dir /\ Listed(fin.scope, i) # {}}
<1>1. CASE fin.files # {}
  BY <1>1 DEF Listing
<1>2. CASE fin.files = {} /\ later = {}
  <2>1. Listing(fin) = [fin EXCEPT !.dir = Len(Dirs)]
    BY <1>2 DEF Listing, TheEnd
  <2>2. Len(Dirs) \in 0 .. Len(Dirs)
    BY DirsType
  <2> QED
    BY <2>1, <2>2 DEF Finder
<1>3. CASE fin.files = {} /\ later # {}
  <2> DEFINE i == CHOOSE j \in later : \A k \in later : j <= k
  <2>1. i \in later
    <3>1. later \in SUBSET Nat
      BY DirsType
    <3>2. \E j \in later : \A k \in later : j <= k
      <4> HIDE DEF later
      <4> QED
        BY <1>3, <3>1, LeastNat
    <3> QED
      BY <3>2
  <2>2. i \in 0 .. Len(Dirs) /\ Listed(fin.scope, i) \subseteq Files
    <3>1. i \in DOMAIN Dirs
      BY <2>1
    <3> HIDE DEF i
    <3>2. Dirs[i] \subseteq Files /\ i \in 0 .. Len(Dirs)
      BY <3>1, DirsType
    <3> QED
      BY <3>2 DEF Listed
  <2>3. Listing(fin) = [fin EXCEPT !.dir = i, !.files = Listed(fin.scope, i)]
    BY <1>3 DEF Listing
  <2> HIDE DEF i
  <2> QED
    BY <2>2, <2>3 DEF Finder
<1> QED
  BY <1>1, <1>2, <1>3

(* FindAndAddSpecificAppL finds registrations of what it looks for.          *)
LEMMA FirstRegistrationsType ==
    ASSUME NEW u
    PROVE  FirstRegistrations(u) \in SUBSET {f \in Files : UidOf[f] = u}
<1> DEFINE where == {i \in DOMAIN Dirs : \E f \in Listed(Files, i) : UidOf[f] = u}
           i == CHOOSE j \in where : \A k \in where : j <= k
<1>1. CASE where = {}
  BY <1>1 DEF FirstRegistrations
<1>2. CASE where # {}
  <2>1. FirstRegistrations(u) = {f \in Listed(Files, i) : UidOf[f] = u}
    BY <1>2 DEF FirstRegistrations
  <2> QED
    BY <2>1 DEF Listed
<1> QED
  BY <1>1, <1>2

(* An application that was not in the list is put at its head.               *)
LEMMA AddedGood ==
    ASSUME World, NEW s, GoodList(s), NEW f \in Files, AppDataByUid(s, UidOf[f]) = 0
    PROVE  GoodList(<<NewApp(f)>> \o s)
<1> DEFINE a == NewApp(f)
           t == <<a>> \o s
<1>1. /\ a \in AppData /\ a.uid = UidOf[f] /\ a.file = f /\ a.iIsPresent = "EIsPresent"
  BY NewAppType
<1> HIDE DEF a
<1>2. /\ s \in Seq(AppData) /\ Len(s) \in Nat /\ DOMAIN s = 1 .. Len(s)
  BY LenProperties DEF GoodList
<1>3. /\ t \in Seq(AppData) /\ DOMAIN t = 1 .. Len(s) + 1
      /\ t[1] = a /\ \A i \in 2 .. Len(s) + 1 : i - 1 \in DOMAIN s /\ t[i] = s[i - 1]
  BY <1>1, <1>2
<1>4. \A i \in DOMAIN s : s[i].uid # UidOf[f]
  <2>1. SUFFICES ASSUME \E i \in DOMAIN s : s[i].uid = UidOf[f] PROVE FALSE
    OBVIOUS
  <2>2. AppDataByUid(s, UidOf[f]) \in DOMAIN s
    BY <2>1 DEF AppDataByUid
  <2> QED
    BY <1>2, <2>2
<1> HIDE DEF t
<1>5. OneEach(t)
  <2>1. ASSUME NEW i \in DOMAIN t PROVE t[i].uid = UidOf[t[i].file]
    <3>1. CASE i = 1
      BY <1>1, <1>3, <3>1
    <3>2. CASE i # 1
      <4>1. i - 1 \in DOMAIN s /\ t[i] = s[i - 1]
        BY <1>2, <1>3, <2>1, <3>2
      <4> QED
        BY <4>1 DEF GoodList, OneEach
    <3> QED
      BY <3>1, <3>2
  <2>2. ASSUME NEW i \in DOMAIN t, NEW j \in DOMAIN t, t[i].uid = t[j].uid PROVE i = j
    <3>1. \A k \in DOMAIN t : k # 1 => k - 1 \in DOMAIN s /\ t[k] = s[k - 1] /\ t[k].uid # UidOf[f]
      BY <1>2, <1>3, <1>4
    <3>2. CASE i # 1 /\ j # 1
      <4>1. i - 1 = j - 1
        BY <2>2, <3>1, <3>2 DEF GoodList, OneEach
      <4> QED
        BY <1>2, <1>3, <4>1
    <3>3. CASE i = 1 \/ j = 1
      BY <1>1, <1>3, <2>2, <3>1, <3>3
    <3> QED
      BY <3>2, <3>3
  <2> QED
    BY <2>1, <2>2 DEF OneEach
<1>6. SuccessorsFit(t)
  <2> SUFFICES ASSUME NEW i \in DOMAIN t, t[i].iIsPresent = "ESuperseded"
               PROVE  t[i].iSuccessor \in Files /\ UidOf[t[i].iSuccessor] = t[i].uid
    BY DEF SuccessorsFit
  <2>1. i # 1
    BY <1>1, <1>3
  <2>2. i - 1 \in DOMAIN s /\ t[i] = s[i - 1]
    BY <1>2, <1>3, <2>1
  <2> QED
    BY <2>2 DEF GoodList, SuccessorsFit
<1> QED
  BY <1>3, <1>5, <1>6 DEF GoodList, t, a

(* One element is another of the same application and file, whose successor  *)
(* fits if it has one.                                                       *)
LEMMA ReplacedGood ==
    ASSUME NEW s, GoodList(s), NEW i \in DOMAIN s, NEW a \in AppData,
           a.uid = s[i].uid, a.file = s[i].file,
           a.iIsPresent = "ESuperseded" => a.iSuccessor \in Files /\ UidOf[a.iSuccessor] = a.uid
    PROVE  GoodList([s EXCEPT ![i] = a])
<1> DEFINE t == [s EXCEPT ![i] = a]
<1>1. /\ s \in Seq(AppData) /\ DOMAIN t = DOMAIN s
      /\ \A j \in DOMAIN s : t[j] = IF j = i THEN a ELSE s[j]
  BY DEF GoodList
<1>2. t \in Seq(AppData)
  BY <1>1, ExceptSeq
<1> HIDE DEF t
<1>3. OneEach(t)
  BY <1>1 DEF OneEach, GoodList
<1>4. SuccessorsFit(t)
  BY <1>1 DEF SuccessorsFit, GoodList
<1> QED
  BY <1>2, <1>3, <1>4 DEF GoodList, t

(* Every outcome of looking at one registration file leaves a good list.     *)
LEMMA UpdateNextAppGood ==
    ASSUME World, NEW s, GoodList(s), NEW f \in Files, NEW fin \in Finder,
           NEW r \in UpdateNextApp(s, f, fin)
    PROVE  GoodResult(r)
<1> DEFINE i == AppDataByUid(s, UidOf[f])
<1>1. s \in Seq(AppData) /\ Len(s) \in Nat /\ DOMAIN s = 1 .. Len(s)
  BY LenProperties DEF GoodList
<1>2. i # 0 => i \in DOMAIN s /\ s[i].uid = UidOf[f] /\ s[i] \in AppData
  <2>1. i # 0 => i \in DOMAIN s /\ s[i].uid = UidOf[f]
    BY DEF AppDataByUid
  <2> QED
    BY <1>1, <2>1, ElementOfSeq
<1>3. TRUE \in BOOLEAN /\ FALSE \in BOOLEAN
  OBVIOUS
<1>4. CASE i = 0
  <2>1. r \in AddApp(s, f, fin)
    BY <1>4 DEF UpdateNextApp
  <2>2. \/ r = Result(<<NewApp(f)>> \o s, TRUE, {}, fin, TRUE, FALSE)
        \/ r = Result(s, FALSE, {}, fin, TRUE, FALSE)
    BY <2>1, Zenon DEF AddApp
  <2>3. GoodList(<<NewApp(f)>> \o s)
    BY <1>4, AddedGood
  <2> QED
    BY <1>3, <2>2, <2>3, ResultGood, Zenon
<1>5. CASE i # 0 /\ ~IsPending(s[i])
  <2>1. r = Result(s, FALSE, {}, fin, TRUE, FALSE)
    BY <1>5 DEF UpdateNextApp
  <2> QED
    BY <1>3, <2>1, ResultGood, Zenon
<1>6. CASE i # 0 /\ IsPending(s[i]) /\ s[i].file # f
  <2> DEFINE a == [s[i] EXCEPT !.iSuccessor = f, !.iIsPresent = "ESuperseded"]
             b == [s[i] EXCEPT !.iSuccessor = Null]
  <2>1. \/ r = Result([s EXCEPT ![i] = a], TRUE, {}, fin, TRUE, FALSE)
        \/ r = Result([s EXCEPT ![i] = b], FALSE, {}, fin, FALSE, TRUE)
    <3>1. r \in Supersede(s, i, f, fin)
      BY <1>6 DEF UpdateNextApp
    <3>2. /\ [s EXCEPT ![i].iSuccessor = f, ![i].iIsPresent = "ESuperseded"] = [s EXCEPT ![i] = a]
          /\ [s EXCEPT ![i].iSuccessor = Null] = [s EXCEPT ![i] = b]
      BY <1>1, <1>2, <1>6 DEF AppData
    <3> QED
      BY <3>1, <3>2, Zenon DEF Supersede
  <2>2. /\ a \in AppData /\ a.uid = s[i].uid /\ a.file = s[i].file /\ a.iSuccessor = f
        /\ b \in AppData /\ b.uid = s[i].uid /\ b.file = s[i].file
        /\ b.iIsPresent # "ESuperseded"
    BY <1>2, <1>6 DEF AppData, Presence, IsPending
  <2> HIDE DEF a, b
  <2>3. GoodList([s EXCEPT ![i] = a]) /\ GoodList([s EXCEPT ![i] = b])
    BY <1>2, <1>6, <2>2, ReplacedGood
  <2> QED
    BY <1>3, <2>1, <2>3, ResultGood, Zenon
<1>7. CASE i # 0 /\ IsPending(s[i]) /\ s[i].file = f
  <2> DEFINE a == [Update(s[i]) EXCEPT !.iIsPresent = "EIsPresent"]
             changed == UpdateChanges(s[i]) \/ s[i].iIsPresent = "ENotPresentPendingUpdate"
  <2>1. r = Result([s EXCEPT ![i] = a], changed, {}, fin, TRUE, FALSE)
    BY <1>7, Zenon DEF UpdateNextApp, Refresh
  <2>2. a \in AppData /\ a.uid = s[i].uid /\ a.file = s[i].file /\ a.iIsPresent # "ESuperseded"
    BY <1>2, <1>7 DEF World, AppData, Presence, Update
  <2> HIDE DEF a, changed
  <2>3. GoodList([s EXCEPT ![i] = a])
    BY <1>2, <1>7, <2>2, ReplacedGood
  <2> QED
    BY <1>3, <2>1, <2>3, ResultGood, Zenon
<1> QED
  BY <1>4, <1>5, <1>6, <1>7

(* ... and so does every outcome of a step of the scan.                      *)
LEMMA IdleUpdateGood ==
    ASSUME World, NEW s, GoodList(s), NEW fin \in Finder, NEW r \in IdleUpdate(s, fin)
    PROVE  GoodResult(r)
<1> DEFINE l == Listing(fin)
<1>1. l \in Finder
  BY ListingType
<1> HIDE DEF l
<1>2. \/ r \in FinishScan(s, l)
      \/ \E f \in l.files : \E q \in UpdateNextApp(s, f, [l EXCEPT !.files = @ \ {f}]) :
            r = AbandonShip(q)
      \/ r = Result(s, FALSE, {}, [l EXCEPT !.files = {}], FALSE, TRUE)
  BY Zenon DEF IdleUpdate, l
<1>3. CASE r \in FinishScan(s, l)
  <2>1. GoodList(SetNotFound(s))
    BY SetNotFoundSame, SameElementsGood DEF GoodList
  <2>2. ASSUME NEW p PROVE GoodList(Purge(SetNotFound(s), p))
    BY <2>1, PurgeGood
  <2> DEFINE t == SetNotFound(s)
             cut(p) == Result(Purge(t, p), FALSE, PurgedUids(t, p), l, TRUE, TRUE)
             whole(p) == Result(Purge(t, p), AnyPending(s), PurgedUids(t, p), l, FALSE, FALSE)
  <2>3. (\E p \in WholePurges(t) : r = whole(p)) \/ (\E p \in CutPurges(t) : r = cut(p))
    BY <1>3, Zenon DEF FinishScan
  <2>4. ASSUME NEW p PROVE GoodResult(whole(p)) /\ GoodResult(cut(p))
    BY <1>1, <2>2, ResultGood, Zenon
  <2> QED
    BY <2>3, <2>4, Zenon
<1>4. ASSUME NEW f \in l.files, NEW q \in UpdateNextApp(s, f, [l EXCEPT !.files = @ \ {f}]),
             r = AbandonShip(q)
      PROVE  GoodResult(r)
  <2>1. f \in Files /\ [l EXCEPT !.files = @ \ {f}] \in Finder
    BY <1>1, <1>4 DEF Finder
  <2>2. GoodResult(q)
    BY <1>4, <2>1, UpdateNextAppGood
  <2>3. GoodList(SetNotFound(q.list))
    BY <2>2, SetNotFoundSame, SameElementsGood DEF GoodList, GoodResult
  <2>4. CASE ~q.failed
    BY <1>4, <2>2, <2>4 DEF AbandonShip
  <2>5. CASE q.failed
    <3>1. r = Result(SetNotFound(q.list), AnyPending(q.list), q.gone, q.finder, q.more, TRUE)
      BY <1>4, <2>5, Zenon DEF AbandonShip
    <3> QED
      BY <2>2, <2>3, <3>1, ResultGood, Zenon DEF GoodResult
  <2> QED
    BY <2>4, <2>5
<1>5. CASE r = Result(s, FALSE, {}, [l EXCEPT !.files = {}], FALSE, TRUE)
  <2>1. [l EXCEPT !.files = {}] \in Finder
    BY <1>1 DEF Finder
  <2> QED
    BY <1>5, <2>1, ResultGood, Zenon
<1> QED
  BY <1>2, <1>3, <1>4, <1>5

----------------------------------------------------------------------------
(* The server and the world, step by step.                                   *)

(* Every step is one of these.                                               *)
LEMMA StepCases ==
    ASSUME [Next]_vars
    PROVE  \/ UpdateApps \/ LangChangeRunL \/ ScanStep \/ ScanStepLeaves \/ LoadIcons
           \/ IconsLoaded \/ StoreEntry \/ StoreDone \/ PowerOn \/ RestoreStep \/ StoreFails
           \/ PowerLoss \/ RestartScan \/ SpuriousChange
           \/ \E nna \in BOOLEAN : StopScan(nna)
           \/ \E u \in Uids : FindSpecificApp(u)
           \/ \E f \in Files, t \in Stamps \cup {Absent} : FsChange(f, t)
           \/ \E l \in Languages : SetLanguage(l)
           \/ UNCHANGED vars
BY Zenon DEF Next, ServerStep

(* The list as it was stored, each element added at the head.                *)
LEMMA RestoredGood ==
    ASSUME NEW file \in ListFile, OneEach(file.apps)
    PROVE  GoodList(RestoredList(file))
<1> DEFINE app(r) == [uid |-> r.uid, file |-> r.file, stamp |-> r.stamp, lang |-> file.lang,
                      iIsPresent |-> "EIsPresent", iSuccessor |-> Null]
           s == [i \in DOMAIN file.apps |-> app(file.apps[i])]
           t == RestoredList(file)
           n == Len(file.apps)
<1>1. /\ file.apps \in Seq(StoredApp) /\ file.lang \in Languages
      /\ n \in Nat /\ DOMAIN file.apps = 1 .. n
  BY LenProperties DEF ListFile
<1>2. ASSUME NEW r \in StoredApp
      PROVE  /\ app(r) \in AppData /\ app(r).uid = r.uid /\ app(r).file = r.file
             /\ app(r).iIsPresent # "ESuperseded"
  BY <1>1 DEF StoredApp, AppData, Presence
<1>3. \A i \in 1 .. n : file.apps[i] \in StoredApp
  BY <1>1, ElementOfSeq
<1>4. s \in Seq(AppData) /\ Len(s) = n
  <2>1. s \in [1 .. n -> AppData]
    BY <1>1, <1>2, <1>3
  <2> HIDE DEF s
  <2> QED
    BY <1>1, <2>1, IsASeq, LenProperties
<1>5. t = [i \in 1 .. n |-> s[n - i + 1]]
  <2>1. t = Reverse(s)
    BY DEF RestoredList
  <2> QED
    BY <1>4, <2>1 DEF Reverse
<1>6. \A i \in 1 .. n : n - i + 1 \in 1 .. n /\ s[n - i + 1] = app(file.apps[n - i + 1])
  BY <1>1
<1> HIDE DEF s, t, app
<1>7. /\ DOMAIN t = 1 .. n
      /\ \A i \in 1 .. n :
            /\ n - i + 1 \in 1 .. n /\ t[i] \in AppData
            /\ t[i].uid = file.apps[n - i + 1].uid /\ t[i].file = file.apps[n - i + 1].file
            /\ t[i].iIsPresent # "ESuperseded"
  BY <1>2, <1>3, <1>5, <1>6
<1>8. t \in Seq(AppData)
  <2>1. t \in [1 .. n -> AppData]
    BY <1>5, <1>7
  <2> QED
    BY <1>1, <2>1, IsASeq
<1>9. OneEach(t)
  <2>1. /\ \A k \in 1 .. n : file.apps[k].uid = UidOf[file.apps[k].file]
        /\ \A k, l \in 1 .. n : file.apps[k].uid = file.apps[l].uid => k = l
    BY <1>1 DEF OneEach
  <2>2. ASSUME NEW i \in 1 .. n PROVE t[i].uid = UidOf[t[i].file]
    <3> DEFINE k == n - i + 1
    <3>1. k \in 1 .. n /\ t[i].uid = file.apps[k].uid /\ t[i].file = file.apps[k].file
      BY <1>7
    <3> HIDE DEF k
    <3> QED
      BY <2>1, <3>1
  <2>3. ASSUME NEW i \in 1 .. n, NEW j \in 1 .. n, t[i].uid = t[j].uid PROVE i = j
    <3> DEFINE k == n - i + 1
               l == n - j + 1
    <3>1. k \in 1 .. n /\ l \in 1 .. n /\ file.apps[k].uid = file.apps[l].uid
      BY <1>7, <2>3
    <3>2. k = l
      <4> HIDE DEF k, l
      <4> QED
        BY <2>1, <3>1
    <3>3. i \in Int /\ j \in Int /\ n \in Int
      BY <1>1
    <3> QED
      BY <3>2, <3>3
  <2> QED
    BY <1>7, <2>2, <2>3 DEF OneEach
<1>10. SuccessorsFit(t)
  BY <1>7 DEF SuccessorsFit
<1> QED
  BY <1>8, <1>9, <1>10 DEF GoodList, t

(* How far PurgeL may get.                                                   *)
Extents == WholePurges(iAppData) \cup CutPurges(iAppData)

(* What a step may make of the list.                                         *)
LEMMA ListSteps ==
    ASSUME [Next]_vars
    PROVE  \/ iAppData' = iAppData \/ iAppData' = <<>>
           \/ iAppData' = UndoSetPending(iAppData) \/ iAppData' = SetPending(iAppData, Files)
           \/ \E p \in Extents : iAppData' = Purge(iAppData, p)
           \/ \E p \in Extents : iAppData' = SetPending(Purge(iAppData, p), Files)
           \/ \E r \in IdleUpdate(iAppData, iAppRegFinder) : iAppData' = r.list
           \/ \E u \in Uids : \E f \in FirstRegistrations(u) :
                 \E r \in UpdateNextApp(iAppData, f, iAppRegFinder) : iAppData' = r.list
           \/ cache # NoFile /\ iAppData' = SetPending(RestoredList(cache), Removable)
<1>a. ASSUME NEW s, NEW gone, NEW fl, StartScan(s, gone, fl) \/ StartScanFails(s, gone, fl)
      PROVE  iAppData' = s \/ iAppData' = SetPending(s, Files)
  BY <1>a DEF StartScan, StartScanFails
<1>1. CASE UpdateApps
  BY <1>1, <1>a, Zenon DEF UpdateApps
<1>2. CASE LangChangeRunL
  BY <1>2, <1>a, Zenon DEF LangChangeRunL
<1>3. CASE ScanStep
  BY <1>3, Zenon DEF ScanStep
<1>4. CASE ScanStepLeaves
  BY <1>4, Zenon DEF ScanStepLeaves
<1>5. CASE LoadIcons
  BY <1>5 DEF LoadIcons, listVars
<1>6. CASE IconsLoaded
  BY <1>6 DEF IconsLoaded
<1>7. CASE StoreEntry
  BY <1>7 DEF StoreEntry, listVars
<1>8. CASE StoreDone
  BY <1>8 DEF StoreDone, listVars
<1>9. CASE PowerOn
  BY <1>9, Zenon DEF PowerOn, ScanFromNothing, Restorable
<1>10. CASE RestoreStep
  BY <1>10, Zenon DEF RestoreStep, ScanFromNothing
<1>11. CASE StoreFails
  BY <1>11 DEF StoreFails, listVars
<1>12. CASE PowerLoss
  BY <1>12, Zenon DEF PowerLoss
<1>13. CASE RestartScan
  <2>1. PICK p \in Extents :
           \/ StartScan(Purge(iAppData, p), PurgedUids(iAppData, p), iFlags)
           \/ StartScanFails(Purge(iAppData, p), PurgedUids(iAppData, p), iFlags)
    BY <1>13, Zenon DEF RestartScan, Extents
  <2> QED
    BY <1>a, <2>1
<1>14. CASE SpuriousChange
  BY <1>14 DEF SpuriousChange, listVars
<1>15. ASSUME NEW nna \in BOOLEAN, StopScan(nna) PROVE iAppData' = UndoSetPending(iAppData)
  BY <1>15, Zenon DEF StopScan
<1>16. ASSUME NEW u \in Uids, FindSpecificApp(u)
       PROVE  \E f \in FirstRegistrations(u) :
                 \E r \in UpdateNextApp(iAppData, f, iAppRegFinder) : iAppData' = r.list
  BY <1>16, Zenon DEF FindSpecificApp
<1>17. ASSUME NEW f \in Files, NEW t \in Stamps \cup {Absent}, FsChange(f, t)
       PROVE  iAppData' = iAppData
  BY <1>17 DEF FsChange, listVars
<1>18. ASSUME NEW l \in Languages, SetLanguage(l) PROVE iAppData' = iAppData
  BY <1>18 DEF SetLanguage, listVars
<1>19. CASE UNCHANGED vars
  BY <1>19 DEF vars, listVars
<1> HIDE DEF Next
<1> QED
  BY StepCases, <1>1, <1>2, <1>3, <1>4, <1>5, <1>6, <1>7, <1>8, <1>9, <1>10, <1>11, <1>12,
     <1>13, <1>14, <1>15, <1>16, <1>17, <1>18, <1>19, Zenon

(* Every step leaves a good list.                                            *)
LEMMA NextList ==
    ASSUME ListInv, [Next]_vars
    PROVE  GoodList(iAppData')
<1>1. /\ World /\ GoodList(iAppData) /\ iAppRegFinder \in Finder
      /\ cache # NoFile => cache \in ListFile /\ OneEach(cache.apps)
  BY DEF ListInv, TypeOK, World, Finder, GoodFile
<1>2. CASE iAppData' = <<>>
  BY <1>2 DEF GoodList, OneEach, SuccessorsFit
<1>3. ASSUME NEW p PROVE GoodList(Purge(iAppData, p))
  BY <1>1, <1>3, PurgeGood
<1>4. ASSUME NEW s, NEW which, GoodList(s) PROVE GoodList(SetPending(s, which))
  BY <1>4, SetPendingSame, SameElementsGood DEF GoodList
<1>5. GoodList(UndoSetPending(iAppData))
  BY <1>1, UndoSetPendingSame, SameElementsGood DEF GoodList
<1>6. ASSUME NEW r \in IdleUpdate(iAppData, iAppRegFinder) PROVE GoodList(r.list)
  BY <1>1, <1>6, IdleUpdateGood DEF GoodResult
<1>7. ASSUME NEW u \in Uids, NEW f \in FirstRegistrations(u),
             NEW r \in UpdateNextApp(iAppData, f, iAppRegFinder)
      PROVE  GoodList(r.list)
  <2>1. f \in Files
    BY <1>7, FirstRegistrationsType
  <2> QED
    BY <1>1, <1>7, <2>1, UpdateNextAppGood DEF GoodResult
<1>8. cache # NoFile => GoodList(SetPending(RestoredList(cache), Removable))
  BY <1>1, <1>4, RestoredGood
<1> QED
  BY <1>1, <1>2, <1>3, <1>4, <1>5, <1>6, <1>7, <1>8, ListSteps, Zenon

(* What PurgeL makes pointers dangle of are applications in the list.        *)
LEMMA PurgedUidsType ==
    ASSUME NEW s \in Seq(AppData), NEW p
    PROVE  PurgedUids(s, p) \subseteq Uids
<1>1. \A i \in DOMAIN s : s[i].uid \in Uids
  <2>1. \A i \in DOMAIN s : s[i] \in AppData
    BY ElementOfSeq, LenProperties
  <2> QED
    BY <2>1 DEF AppData
<1> QED
  BY <1>1 DEF PurgedUids

(* The scanner and the workers keep out of each other's way.                 *)
LEMMA NextAtWork ==
    ASSUME TypeOK, OneAtWork, [Next]_vars
    PROVE  OneAtWork'
<1>0. Off # Null /\ Off \notin Uids
  BY NullAssumption
<1>1. CASE UpdateApps
  <2>1. phase = "Up" /\ phase' = phase
    BY <1>1 DEF UpdateApps
  <2>2. CASE StartScan(iAppData, {}, iFlags)
    BY <2>1, <2>2 DEF StartScan, StopWorkers, OneAtWork
  <2>3. CASE StartScanFails(iAppData, {}, iFlags)
    BY <2>1, <2>3 DEF StartScanFails, StopWorkers, Repoint, OneAtWork
  <2> QED
    BY <1>1, <2>2, <2>3 DEF UpdateApps
<1>2. CASE LangChangeRunL
  BY <1>2 DEF LangChangeRunL, StartScan, StartScanFails, StopWorkers, Repoint, scanVars, afterVars,
            OneAtWork
<1>3. CASE ScanStep
  BY <1>3 DEF ScanStep, AfterScan, InitiateStoring, ScanComplete, KeepOrStore, worldVars,
     afterVars, OneAtWork
<1>4. CASE ScanStepLeaves
  BY <1>4 DEF ScanStepLeaves, diskVars, afterVars, worldVars, OneAtWork
<1>5. CASE LoadIcons
  BY <1>0, <1>5 DEF LoadIcons, scanVars, worldVars, OneAtWork
<1>6. CASE IconsLoaded
  BY <1>0, <1>6 DEF IconsLoaded, scanVars, worldVars, OneAtWork
<1>7. CASE StoreEntry
  BY <1>7 DEF StoreEntry, diskVars, listVars, scanVars, worldVars, OneAtWork
<1>8. CASE StoreDone
  BY <1>8 DEF StoreDone, listVars, scanVars, worldVars, OneAtWork
<1>9. CASE PowerOn
  <2>1. /\ phase' = "Up" \/ (~iAppIdler' /\ ~idlerUnstarted')
        /\ idlerUnstarted' => ~iAppIdler' /\ "StartFails" \in Happens
    <3>1. CASE UNCHANGED <<iAppIdler, idlerUnstarted>>
      BY <1>9, <3>1 DEF PowerOn, OneAtWork
    <3>2. CASE ScanFromNothing({})
      <4>1. phase' = "Up"
        BY <3>2 DEF ScanFromNothing
      <4>2. iAppIdler' => ~idlerUnstarted'
        <5>1. idlerUnstarted' \in (IF iAppIdler' THEN {FALSE} ELSE BOOLEAN)
          BY <3>2, Zenon DEF ScanFromNothing
        <5> QED
          BY <5>1
      <4>3. "StartFails" \notin Happens => iAppIdler'
        <5>1. iAppIdler' \in (IF "StartFails" \in Happens THEN BOOLEAN ELSE {TRUE})
          BY <3>2, Zenon DEF ScanFromNothing
        <5> QED
          BY <5>1
      <4> QED
        BY <4>1, <4>2, <4>3
    <3>3. UNCHANGED <<iAppIdler, idlerUnstarted>> \/ ScanFromNothing({})
      <4>1. CASE UNCHANGED <<iValidFirstAppData, iObserver, iAppIdler, idlerUnstarted, rescanOwed>>
        BY <4>1, Zenon
      <4> QED
        BY <1>9, <4>1, Zenon DEF PowerOn
    <3> QED
      BY <3>1, <3>2, <3>3
  <2>2. iAppIconLoader' = Off /\ iAppListStorer' = Off
    BY <1>9 DEF PowerOn, afterVars, OneAtWork
  <2> QED
    BY <2>1, <2>2 DEF OneAtWork
<1>10. CASE RestoreStep
  BY <1>10 DEF RestoreStep, ScanFromNothing, AfterScan, InitiateStoring, ScanComplete,
     KeepOrStore, afterVars, OneAtWork
<1>11. CASE StoreFails
  BY <1>11 DEF StoreFails, diskVars, listVars, scanVars, worldVars, OneAtWork
<1>12. CASE PowerLoss
  BY <1>12 DEF PowerLoss, diskVars, FindIn, OneAtWork
<1>13. CASE RestartScan
  <2>1. phase = "Up" /\ phase' = phase
    BY <1>13 DEF RestartScan
  <2>2. ASSUME NEW p, StartScan(Purge(iAppData, p), PurgedUids(iAppData, p), iFlags)
        PROVE  OneAtWork'
    BY <2>1, <2>2 DEF StartScan, StopWorkers, OneAtWork
  <2>3. ASSUME NEW p, StartScanFails(Purge(iAppData, p), PurgedUids(iAppData, p), iFlags)
        PROVE  OneAtWork'
    <3>1. Repoint(Off, PurgedUids(iAppData, p)) = Off
      BY <1>0, PurgedUidsType DEF TypeOK, Repoint
    <3> HIDE DEF TypeOK
    <3> QED
      BY <2>1, <2>3, <3>1 DEF StartScanFails, StopWorkers, OneAtWork
  <2> QED
    BY <1>13, <2>2, <2>3, Zenon DEF RestartScan
<1>14. CASE SpuriousChange
  BY <1>14 DEF SpuriousChange, diskVars, listVars, scanVars, afterVars, OneAtWork
<1>15. ASSUME NEW nna \in BOOLEAN, StopScan(nna)
      PROVE  OneAtWork'
  BY <1>15 DEF StopScan, diskVars, afterVars, OneAtWork
<1>16. ASSUME NEW u \in Uids, FindSpecificApp(u)
      PROVE  OneAtWork'
  BY <1>16 DEF FindSpecificApp, diskVars, scanVars, afterVars, worldVars, OneAtWork
<1>17. ASSUME NEW f \in Files, NEW t \in Stamps \cup {Absent}, FsChange(f, t)
      PROVE  OneAtWork'
  BY <1>17 DEF FsChange, listVars, scanVars, afterVars, OneAtWork
<1>18. ASSUME NEW l \in Languages, SetLanguage(l)
      PROVE  OneAtWork'
  BY <1>18 DEF SetLanguage, diskVars, listVars, scanVars, afterVars, OneAtWork
<1>19. CASE UNCHANGED vars
  BY <1>19 DEF vars, diskVars, listVars, scanVars, afterVars, worldVars, OneAtWork
<1> HIDE DEF Next
<1> QED
  BY StepCases, <1>1, <1>2, <1>3, <1>4, <1>5, <1>6, <1>7, <1>8, <1>9, <1>10, <1>11, <1>12,
     <1>13, <1>14, <1>15, <1>16, <1>17, <1>18, <1>19, Zenon

(* The observer of the first scan is kept until it is complete.              *)
LEMMA NextObserver ==
    ASSUME ObserverWaits, FirstScanNeedsServer, [Next]_vars
    PROVE  ObserverWaits' /\ FirstScanNeedsServer'
<1>1. CASE UpdateApps
  BY <1>1 DEF UpdateApps, MoveCacheAway, StartScan, StartScanFails, StopWorkers,
     ObserverWaits, FirstScanNeedsServer, FlagChange
<1>2. CASE LangChangeRunL
  BY <1>2 DEF LangChangeRunL, MoveCacheAway, LanguageScanObserver, StartScan, StartScanFails,
     StopWorkers, scanVars, afterVars, ObserverWaits, FirstScanNeedsServer, FlagChange
<1>3. CASE ScanStep
  BY <1>3 DEF ScanStep, AfterScan, InitiateStoring, ScanComplete, KeepOrStore, worldVars,
     afterVars, ObserverWaits, FirstScanNeedsServer, FlagChange
<1>4. CASE ScanStepLeaves
  BY <1>4 DEF ScanStepLeaves, diskVars, afterVars, worldVars, ObserverWaits,
     FirstScanNeedsServer, FlagChange
<1>5. CASE LoadIcons
  BY <1>5 DEF LoadIcons, diskVars, listVars, scanVars, worldVars, ObserverWaits,
     FirstScanNeedsServer, FlagChange
<1>6. CASE IconsLoaded
  BY <1>6 DEF IconsLoaded, InitiateStoring, ScanComplete, KeepOrStore, scanVars, worldVars,
     ObserverWaits, FirstScanNeedsServer, FlagChange
<1>7. CASE StoreEntry
  BY <1>7 DEF StoreEntry, diskVars, listVars, scanVars, worldVars, ObserverWaits,
     FirstScanNeedsServer, FlagChange
<1>8. CASE StoreDone
  BY <1>8 DEF StoreDone, listVars, scanVars, worldVars, ObserverWaits, FirstScanNeedsServer,
     FlagChange
<1>9. CASE PowerOn
  BY <1>9 DEF PowerOn, ScanFromNothing, afterVars, ObserverWaits, FirstScanNeedsServer,
     FlagChange
<1>10. CASE RestoreStep
  <2>1. "EFirstScanComplete" \notin iFlags
    BY <1>10 DEF RestoreStep, FirstScanNeedsServer
  <2>2. PICK r \in IdleUpdate(iAppData, iAppRegFinder) :
           \/ ScanFromNothing({"ENotifyUpdateOnFirstScanComplete"})
           \/ r.more /\ iFlags' = iFlags \cup FlagChange(r.changed) /\ UNCHANGED <<iObserver, phase>>
           \/ phase' = "Up" /\ AfterScan(r.list, r.gone, iFlags \cup FlagChange(r.changed), TRUE)
    BY <1>10, Zenon DEF RestoreStep
  <2>3. CASE ScanFromNothing({"ENotifyUpdateOnFirstScanComplete"})
    BY <2>3 DEF ScanFromNothing, ObserverWaits, FirstScanNeedsServer
  <2>4. CASE iFlags' = iFlags \cup FlagChange(r.changed) /\ UNCHANGED <<iObserver, phase>>
    BY <2>1, <2>4 DEF FlagChange, ObserverWaits, FirstScanNeedsServer
  <2>5. CASE phase' = "Up" /\ AfterScan(r.list, r.gone, iFlags \cup FlagChange(r.changed), TRUE)
    BY <2>5 DEF AfterScan, InitiateStoring, ObserverWaits, FirstScanNeedsServer
  <2> QED
    BY <2>2, <2>3, <2>4, <2>5
<1>11. CASE StoreFails
  BY <1>11 DEF StoreFails, diskVars, listVars, scanVars, worldVars, ObserverWaits,
     FirstScanNeedsServer, FlagChange
<1>12. CASE PowerLoss
  BY <1>12 DEF PowerLoss, diskVars, FindIn, ObserverWaits, FirstScanNeedsServer, FlagChange
<1>13. CASE RestartScan
  BY <1>13 DEF RestartScan, StartScan, StartScanFails, StopWorkers, diskVars, ObserverWaits,
     FirstScanNeedsServer, FlagChange
<1>14. CASE SpuriousChange
  BY <1>14 DEF SpuriousChange, diskVars, listVars, scanVars, afterVars, ObserverWaits,
     FirstScanNeedsServer, FlagChange
<1>15. ASSUME NEW nna \in BOOLEAN, StopScan(nna)
      PROVE  ObserverWaits' /\ FirstScanNeedsServer'
  BY <1>15 DEF StopScan, diskVars, afterVars, ObserverWaits, FirstScanNeedsServer, FlagChange
<1>16. ASSUME NEW u \in Uids, FindSpecificApp(u)
      PROVE  ObserverWaits' /\ FirstScanNeedsServer'
  BY <1>16 DEF FindSpecificApp, diskVars, scanVars, afterVars, worldVars, ObserverWaits,
     FirstScanNeedsServer, FlagChange
<1>17. ASSUME NEW f \in Files, NEW t \in Stamps \cup {Absent}, FsChange(f, t)
      PROVE  ObserverWaits' /\ FirstScanNeedsServer'
  BY <1>17 DEF FsChange, listVars, scanVars, afterVars, ObserverWaits, FirstScanNeedsServer,
     FlagChange
<1>18. ASSUME NEW l \in Languages, SetLanguage(l)
      PROVE  ObserverWaits' /\ FirstScanNeedsServer'
  BY <1>18 DEF SetLanguage, diskVars, listVars, scanVars, afterVars, ObserverWaits,
     FirstScanNeedsServer, FlagChange
<1>19. CASE UNCHANGED vars
  BY <1>19 DEF vars, diskVars, listVars, scanVars, afterVars, worldVars, ObserverWaits,
     FirstScanNeedsServer, FlagChange
<1> HIDE DEF Next
<1> QED
  BY StepCases, <1>1, <1>2, <1>3, <1>4, <1>5, <1>6, <1>7, <1>8, <1>9, <1>10, <1>11, <1>12,
     <1>13, <1>14, <1>15, <1>16, <1>17, <1>18, <1>19, Zenon

----------------------------------------------------------------------------
(* Types.                                                                    *)

Switches ==
    /\ iNNAInstallation \in BOOLEAN /\ iObserver \in BOOLEAN
    /\ iAppIdler \in BOOLEAN /\ idlerUnstarted \in BOOLEAN
    /\ iLangNotifier \in BOOLEAN /\ rescanOwed \in BOOLEAN /\ rescanDue \in BOOLEAN

Plain ==
    /\ disk \in [Files -> Stamps \cup {Absent}]
    /\ language \in Languages /\ iPrevLanguage \in Languages \cup {"ELangNone"}
    /\ phase \in {"Down", "Restoring", "Up"}
    /\ iFlags \subseteq Flags
    /\ calls \subseteq {"InitialListPopulationComplete", "EAppListChanged", "NotifyScanComplete"}
    /\ changes \in 0 .. MaxChanges /\ crashes \in 0 .. MaxCrashes

Places ==
    /\ iValidFirstAppData \in Pointers /\ iAppIconLoader \in Pointers \cup {Off}
    /\ iAppRegFinder \in Finder


(* What is on or off stays on or off.                                        *)
LEMMA NextSwitches ==
    ASSUME World, GoodList(iAppData), iAppRegFinder \in Finder, Switches, [Next]_vars
    PROVE  Switches'
<1>0. World /\ GoodList(iAppData) /\ iAppRegFinder \in Finder
  OBVIOUS
<1>1. CASE UpdateApps
  BY <1>1, Zenon DEF UpdateApps, MoveCacheAway, StartScan, StartScanFails, StopWorkers,
     Switches
<1>2. CASE LangChangeRunL
  BY <1>2, Zenon DEF LangChangeRunL, MoveCacheAway, LanguageScanObserver, StartScan,
     StartScanFails, StopWorkers, scanVars, afterVars, Switches
<1>3. CASE ScanStep
  <2>1. PICK r \in IdleUpdate(iAppData, iAppRegFinder) : iAppIdler' = r.more
    BY <1>3, Zenon DEF ScanStep
  <2>2. iAppIdler' \in BOOLEAN /\ idlerUnstarted' \in BOOLEAN
    BY <1>0, <1>3, <2>1, IdleUpdateGood DEF GoodResult, ScanStep, Switches
  <2>3. iNNAInstallation' \in BOOLEAN /\ iObserver' \in BOOLEAN
    BY <1>3, Zenon DEF ScanStep, AfterScan, InitiateStoring, ScanComplete, Switches
  <2>4. iLangNotifier' \in BOOLEAN /\ rescanOwed' \in BOOLEAN /\ rescanDue' \in BOOLEAN
    BY <1>3, Zenon DEF ScanStep, worldVars, Switches
  <2> QED
    BY <2>2, <2>3, <2>4 DEF Switches
<1>4. CASE ScanStepLeaves
  BY <1>4, Zenon DEF ScanStepLeaves, diskVars, afterVars, worldVars, Switches
<1>5. CASE LoadIcons
  BY <1>5, Zenon DEF LoadIcons, diskVars, listVars, scanVars, worldVars, Switches
<1>6. CASE IconsLoaded
  BY <1>6, Zenon DEF IconsLoaded, InitiateStoring, ScanComplete, KeepOrStore, scanVars,
     worldVars, Switches
<1>7. CASE StoreEntry
  BY <1>7, Zenon DEF StoreEntry, diskVars, listVars, scanVars, worldVars, Switches
<1>8. CASE StoreDone
  BY <1>8, Zenon DEF StoreDone, listVars, scanVars, worldVars, Switches
<1>9. CASE PowerOn
  BY <1>9, Zenon DEF PowerOn, ScanFromNothing, afterVars, Switches
<1>10. CASE RestoreStep
  BY <1>10, Zenon DEF RestoreStep, ScanFromNothing, AfterScan, InitiateStoring, ScanComplete,
     KeepOrStore, afterVars, Switches
<1>11. CASE StoreFails
  BY <1>11, Zenon DEF StoreFails, diskVars, listVars, scanVars, worldVars, Switches
<1>12. CASE PowerLoss
  BY <1>12, Zenon DEF PowerLoss, diskVars, FindIn, Switches
<1>13. CASE RestartScan
  BY <1>13, Zenon DEF RestartScan, StartScan, StartScanFails, StopWorkers, diskVars, Switches
<1>14. CASE SpuriousChange
  BY <1>14, Zenon DEF SpuriousChange, diskVars, listVars, scanVars, afterVars, Switches
<1>15. ASSUME NEW nna \in BOOLEAN, StopScan(nna)
      PROVE  Switches'
  BY <1>15, Zenon DEF StopScan, diskVars, afterVars, Switches
<1>16. ASSUME NEW u \in Uids, FindSpecificApp(u)
      PROVE  Switches'
  BY <1>16, Zenon DEF FindSpecificApp, diskVars, scanVars, afterVars, worldVars, Switches
<1>17. ASSUME NEW f \in Files, NEW t \in Stamps \cup {Absent}, FsChange(f, t)
      PROVE  Switches'
  BY <1>17, Zenon DEF FsChange, listVars, scanVars, afterVars, Switches
<1>18. ASSUME NEW l \in Languages, SetLanguage(l)
      PROVE  Switches'
  BY <1>18, Zenon DEF SetLanguage, diskVars, listVars, scanVars, afterVars, Switches
<1>19. CASE UNCHANGED vars
  BY <1>19, Zenon DEF vars, diskVars, listVars, scanVars, afterVars, worldVars, Switches
<1> HIDE DEF Next
<1> QED
  BY StepCases, <1>1, <1>2, <1>3, <1>4, <1>5, <1>6, <1>7, <1>8, <1>9, <1>10, <1>11, <1>12,
     <1>13, <1>14, <1>15, <1>16, <1>17, <1>18, <1>19, Zenon

(* The state that is no pointer and no list.                                 *)
LEMMA NextPlain ==
    ASSUME Plain, [Next]_vars
    PROVE  Plain'
<1>1. CASE UpdateApps
  BY <1>1 DEF UpdateApps, MoveCacheAway, StartScan, StartScanFails, StopWorkers, Plain,
     ObserverCalls, Flags, FlagChange
<1>2. CASE LangChangeRunL
  BY <1>2 DEF LangChangeRunL, MoveCacheAway, LanguageScanObserver, StartScan, StartScanFails,
     StopWorkers, scanVars, afterVars, Plain, ObserverCalls, Flags, FlagChange
<1>3. CASE ScanStep
  BY <1>3 DEF ScanStep, AfterScan, InitiateStoring, ScanComplete, KeepOrStore, worldVars,
     afterVars, Plain, ObserverCalls, Flags, FlagChange
<1>4. CASE ScanStepLeaves
  BY <1>4 DEF ScanStepLeaves, diskVars, afterVars, worldVars, Plain, ObserverCalls, Flags,
     FlagChange
<1>5. CASE LoadIcons
  BY <1>5 DEF LoadIcons, diskVars, listVars, scanVars, worldVars, Plain, ObserverCalls,
     Flags, FlagChange
<1>6. CASE IconsLoaded
  BY <1>6 DEF IconsLoaded, InitiateStoring, ScanComplete, KeepOrStore, scanVars, worldVars,
     Plain, ObserverCalls, Flags, FlagChange
<1>7. CASE StoreEntry
  BY <1>7 DEF StoreEntry, diskVars, listVars, scanVars, worldVars, Plain, ObserverCalls,
     Flags, FlagChange
<1>8. CASE StoreDone
  BY <1>8 DEF StoreDone, listVars, scanVars, worldVars, Plain, ObserverCalls, Flags,
     FlagChange
<1>9. CASE PowerOn
  BY <1>9 DEF PowerOn, ScanFromNothing, afterVars, Plain, ObserverCalls, Flags, FlagChange
<1>10. CASE RestoreStep
  BY <1>10 DEF RestoreStep, ScanFromNothing, AfterScan, InitiateStoring, ScanComplete,
     KeepOrStore, afterVars, Plain, ObserverCalls, Flags, FlagChange
<1>11. CASE StoreFails
  BY <1>11 DEF StoreFails, diskVars, listVars, scanVars, worldVars, Plain, ObserverCalls,
     Flags, FlagChange
<1>12. CASE PowerLoss
  BY <1>12, DataAssumption DEF PowerLoss, diskVars, Plain
<1>13. CASE RestartScan
  BY <1>13 DEF RestartScan, StartScan, StartScanFails, StopWorkers, diskVars, Plain,
     ObserverCalls, Flags, FlagChange
<1>14. CASE SpuriousChange
  BY <1>14, DataAssumption DEF SpuriousChange, diskVars, listVars, Plain
<1>15. ASSUME NEW nna \in BOOLEAN, StopScan(nna)
      PROVE  Plain'
  BY <1>15 DEF StopScan, diskVars, afterVars, Plain, ObserverCalls, Flags, FlagChange
<1>16. ASSUME NEW u \in Uids, FindSpecificApp(u)
      PROVE  Plain'
  BY <1>16 DEF FindSpecificApp, diskVars, scanVars, afterVars, worldVars, Plain,
     ObserverCalls, Flags, FlagChange
<1>17. ASSUME NEW f \in Files, NEW t \in Stamps \cup {Absent}, FsChange(f, t)
      PROVE  Plain'
  BY <1>17, DataAssumption DEF FsChange, listVars, Plain
<1>18. ASSUME NEW l \in Languages, SetLanguage(l)
      PROVE  Plain'
  BY <1>18, DataAssumption DEF SetLanguage, diskVars, listVars, Plain
<1>19. CASE UNCHANGED vars
  BY <1>19 DEF vars, diskVars, listVars, scanVars, afterVars, worldVars, Plain,
     ObserverCalls, Flags, FlagChange
<1> HIDE DEF Next
<1> QED
  BY StepCases, <1>1, <1>2, <1>3, <1>4, <1>5, <1>6, <1>7, <1>8, <1>9, <1>10, <1>11, <1>12,
     <1>13, <1>14, <1>15, <1>16, <1>17, <1>18, <1>19, Zenon

(* Where a walk of the list may stand.                                       *)
LEMMA WalkType ==
    ASSUME NEW s \in Seq(AppData), NEW u
    PROVE  /\ Head0(s) \in Uids \cup {Null} /\ NextOf(s, u) \in Uids \cup {Null}
<1>1. Len(s) \in Nat /\ DOMAIN s = 1 .. Len(s)
  BY LenProperties
<1>2. \A i \in DOMAIN s : s[i].uid \in Uids
  <2>1. \A i \in DOMAIN s : s[i] \in AppData
    BY <1>1, ElementOfSeq
  <2> QED
    BY <2>1 DEF AppData
<1>3. s # <<>> => 1 \in DOMAIN s
  BY <1>1, EmptySeq
<1> DEFINE i == AppDataByUid(s, u)
<1>4. i \in 1 .. Len(s) - 1 => i + 1 \in DOMAIN s
  BY <1>1
<1>5. NextOf(s, u) = IF i \in 1 .. Len(s) - 1 THEN s[i + 1].uid ELSE Null
  BY DEF NextOf
<1> HIDE DEF i
<1> QED
  BY <1>2, <1>3, <1>4, <1>5 DEF Head0

(* A finder that was reset stands before the first directory.                *)
LEMMA FindInType ==
    ASSUME NEW scope \in SUBSET Files
    PROVE  FindIn(scope) \in Finder
BY DirsType DEF FindIn, Finder

(* Pointers and the place of the scan.                                       *)
LEMMA NextPlaces ==
    ASSUME World, GoodList(iAppData), Places, [Next]_vars
    PROVE  Places'
<1>0. /\ FindIn(Files) \in Finder /\ FindIn(Removable) \in Finder /\ FindIn({}) \in Finder
      /\ Head0(iAppData) \in Uids \cup {Null}
      /\ \A r \in IdleUpdate(iAppData, iAppRegFinder) :
            r.finder \in Finder /\ Head0(r.list) \in Uids \cup {Null}
      /\ \A u : NextOf(iAppData, u) \in Uids \cup {Null}
  BY FilesAssumption, FindInType, WalkType, IdleUpdateGood DEF Places, GoodList, GoodResult
<1>1. CASE UpdateApps
  BY <1>1, <1>0 DEF UpdateApps, MoveCacheAway, StartScan, StartScanFails, StopWorkers,
     Places, Repoint, Pointers
<1>2. CASE LangChangeRunL
  BY <1>2, <1>0 DEF LangChangeRunL, MoveCacheAway, LanguageScanObserver, StartScan,
     StartScanFails, StopWorkers, scanVars, afterVars, Places, Repoint, Pointers
<1>3. CASE ScanStep
  <2>1. PICK r \in IdleUpdate(iAppData, iAppRegFinder) :
           /\ iAppRegFinder' = r.finder
           /\ \/ /\ iValidFirstAppData' = Repoint(iValidFirstAppData, r.gone)
                 /\ UNCHANGED iAppIconLoader
              \/ AfterScan(r.list, r.gone, (iFlags \cup FlagChange(r.changed)) \ {"ELangChangePending"}, iObserver)
    BY <1>3, Zenon DEF ScanStep, afterVars
  <2>2. Head0(r.list) \in Uids \cup {Null} /\ r.finder \in Finder
    BY <1>0
  <2> QED
    BY <2>1, <2>2 DEF AfterScan, IconLoaders, InitiateStoring, ScanComplete, Repoint, Pointers,
                      Places
<1>4. CASE ScanStepLeaves
  BY <1>4, <1>0 DEF ScanStepLeaves, diskVars, afterVars, worldVars, Places, Repoint, Pointers
<1>5. CASE LoadIcons
  BY <1>5, <1>0 DEF LoadIcons, diskVars, listVars, scanVars, worldVars, Places, Repoint,
     Pointers
<1>6. CASE IconsLoaded
  BY <1>6, <1>0 DEF IconsLoaded, InitiateStoring, ScanComplete, KeepOrStore, scanVars,
     worldVars, Places, Repoint, Pointers
<1>7. CASE StoreEntry
  BY <1>7, <1>0 DEF StoreEntry, diskVars, listVars, scanVars, worldVars, Places, Repoint,
     Pointers
<1>8. CASE StoreDone
  BY <1>8, <1>0 DEF StoreDone, listVars, scanVars, worldVars, Places, Repoint, Pointers
<1>9. CASE PowerOn
  BY <1>9, <1>0 DEF PowerOn, ScanFromNothing, afterVars, Places, Repoint, Pointers
<1>10. CASE RestoreStep
  <2>1. PICK r \in IdleUpdate(iAppData, iAppRegFinder) :
           \/ /\ ScanFromNothing({"ENotifyUpdateOnFirstScanComplete"})
              /\ UNCHANGED iAppIconLoader
           \/ /\ iAppRegFinder' = r.finder
              /\ \/ UNCHANGED <<iValidFirstAppData, iAppIconLoader>>
                 \/ AfterScan(r.list, r.gone, iFlags \cup FlagChange(r.changed), TRUE)
    BY <1>10, Zenon DEF RestoreStep, afterVars
  <2>2. Head0(r.list) \in Uids \cup {Null} /\ r.finder \in Finder
    BY <1>0
  <2>3. CASE ScanFromNothing({"ENotifyUpdateOnFirstScanComplete"}) /\ UNCHANGED iAppIconLoader
    BY <1>0, <2>3 DEF ScanFromNothing, Pointers, Places
  <2> QED
    BY <2>1, <2>2, <2>3 DEF AfterScan, IconLoaders, InitiateStoring, ScanComplete, Repoint, Pointers,
                            Places
<1>11. CASE StoreFails
  BY <1>11, <1>0 DEF StoreFails, diskVars, listVars, scanVars, worldVars, Places, Repoint,
     Pointers
<1>12. CASE PowerLoss
  BY <1>12, <1>0 DEF PowerLoss, diskVars, FindIn, Places, Repoint, Pointers
<1>13. CASE RestartScan
  BY <1>13, <1>0 DEF RestartScan, StartScan, StartScanFails, StopWorkers, diskVars, Places,
     Repoint, Pointers
<1>14. CASE SpuriousChange
  BY <1>14, <1>0 DEF SpuriousChange, diskVars, listVars, scanVars, afterVars, Places,
     Repoint, Pointers
<1>15. ASSUME NEW nna \in BOOLEAN, StopScan(nna)
      PROVE  Places'
  BY <1>15, <1>0 DEF StopScan, diskVars, afterVars, Places, Repoint, Pointers
<1>16. ASSUME NEW u \in Uids, FindSpecificApp(u)
      PROVE  Places'
  BY <1>16, <1>0 DEF FindSpecificApp, diskVars, scanVars, afterVars, worldVars, Places,
     Repoint, Pointers
<1>17. ASSUME NEW f \in Files, NEW t \in Stamps \cup {Absent}, FsChange(f, t)
      PROVE  Places'
  BY <1>17, <1>0 DEF FsChange, listVars, scanVars, afterVars, Places, Repoint, Pointers
<1>18. ASSUME NEW l \in Languages, SetLanguage(l)
      PROVE  Places'
  BY <1>18, <1>0 DEF SetLanguage, diskVars, listVars, scanVars, afterVars, Places, Repoint,
     Pointers
<1>19. CASE UNCHANGED vars
  BY <1>19, <1>0 DEF vars, diskVars, listVars, scanVars, afterVars, worldVars, Places,
     Repoint, Pointers
<1> HIDE DEF Next
<1> QED
  BY StepCases, <1>1, <1>2, <1>3, <1>4, <1>5, <1>6, <1>7, <1>8, <1>9, <1>10, <1>11, <1>12,
     <1>13, <1>14, <1>15, <1>16, <1>17, <1>18, <1>19, Zenon

----------------------------------------------------------------------------
(* The storer.                                                               *)

(* It starts with nothing stored.                                            *)
LEMMA StorerStarts ==
    ASSUME World, NEW s, GoodList(s), NEW storer \in StoreOutcomes(s)
    PROVE  storer \in Storers \cup {Off} /\ StorerOn(storer, s)
<1>1. CASE storer = Off
  BY <1>1 DEF StorerOn
<1>2. CASE storer = [lang |-> language, next |-> Head0(s), out |-> <<>>]
  <2>1. s \in Seq(AppData) /\ Len(s) \in Nat /\ DOMAIN s = 1 .. Len(s)
    BY LenProperties DEF GoodList
  <2>2. Head0(s) \in Uids \cup {Null}
    BY <2>1, WalkType
  <2>3. storer \in Storers
    BY <1>2, <2>2 DEF World, Storers, Pointers
  <2>4. Head0(s) \in Uids => 1 \in DOMAIN s /\ s[1].uid = Head0(s)
    BY <2>1, NullAssumption, EmptySeq DEF Head0
  <2>5. storer.out = <<>> /\ storer.next = Head0(s)
    BY <1>2
  <2>6. OneEach(storer.out)
    BY <2>5 DEF OneEach
  <2> QED
    BY <2>3, <2>4, <2>5, <2>6 DEF StorerOn
<1> QED
  BY <1>1, <1>2 DEF StoreOutcomes

(* A change of presence leaves it where it is.                               *)
LEMMA StorerStays ==
    ASSUME NEW storer, NEW s, NEW t, SameElements(s, t), StorerOn(storer, s)
    PROVE  StorerOn(storer, t)
BY DEF StorerOn, SameElements

(* The list is purged under the storer: the order of what is left is what it *)
(* was, so nothing that is still to be stored is stored already.             *)
LEMMA StorerPurged ==
    ASSUME World, NEW s, GoodList(s), NEW storer \in Storers, StorerOn(storer, s), storer # Off,
           NEW p, NEW next, next = Repoint(storer.next, PurgedUids(s, p)),
           NEW new, new = [storer EXCEPT !.next = next]
    PROVE  new \in Storers /\ StorerOn(new, Purge(s, p))
<1> DEFINE t == Purge(s, p)
           at(n) == NthOf(Kept(s, p), n)
<1>1. next = storer.next \/ next = Dangling
  BY DEF Repoint
<1>2. new \in Storers /\ new.next = next /\ new.out = storer.out
  BY <1>1 DEF Storers, Pointers
<1>3. next \in Uids => next = storer.next /\ next \notin PurgedUids(s, p)
  BY <1>1, NullAssumption DEF Repoint
<1>4. \A n \in DOMAIN t : at(n) \in DOMAIN s /\ t[n].uid = s[at(n)].uid /\ n \in 1 .. Cardinality(Kept(s, p))
  BY PurgeKeeps
<1>5. ASSUME next \in Uids PROVE \E n \in DOMAIN t : t[n].uid = next
  <2>1. PICK i \in DOMAIN s : s[i].uid = next
    BY <1>3, <1>5 DEF StorerOn
  <2>2. PICK n \in DOMAIN t : at(n) = i
    BY <1>3, <1>5, <2>1, PurgeFinds
  <2> QED
    BY <1>4, <2>1, <2>2
<1>6. ASSUME NEW n \in DOMAIN t, t[n].uid = next, NEW l \in DOMAIN t, NEW k \in DOMAIN new.out,
             n <= l
      PROVE  new.out[k].uid # t[l].uid
  <2>1. next \in Uids
    <3>1. t[n] \in AppData
      BY PurgeKeeps
    <3> QED
      BY <1>6, <3>1 DEF AppData
  <2>2. at(n) <= at(l)
    <3>1. n < l => at(n) < at(l)
      BY <1>4, PurgeKeeps, NthOfGrows
    <3>2. n \in Int /\ l \in Int /\ at(n) \in Int /\ at(l) \in Int
      <4>1. DOMAIN s = 1 .. Len(s) /\ Len(s) \in Nat
        BY LenProperties DEF GoodList
      <4>2. DOMAIN t = 1 .. Cardinality(Kept(s, p)) /\ Cardinality(Kept(s, p)) \in Nat
        BY PurgeKeeps
      <4> HIDE DEF at, t
      <4> QED
        BY <1>4, <1>6, <4>1, <4>2
    <3>3. n < l \/ n = l
      BY <1>6, <3>2
    <3> HIDE DEF at
    <3> QED
      BY <3>1, <3>2, <3>3
  <2>3. at(n) \in DOMAIN s /\ at(l) \in DOMAIN s /\ s[at(n)].uid = storer.next /\ k \in DOMAIN storer.out
    BY <1>2, <1>3, <1>4, <1>6, <2>1
  <2> HIDE DEF at
  <2>4. storer.out[k].uid # s[at(l)].uid
    BY <2>2, <2>3 DEF StorerOn
  <2> QED
    BY <1>2, <1>4, <2>4 DEF at
<1>7. OneEach(new.out)
  BY <1>2 DEF StorerOn
<1> HIDE DEF t
<1>8. StorerOn(new, t)
  BY <1>2, <1>5, <1>6, <1>7 DEF StorerOn
<1> QED
  BY <1>2, <1>8 DEF t

(* One element is stored, and the storer moves to the next.                  *)
LEMMA StorerAdvances ==
    ASSUME NEW s, GoodList(s), NEW storer \in Storers, StorerOn(storer, s), storer # Off,
           storer.next \in Uids,
           NEW new,
           new = [storer EXCEPT !.next = NextOf(s, @),
                                !.out = Append(@, Stored(s[AppDataByUid(s, storer.next)]))]
    PROVE  new \in Storers /\ StorerOn(new, s)
<1> DEFINE i == AppDataByUid(s, storer.next)
           n == Len(storer.out)
           e == Stored(s[i])
<1>1. /\ s \in Seq(AppData) /\ Len(s) \in Nat /\ DOMAIN s = 1 .. Len(s)
      /\ storer.out \in Seq(StoredApp) /\ n \in Nat /\ DOMAIN storer.out = 1 .. n
  BY LenProperties DEF GoodList, Storers
<1>2. i \in DOMAIN s /\ s[i].uid = storer.next
  BY DEF StorerOn, AppDataByUid
<1>3. NextOf(s, storer.next) = IF i \in 1 .. Len(s) - 1 THEN s[i + 1].uid ELSE Null
  BY DEF NextOf
<1>0. new = [storer EXCEPT !.next = NextOf(s, storer.next), !.out = Append(storer.out, e)]
  OBVIOUS
<1> HIDE DEF i
<1>4. s[i] \in AppData
  BY <1>1, <1>2, ElementOfSeq
<1>5. e \in StoredApp /\ e.uid = s[i].uid /\ e.file = s[i].file
  BY <1>4 DEF Stored, StoredApp, AppData
<1> HIDE DEF e
<1>6. NextOf(s, storer.next) \in Uids \cup {Null}
  BY <1>1, WalkType
<1>7. /\ new \in Storers /\ new.next = NextOf(s, storer.next) /\ new.out = Append(storer.out, e)
  <2>1. Append(storer.out, e) \in Seq(StoredApp)
    BY <1>1, <1>5, AppendProperties
  <2>2. NextOf(s, storer.next) \in Pointers
    BY <1>6 DEF Pointers
  <2> DEFINE p == NextOf(s, storer.next)
             o == Append(storer.out, e)
  <2> HIDE DEF p, o
  <2>3. new = [storer EXCEPT !.next = p, !.out = o] /\ p \in Pointers /\ o \in Seq(StoredApp)
    BY <1>0, <2>1, <2>2 DEF p, o
  <2>4. new \in Storers /\ new.next = p /\ new.out = o
    BY <2>3 DEF Storers
  <2> QED
    BY <2>4 DEF p, o
<1>8. /\ DOMAIN new.out = 1 .. n + 1 /\ new.out[n + 1] = e
      /\ \A k \in 1 .. n : new.out[k] = storer.out[k]
  BY <1>1, <1>5, <1>7
<1>9. \A k \in 1 .. n, j \in DOMAIN s : i <= j => storer.out[k].uid # s[j].uid
  BY <1>1, <1>2 DEF StorerOn
<1>10. OneEach(new.out)
  <2>1. ASSUME NEW k \in 1 .. n + 1 PROVE new.out[k].uid = UidOf[new.out[k].file]
    <3>1. CASE k \in 1 .. n
      BY <1>1, <1>8, <3>1 DEF StorerOn, OneEach
    <3>2. CASE k = n + 1
      BY <1>2, <1>5, <1>8, <3>2 DEF GoodList, OneEach
    <3> QED
      BY <1>1, <3>1, <3>2
  <2>2. ASSUME NEW k \in 1 .. n + 1, NEW l \in 1 .. n + 1, new.out[k].uid = new.out[l].uid
        PROVE  k = l
    <3>1. \A x \in 1 .. n : new.out[x].uid # e.uid
      <4>1. i \in Int /\ i <= i
        BY <1>1, <1>2
      <4> QED
        BY <1>2, <1>5, <1>8, <1>9, <4>1
    <3>2. CASE k \in 1 .. n /\ l \in 1 .. n
      BY <1>1, <1>8, <2>2, <3>2 DEF StorerOn, OneEach
    <3>3. CASE k = n + 1 \/ l = n + 1
      BY <1>1, <1>8, <2>2, <3>1, <3>3
    <3> QED
      BY <1>1, <3>2, <3>3
  <2> QED
    BY <1>8, <2>1, <2>2 DEF OneEach
<1>11. new.next \in Uids => i + 1 \in DOMAIN s /\ s[i + 1].uid = new.next
  BY <1>1, <1>2, <1>3, <1>7, NullAssumption
<1>12. ASSUME NEW j \in DOMAIN s, s[j].uid = new.next, NEW l \in DOMAIN s,
              NEW k \in DOMAIN new.out, j <= l
       PROVE  new.out[k].uid # s[l].uid
  <2>1. new.next \in Uids
    <3>1. s[j] \in AppData
      BY <1>1, ElementOfSeq
    <3> QED
      BY <1>12, <3>1 DEF AppData
  <2>2. j = i + 1
    BY <1>11, <1>12, <2>1 DEF GoodList, OneEach
  <2>3. CASE k \in 1 .. n
    BY <1>1, <1>2, <1>8, <1>9, <1>12, <2>2, <2>3
  <2>4. CASE k = n + 1
    <3>1. l # i
      BY <1>1, <1>2, <1>12, <2>2
    <3> QED
      BY <1>2, <1>5, <1>8, <2>4, <3>1 DEF GoodList, OneEach
  <2> QED
    BY <1>1, <1>8, <2>3, <2>4
<1> QED
  BY <1>7, <1>10, <1>11, <1>12 DEF StorerOn

StorerOK == iAppListStorer \in Storers \cup {Off} /\ StorerOnList

(* After a scan that left the list s the storer is off, or starts on s.      *)
LEMMA StorerAfterScan ==
    ASSUME World, NEW s, GoodList(s), NEW gone, NEW fl, NEW observer,
           AfterScan(s, gone, fl, observer), iAppData' = s, iAppListStorer = Off
    PROVE  StorerOK'
<1>1. iAppListStorer' = Off \/ iAppListStorer' \in StoreOutcomes(s)
  BY Zenon DEF AfterScan, InitiateStoring, KeepOrStore
<1>2. iAppListStorer' \in Storers \cup {Off} /\ StorerOn(iAppListStorer', s)
  <2>1. CASE iAppListStorer' = Off
    BY <2>1 DEF StorerOn
  <2> QED
    BY <1>1, <2>1, StorerStarts
<1> QED
  BY <1>2 DEF StorerOK, StorerOnList

(* Whatever happens to the list, the storer stays where it should be.        *)
LEMMA NextStorer ==
    ASSUME ListInv, [Next]_vars
    PROVE  StorerOK'
<1> USE DEF StorerOK, StorerOnList
<1>0. /\ World /\ GoodList(iAppData) /\ StorerOK /\ GoodList(iAppData')
      /\ iAppListStorer # Off => phase = "Up" /\ ~iAppIdler /\ ~idlerUnstarted
      /\ \A r \in IdleUpdate(iAppData, iAppRegFinder) : GoodList(r.list)
  <2>1. World /\ GoodList(iAppData) /\ StorerOK /\ iAppRegFinder \in Finder
    BY DEF ListInv, TypeOK, World, Storers, Finder
  <2>2. GoodList(iAppData') /\ OneAtWork
    BY NextList DEF ListInv
  <2>3. \A r \in IdleUpdate(iAppData, iAppRegFinder) : GoodList(r.list)
    BY <2>1, IdleUpdateGood DEF GoodResult
  <2> QED
    BY <2>1, <2>2, <2>3 DEF OneAtWork
<1>a. ASSUME iAppListStorer' = Off PROVE StorerOK'
  BY <1>a DEF StorerOn
<1>b. ASSUME UNCHANGED <<iAppListStorer, iAppData>> PROVE StorerOK'
  BY <1>0, <1>b
<1>c. ASSUME NEW fl, StartScanFails(iAppData, {}, fl) PROVE StorerOK'
  <2>1. CASE iAppListStorer' = Off
    BY <1>a, <1>c, <2>1
  <2>2. CASE iAppListStorer' # Off
    <3>0. iAppListStorer # Off
      BY <1>c, <2>2 DEF StartScanFails, StopWorkers
    <3>1. [iAppListStorer EXCEPT !.next = Repoint(@, {})] = iAppListStorer
      BY <1>0, <3>0 DEF Storers, Repoint
    <3> QED
      BY <1>b, <1>c, <2>2, <3>0, <3>1 DEF StartScanFails, StopWorkers
  <2> QED
    BY <2>1, <2>2
<1>1. CASE UpdateApps
  <2>1. CASE StartScan(iAppData, {}, iFlags)
    BY <1>a, <2>1 DEF StartScan, StopWorkers
  <2> QED
    BY <1>1, <1>c, <2>1 DEF UpdateApps
<1>2. CASE LangChangeRunL
  <2>1. CASE StartScan(iAppData, {}, iFlags \cup {"ELangChangePending"})
    BY <1>a, <2>1 DEF StartScan, StopWorkers
  <2>2. CASE UNCHANGED <<iAppData, afterVars>>
    BY <1>b, <2>2 DEF afterVars
  <2> QED
    BY <1>2, <1>c, <2>1, <2>2, Zenon DEF LangChangeRunL
<1>3. CASE ScanStep
  <2>1. iAppListStorer = Off
    BY <1>3, <1>0 DEF ScanStep
  <2>2. PICK r \in IdleUpdate(iAppData, iAppRegFinder) :
           /\ iAppData' = r.list
           /\ \/ UNCHANGED afterVars
              \/ AfterScan(r.list, r.gone, (iFlags \cup FlagChange(r.changed)) \ {"ELangChangePending"}, iObserver)
    BY <1>3, Zenon DEF ScanStep
  <2>3. CASE UNCHANGED afterVars
    BY <1>a, <2>1, <2>3 DEF afterVars
  <2>4. GoodList(r.list)
    BY <1>0
  <2> QED
    BY <1>0, <2>1, <2>2, <2>3, <2>4, StorerAfterScan, Zenon
<1>4. CASE ScanStepLeaves
  <2>1. iAppListStorer' = Off
    BY <1>4, <1>0 DEF ScanStepLeaves, afterVars
  <2> QED
    BY <1>a, <2>1
<1>5. CASE LoadIcons
  BY <1>5, <1>b DEF LoadIcons, listVars
<1>6. CASE IconsLoaded
  <2>1. iAppData' = iAppData
    BY <1>6 DEF IconsLoaded
  <2>2. iAppListStorer' = Off \/ iAppListStorer' \in StoreOutcomes(iAppData)
    BY <1>6, Zenon DEF IconsLoaded, InitiateStoring, KeepOrStore
  <2>3. CASE iAppListStorer' \in StoreOutcomes(iAppData)
    <3>1. iAppListStorer' \in Storers \cup {Off} /\ StorerOn(iAppListStorer', iAppData)
      BY <1>0, <2>3, StorerStarts
    <3> QED
      BY <2>1, <3>1
  <2> QED
    BY <1>a, <2>2, <2>3
<1>7. CASE StoreEntry
  <2>1. /\ iAppListStorer # Off /\ iAppListStorer.next \in Uids /\ iAppData' = iAppData
        /\ iAppListStorer' =
             [iAppListStorer EXCEPT
                !.next = NextOf(iAppData, @),
                !.out = Append(@, Stored(iAppData[AppDataByUid(iAppData, iAppListStorer.next)]))]
    BY <1>7 DEF StoreEntry, listVars
  <2>2. iAppListStorer \in Storers /\ StorerOn(iAppListStorer, iAppData)
    BY <1>0, <2>1
  <2>3. iAppListStorer' \in Storers /\ StorerOn(iAppListStorer', iAppData)
    BY <1>0, <2>1, <2>2, StorerAdvances
  <2> QED
    BY <2>1, <2>3
<1>8. CASE StoreDone
  BY <1>8, <1>a DEF StoreDone
<1>9. CASE PowerOn
  <2>1. iAppListStorer' = Off
    BY <1>9, <1>0 DEF PowerOn, afterVars
  <2> QED
    BY <1>a, <2>1
<1>10. CASE RestoreStep
  <2>1. iAppListStorer = Off
    BY <1>10, <1>0 DEF RestoreStep
  <2>2. PICK r \in IdleUpdate(iAppData, iAppRegFinder) :
           \/ UNCHANGED afterVars
           \/ /\ iAppData' = r.list
              /\ AfterScan(r.list, r.gone, iFlags \cup FlagChange(r.changed), TRUE)
    BY <1>10, Zenon DEF RestoreStep
  <2>3. CASE UNCHANGED afterVars
    BY <1>a, <2>1, <2>3 DEF afterVars
  <2>4. GoodList(r.list)
    BY <1>0
  <2> QED
    BY <1>0, <2>1, <2>2, <2>3, <2>4, StorerAfterScan, Zenon
<1>11. CASE StoreFails
  BY <1>11, <1>a DEF StoreFails
<1>12. CASE PowerLoss
  BY <1>12, <1>a DEF PowerLoss
<1>13. CASE RestartScan
  <2>0. PICK p \in Extents :
           \/ StartScan(Purge(iAppData, p), PurgedUids(iAppData, p), iFlags)
           \/ StartScanFails(Purge(iAppData, p), PurgedUids(iAppData, p), iFlags)
    BY <1>13, Zenon DEF RestartScan, Extents
  <2> DEFINE s == Purge(iAppData, p)
             gone == PurgedUids(iAppData, p)
  <2>1. CASE StartScan(s, gone, iFlags)
    BY <1>a, <2>1 DEF StartScan, StopWorkers
  <2>2. CASE StartScanFails(s, gone, iFlags) /\ iAppListStorer' = Off
    BY <1>a, <2>2
  <2>3. CASE StartScanFails(s, gone, iFlags) /\ iAppListStorer' # Off
    <3> DEFINE next == Repoint(iAppListStorer.next, gone)
    <3>1. /\ iAppData' = s
          /\ iAppListStorer' = [iAppListStorer EXCEPT !.next = next]
      BY <2>3 DEF StartScanFails, StopWorkers
    <3>2. iAppListStorer # Off
      BY <2>3 DEF StartScanFails, StopWorkers
    <3>3. iAppListStorer' \in Storers /\ StorerOn(iAppListStorer', s)
      BY <1>0, <2>3, <3>1, <3>2, StorerPurged
    <3> QED
      BY <3>1, <3>3
  <2> QED
    BY <2>0, <2>1, <2>2, <2>3
<1>14. CASE SpuriousChange
  BY <1>14, <1>b DEF SpuriousChange, listVars, afterVars
<1>15. ASSUME NEW nna \in BOOLEAN, StopScan(nna)
      PROVE  StorerOK'
  <2>1. iAppData' = UndoSetPending(iAppData) /\ iAppListStorer' = iAppListStorer
    BY <1>15 DEF StopScan, afterVars
  <2>2. SameElements(iAppData, UndoSetPending(iAppData))
    BY <1>0, UndoSetPendingSame DEF GoodList
  <2>3. StorerOn(iAppListStorer, UndoSetPending(iAppData))
    BY <1>0, <2>2, StorerStays
  <2> QED
    BY <1>0, <2>1, <2>3
<1>16. ASSUME NEW u \in Uids, FindSpecificApp(u)
      PROVE  StorerOK'
  <2>1. iAppListStorer' = Off
    BY <1>16, <1>0 DEF FindSpecificApp, afterVars
  <2> QED
    BY <1>a, <2>1
<1>17. ASSUME NEW f \in Files, NEW t \in Stamps \cup {Absent}, FsChange(f, t)
      PROVE  StorerOK'
  BY <1>17, <1>b DEF FsChange, listVars, afterVars
<1>18. ASSUME NEW l \in Languages, SetLanguage(l)
      PROVE  StorerOK'
  BY <1>18, <1>b DEF SetLanguage, listVars, afterVars
<1>19. CASE UNCHANGED vars
  BY <1>19, <1>b DEF vars, listVars, afterVars
<1> HIDE DEF Next
<1> QED
  BY StepCases, <1>1, <1>2, <1>3, <1>4, <1>5, <1>6, <1>7, <1>8, <1>9, <1>10, <1>11, <1>12,
     <1>13, <1>14, <1>15, <1>16, <1>17, <1>18, <1>19, Zenon

----------------------------------------------------------------------------
(* The list's files.                                                         *)

FilesOK ==
    /\ cache \in ListFile \cup {NoFile} /\ backup \in ListFile \cup {NoFile}
    /\ GoodFile(cache) /\ GoodFile(backup)

(* Each file holds a list that was in memory.                                *)
LEMMA NextFiles ==
    ASSUME FilesOK, StorerOK, [Next]_vars
    PROVE  FilesOK'
<1>0. GoodFile(NoFile)
  BY DEF GoodFile
<1>1. CASE UpdateApps
  BY <1>1, <1>0 DEF UpdateApps, MoveCacheAway, StartScan, StartScanFails, StopWorkers,
     FilesOK
<1>2. CASE LangChangeRunL
  BY <1>2, <1>0 DEF LangChangeRunL, MoveCacheAway, LanguageScanObserver, StartScan,
     StartScanFails, StopWorkers, scanVars, afterVars, FilesOK
<1>3. CASE ScanStep
  BY <1>3, <1>0 DEF ScanStep, AfterScan, InitiateStoring, ScanComplete, KeepOrStore,
     worldVars, afterVars, FilesOK
<1>4. CASE ScanStepLeaves
  BY <1>4, <1>0 DEF ScanStepLeaves, diskVars, afterVars, worldVars, FilesOK
<1>5. CASE LoadIcons
  BY <1>5, <1>0 DEF LoadIcons, diskVars, listVars, scanVars, worldVars, FilesOK
<1>6. CASE IconsLoaded
  BY <1>6, <1>0 DEF IconsLoaded, InitiateStoring, ScanComplete, KeepOrStore, scanVars,
     worldVars, FilesOK
<1>7. CASE StoreEntry
  BY <1>7, <1>0 DEF StoreEntry, diskVars, listVars, scanVars, worldVars, FilesOK
<1>8. CASE StoreDone
  <2>1. /\ cache' = [lang |-> iAppListStorer.lang, apps |-> iAppListStorer.out]
        /\ backup' = backup /\ iAppListStorer # Off
    BY <1>8 DEF StoreDone
  <2>2. iAppListStorer \in Storers /\ OneEach(iAppListStorer.out)
    BY <2>1 DEF StorerOK, StorerOnList, StorerOn
  <2>3. cache' \in ListFile /\ cache'.apps = iAppListStorer.out
    BY <2>1, <2>2 DEF ListFile, Storers
  <2> QED
    BY <2>1, <2>2, <2>3 DEF FilesOK, GoodFile
<1>9. CASE PowerOn
  BY <1>9, <1>0 DEF PowerOn, ScanFromNothing, afterVars, FilesOK
<1>10. CASE RestoreStep
  BY <1>10, <1>0 DEF RestoreStep, ScanFromNothing, AfterScan, InitiateStoring, ScanComplete,
     KeepOrStore, afterVars, FilesOK
<1>11. CASE StoreFails
  BY <1>11, <1>0 DEF StoreFails, diskVars, listVars, scanVars, worldVars, FilesOK
<1>12. CASE PowerLoss
  BY <1>12, <1>0 DEF PowerLoss, diskVars, FindIn, FilesOK
<1>13. CASE RestartScan
  BY <1>13, <1>0 DEF RestartScan, StartScan, StartScanFails, StopWorkers, diskVars, FilesOK
<1>14. CASE SpuriousChange
  BY <1>14, <1>0 DEF SpuriousChange, diskVars, listVars, scanVars, afterVars, FilesOK
<1>15. ASSUME NEW nna \in BOOLEAN, StopScan(nna)
      PROVE  FilesOK'
  BY <1>15, <1>0 DEF StopScan, diskVars, afterVars, FilesOK
<1>16. ASSUME NEW u \in Uids, FindSpecificApp(u)
      PROVE  FilesOK'
  BY <1>16, <1>0 DEF FindSpecificApp, diskVars, scanVars, afterVars, worldVars, FilesOK
<1>17. ASSUME NEW f \in Files, NEW t \in Stamps \cup {Absent}, FsChange(f, t)
      PROVE  FilesOK'
  BY <1>17, <1>0 DEF FsChange, listVars, scanVars, afterVars, FilesOK
<1>18. ASSUME NEW l \in Languages, SetLanguage(l)
      PROVE  FilesOK'
  BY <1>18, <1>0 DEF SetLanguage, diskVars, listVars, scanVars, afterVars, FilesOK
<1>19. CASE UNCHANGED vars
  BY <1>19, <1>0 DEF vars, diskVars, listVars, scanVars, afterVars, worldVars, FilesOK
<1> HIDE DEF Next
<1> QED
  BY StepCases, <1>1, <1>2, <1>3, <1>4, <1>5, <1>6, <1>7, <1>8, <1>9, <1>10, <1>11, <1>12,
     <1>13, <1>14, <1>15, <1>16, <1>17, <1>18, <1>19, Zenon

----------------------------------------------------------------------------
(* The invariant.                                                            *)

(* untold is TRUE or FALSE.                                                  *)
LEMMA RememberType ==
    ASSUME untold \in BOOLEAN, Remember
    PROVE  untold' \in BOOLEAN
<1>1. untold' = FALSE \/ untold' = (untold \/ View(iAppData') # View(iAppData))
  BY Zenon DEF Remember
<1>2. (untold \/ View(iAppData') # View(iAppData)) \in BOOLEAN
  BY Zenon
<1> QED
  BY <1>1, <1>2, Zenon

(* Every step remembers.                                                     *)
LEMMA NextUntold ==
    ASSUME untold \in BOOLEAN, [Next]_vars
    PROVE  untold' \in BOOLEAN
<1>1. CASE UpdateApps
  BY <1>1, RememberType, Zenon DEF UpdateApps
<1>2. CASE LangChangeRunL
  BY <1>2, RememberType, Zenon DEF LangChangeRunL
<1>3. CASE ScanStep
  BY <1>3, RememberType, Zenon DEF ScanStep
<1>4. CASE ScanStepLeaves
  BY <1>4, RememberType, Zenon DEF ScanStepLeaves
<1>5. CASE LoadIcons
  BY <1>5, RememberType, Zenon DEF LoadIcons
<1>6. CASE IconsLoaded
  BY <1>6, RememberType, Zenon DEF IconsLoaded
<1>7. CASE StoreEntry
  BY <1>7, RememberType, Zenon DEF StoreEntry
<1>8. CASE StoreDone
  BY <1>8, RememberType, Zenon DEF StoreDone
<1>9. CASE PowerOn
  BY <1>9, RememberType, Zenon DEF PowerOn
<1>10. CASE RestoreStep
  BY <1>10, RememberType, Zenon DEF RestoreStep
<1>11. CASE StoreFails
  BY <1>11, RememberType, Zenon DEF StoreFails
<1>12. CASE PowerLoss
  BY <1>12, RememberType, Zenon DEF PowerLoss
<1>13. CASE RestartScan
  BY <1>13, RememberType, Zenon DEF RestartScan
<1>14. CASE SpuriousChange
  BY <1>14, RememberType, Zenon DEF SpuriousChange
<1>15. ASSUME NEW nna \in BOOLEAN, StopScan(nna)
      PROVE  untold' \in BOOLEAN
  BY <1>15, RememberType, Zenon DEF StopScan
<1>16. ASSUME NEW u \in Uids, FindSpecificApp(u)
      PROVE  untold' \in BOOLEAN
  BY <1>16, RememberType, Zenon DEF FindSpecificApp
<1>17. ASSUME NEW f \in Files, NEW t \in Stamps \cup {Absent}, FsChange(f, t)
      PROVE  untold' \in BOOLEAN
  BY <1>17, RememberType, Zenon DEF FsChange
<1>18. ASSUME NEW l \in Languages, SetLanguage(l)
      PROVE  untold' \in BOOLEAN
  BY <1>18, RememberType, Zenon DEF SetLanguage
<1>19. CASE UNCHANGED vars
  BY <1>19 DEF vars
<1> HIDE DEF Next
<1> QED
  BY StepCases, <1>1, <1>2, <1>3, <1>4, <1>5, <1>6, <1>7, <1>8, <1>9, <1>10, <1>11, <1>12,
     <1>13, <1>14, <1>15, <1>16, <1>17, <1>18, <1>19, Zenon

(* Nothing has been scanned, read or stored.                                 *)
LEMMA InitListInv ==
    ASSUME Init
    PROVE  ListInv
<1>1. FindIn({}) \in Finder
  BY FindInType
<1>2. <<>> \in Seq(AppData) /\ GoodList(<<>>)
  BY DEF GoodList, OneEach, SuccessorsFit
<1>3. Null \in Pointers /\ 0 \in 0 .. MaxChanges /\ 0 \in 0 .. MaxCrashes
  BY DataAssumption DEF Pointers
<1>4. TypeOK
  BY <1>1, <1>2, <1>3 DEF Init, TypeOK, Finder
<1> QED
  BY <1>2, <1>4 DEF Init, ListInv, GoodFile, StorerOnList, StorerOn, OneAtWork, ObserverWaits,
                    FirstScanNeedsServer

(* Every step keeps it.                                                      *)
LEMMA NextListInv ==
    ASSUME ListInv, [Next]_vars
    PROVE  ListInv'
<1>1. /\ World /\ GoodList(iAppData) /\ iAppRegFinder \in Finder
      /\ Switches /\ Plain /\ Places /\ untold \in BOOLEAN
      /\ FilesOK /\ StorerOK
      /\ TypeOK /\ OneAtWork /\ ObserverWaits /\ FirstScanNeedsServer
  BY DEF ListInv, TypeOK, World, Finder, Switches, Plain, Places, FilesOK, StorerOK, Storers
<1>2. GoodList(iAppData')
  BY NextList
<1>3. Switches' /\ Plain' /\ Places'
  BY <1>1, NextSwitches, NextPlain, NextPlaces
<1>4. untold' \in BOOLEAN
  BY <1>1, NextUntold
<1>5. FilesOK' /\ StorerOK'
  BY <1>1, NextStorer, NextFiles
<1>6. OneAtWork' /\ ObserverWaits' /\ FirstScanNeedsServer'
  BY <1>1, NextAtWork, NextObserver
<1>7. TypeOK'
  BY <1>2, <1>3, <1>4, <1>5
     DEF TypeOK, GoodList, Switches, Plain, Places, Finder, FilesOK, StorerOK, Storers
<1> QED
  BY <1>2, <1>5, <1>6, <1>7 DEF ListInv, FilesOK, StorerOK

(* In every state the list, what is stored of it and its files hold each     *)
(* application once, and the scanner, the workers and the observer are where *)
(* the code leaves them.                                                     *)
THEOREM Invariance == Spec => []ListInv
<1>1. Init => ListInv
  BY InitListInv
<1>2. ListInv /\ [Next]_vars => ListInv'
  BY NextListInv
<1> QED
  BY <1>1, <1>2, PTL DEF Spec

(* Every variable keeps its type.                                            *)
THEOREM TypeCorrect == Spec => []TypeOK
<1>1. ListInv => TypeOK
  BY DEF ListInv
<1> QED
  BY <1>1, Invariance, PTL

(* The list never holds two elements for one application, and each element   *)
(* is of the application its registration file registers: whatever a scan    *)
(* finds, in whichever order, and whatever PurgeL replaces.                  *)
THEOREM OneOfEach == Spec => []OneElementEach
<1>1. ListInv => OneElementEach
  BY DEF ListInv, GoodList, OneEach, OneElementEach
<1> QED
  BY <1>1, Invariance, PTL

(* The first scan is complete in the step in which the observer hears of it. *)
Reported ==
    ("EFirstScanComplete" \in iFlags' \ iFlags) <=>
    ("InitialListPopulationComplete" \in calls')

(* The observer waits for the first scan, so its end is reported.            *)
LEMMA NextReported ==
    ASSUME ListInv, [Next]_vars
    PROVE  [Reported]_vars
<1>0. iFlags \subseteq Flags /\ ObserverWaits /\ FirstScanNeedsServer
  BY DEF ListInv, TypeOK
<1>a. ASSUME NEW observer, NEW fl, "EFirstScanComplete" \in fl \/ observer
      PROVE  "InitialListPopulationComplete" \in ObserverCalls(observer, fl) <=>
             "EFirstScanComplete" \notin fl
  BY <1>a DEF ObserverCalls
<1>b. ASSUME NEW s, NEW observer, NEW fl, InitiateStoring(s, fl, observer),
             "EFirstScanComplete" \in fl \/ observer,
             "EFirstScanComplete" \in fl <=> "EFirstScanComplete" \in iFlags
      PROVE  Reported
  BY <1>a, <1>b DEF InitiateStoring, Reported
<1>c. ASSUME NEW s, NEW gone, NEW observer, NEW fl, AfterScan(s, gone, fl, observer),
             "EFirstScanComplete" \in fl \/ observer,
             "EFirstScanComplete" \in fl <=> "EFirstScanComplete" \in iFlags
      PROVE  Reported
  BY <1>b, <1>c DEF AfterScan, Reported
<1>1. CASE UpdateApps
  BY <1>1, <1>0 DEF UpdateApps, MoveCacheAway, StartScan, StartScanFails, StopWorkers,
     Reported
<1>2. CASE LangChangeRunL
  BY <1>2, <1>0 DEF LangChangeRunL, MoveCacheAway, LanguageScanObserver, StartScan,
     StartScanFails, StopWorkers, scanVars, afterVars, Reported
<1>3. CASE ScanStep
  <2>1. \/ iFlags' \ iFlags \subseteq {"EAppListHasChanged"} /\ calls' = {}
        \/ \E s, gone : \E fl \in SUBSET Flags :
             /\ "EFirstScanComplete" \in fl <=> "EFirstScanComplete" \in iFlags
             /\ AfterScan(s, gone, fl, iObserver)
    <3>1. PICK r \in IdleUpdate(iAppData, iAppRegFinder) :
             \/ iFlags' = iFlags \cup FlagChange(r.changed) /\ calls' = {}
             \/ AfterScan(r.list, r.gone, (iFlags \cup FlagChange(r.changed)) \ {"ELangChangePending"}, iObserver)
      BY <1>3, Zenon DEF ScanStep
    <3> DEFINE fl == (iFlags \cup FlagChange(r.changed)) \ {"ELangChangePending"}
    <3>2. fl \in SUBSET Flags /\ ("EFirstScanComplete" \in fl <=> "EFirstScanComplete" \in iFlags)
      BY <1>0 DEF FlagChange, Flags
    <3>3. iFlags' = iFlags \cup FlagChange(r.changed) => iFlags' \ iFlags \subseteq {"EAppListHasChanged"}
      BY DEF FlagChange
    <3> HIDE DEF fl
    <3> QED
      BY <3>1, <3>2, <3>3 DEF fl
  <2>2. "EFirstScanComplete" \in iFlags \/ iObserver
    BY <1>3, <1>0 DEF ScanStep, ObserverWaits
  <2>3. CASE iFlags' \ iFlags \subseteq {"EAppListHasChanged"} /\ calls' = {}
    BY <2>3 DEF Reported
  <2>4. CASE \E s, gone : \E fl \in SUBSET Flags :
               /\ "EFirstScanComplete" \in fl <=> "EFirstScanComplete" \in iFlags
               /\ AfterScan(s, gone, fl, iObserver)
    BY <1>c, <2>2, <2>4
  <2> QED
    BY <2>1, <2>3, <2>4
<1>4. CASE ScanStepLeaves
  BY <1>4, <1>0 DEF ScanStepLeaves, diskVars, afterVars, worldVars, Reported
<1>5. CASE LoadIcons
  BY <1>5, <1>0 DEF LoadIcons, diskVars, listVars, scanVars, worldVars, Reported
<1>6. CASE IconsLoaded
  <2>1. InitiateStoring(iAppData, iFlags, iObserver) /\ phase = "Up"
    BY <1>6 DEF IconsLoaded
  <2>2. ("EFirstScanComplete" \in iFlags \/ iObserver)
    BY <1>0, <2>1 DEF ObserverWaits
  <2> QED
    BY <1>b, <2>1, <2>2
<1>7. CASE StoreEntry
  BY <1>7, <1>0 DEF StoreEntry, diskVars, listVars, scanVars, worldVars, Reported
<1>8. CASE StoreDone
  BY <1>8, <1>0 DEF StoreDone, listVars, scanVars, worldVars, Reported
<1>9. CASE PowerOn
  <2>1. iFlags' \subseteq {"ENotifyUpdateOnFirstScanComplete"} /\ calls' = {}
    BY <1>9, Zenon DEF PowerOn, ScanFromNothing
  <2> QED
    BY <2>1 DEF Reported
<1>10. CASE RestoreStep
  <2>1. \/ "EFirstScanComplete" \notin iFlags' /\ calls' = {}
        \/ \E s, gone : \E fl \in SUBSET Flags :
             /\ "EFirstScanComplete" \in fl <=> "EFirstScanComplete" \in iFlags
             /\ AfterScan(s, gone, fl, TRUE)
    <3>1. PICK r \in IdleUpdate(iAppData, iAppRegFinder) :
             \/ iFlags' = {"ENotifyUpdateOnFirstScanComplete"} /\ calls' = {}
             \/ iFlags' = iFlags \cup FlagChange(r.changed) /\ calls' = {}
             \/ AfterScan(r.list, r.gone, iFlags \cup FlagChange(r.changed), TRUE)
      BY <1>10, Zenon DEF RestoreStep, ScanFromNothing
    <3> DEFINE fl == iFlags \cup FlagChange(r.changed)
    <3>2. fl \in SUBSET Flags /\ ("EFirstScanComplete" \in fl <=> "EFirstScanComplete" \in iFlags)
      BY <1>0 DEF FlagChange, Flags
    <3>3. "EFirstScanComplete" \notin iFlags /\ FlagChange(r.changed) \subseteq {"EAppListHasChanged"}
      BY <1>10, <1>0 DEF RestoreStep, FirstScanNeedsServer, FlagChange
    <3>4. "EFirstScanComplete" \notin iFlags \cup FlagChange(r.changed)
      BY <3>3
    <3>5. iFlags' = {"ENotifyUpdateOnFirstScanComplete"} => "EFirstScanComplete" \notin iFlags'
      OBVIOUS
    <3>6. CASE AfterScan(r.list, r.gone, fl, TRUE)
      BY <3>2, <3>6
    <3> QED
      BY <3>1, <3>4, <3>5, <3>6
  <2>2. CASE "EFirstScanComplete" \notin iFlags' /\ calls' = {}
    BY <2>2 DEF Reported
  <2>3. CASE \E s, gone : \E fl \in SUBSET Flags :
               /\ "EFirstScanComplete" \in fl <=> "EFirstScanComplete" \in iFlags
               /\ AfterScan(s, gone, fl, TRUE)
    BY <1>c, <2>3
  <2> QED
    BY <2>1, <2>2, <2>3
<1>11. CASE StoreFails
  BY <1>11, <1>0 DEF StoreFails, diskVars, listVars, scanVars, worldVars, Reported
<1>12. CASE PowerLoss
  BY <1>12, <1>0 DEF PowerLoss, diskVars, FindIn, Reported
<1>13. CASE RestartScan
  BY <1>13, <1>0 DEF RestartScan, StartScan, StartScanFails, StopWorkers, diskVars, Reported
<1>14. CASE SpuriousChange
  BY <1>14, <1>0 DEF SpuriousChange, diskVars, listVars, scanVars, afterVars, Reported
<1>15. ASSUME NEW nna \in BOOLEAN, StopScan(nna)
      PROVE  [Reported]_vars
  BY <1>15, <1>0 DEF StopScan, diskVars, afterVars, Reported
<1>16. ASSUME NEW u \in Uids, FindSpecificApp(u)
      PROVE  [Reported]_vars
  BY <1>16, <1>0 DEF FindSpecificApp, FlagChange, Reported
<1>17. ASSUME NEW f \in Files, NEW t \in Stamps \cup {Absent}, FsChange(f, t)
      PROVE  [Reported]_vars
  BY <1>17, <1>0 DEF FsChange, listVars, scanVars, afterVars, Reported
<1>18. ASSUME NEW l \in Languages, SetLanguage(l)
      PROVE  [Reported]_vars
  BY <1>18, <1>0 DEF SetLanguage, diskVars, listVars, scanVars, afterVars, Reported
<1>19. CASE UNCHANGED vars
  BY <1>19
<1> HIDE DEF Next
<1> QED
  BY StepCases, <1>1, <1>2, <1>3, <1>4, <1>5, <1>6, <1>7, <1>8, <1>9, <1>10, <1>11, <1>12,
     <1>13, <1>14, <1>15, <1>16, <1>17, <1>18, <1>19, Zenon

(* The observer, which keeps the file monitor blocked until then, hears that *)
(* the list is populated exactly when the first scan completes: no failure,  *)
(* change of language or restart on the way to it loses the observer.        *)
THEOREM ReportedOnce == Spec => PopulationReportedOnce
<1>1. ListInv /\ [Next]_vars => [Reported]_vars
  BY NextReported
<1> QED
  BY <1>1, Invariance, PTL DEF Spec, PopulationReportedOnce, Reported

----------------------------------------------------------------------------
(* The file, its backup and the workers, when no scan fails to start: that   *)
(* failure leaves a worker of the last scan at work on what the failing call *)
(* has changed.                                                              *)

(* A list is stored only after its backup was deleted, and the two files are *)
(* never both there.                                                         *)
FilesApart == OneCopy /\ NoBackupWhileStoring

(* Every step keeps the files apart.                                         *)
LEMMA NextFilesApart ==
    ASSUME "StartFails" \notin Happens, ListInv, FilesApart, [Next]_vars
    PROVE  FilesApart'
<1>0. OneAtWork /\ "StartFails" \notin Happens
  BY DEF ListInv
<1> USE DEF FilesApart, OneCopy, NoBackupWhileStoring
<1>1. CASE UpdateApps
  BY <1>1, <1>0 DEF UpdateApps, MoveCacheAway, StartScan, StartScanFails, StopWorkers
<1>2. CASE LangChangeRunL
  BY <1>2, <1>0 DEF LangChangeRunL, MoveCacheAway, LanguageScanObserver, StartScan,
     StartScanFails, StopWorkers, scanVars, afterVars
<1>3. CASE ScanStep
  <2>1. iAppListStorer = Off
    BY <1>3, <1>0 DEF ScanStep, OneAtWork
  <2>2. PICK r \in IdleUpdate(iAppData, iAppRegFinder) :
           \/ UNCHANGED <<cache, backup, afterVars>>
           \/ AfterScan(r.list, r.gone, (iFlags \cup FlagChange(r.changed)) \ {"ELangChangePending"}, iObserver)
    BY <1>3, Zenon DEF ScanStep
  <2> QED
    BY <2>1, <2>2 DEF AfterScan, InitiateStoring, KeepOrStore, afterVars
<1>4. CASE ScanStepLeaves
  BY <1>4, <1>0 DEF ScanStepLeaves, diskVars, afterVars, worldVars
<1>5. CASE LoadIcons
  BY <1>5, <1>0 DEF LoadIcons, diskVars, listVars, scanVars, worldVars
<1>6. CASE IconsLoaded
  BY <1>6, <1>0 DEF IconsLoaded, InitiateStoring, ScanComplete, KeepOrStore, scanVars,
     worldVars
<1>7. CASE StoreEntry
  BY <1>7, <1>0 DEF StoreEntry, diskVars, listVars, scanVars, worldVars
<1>8. CASE StoreDone
  BY <1>8, <1>0 DEF StoreDone, listVars, scanVars, worldVars
<1>9. CASE PowerOn
  <2>1. iAppListStorer' = Off
    BY <1>9, <1>0 DEF PowerOn, afterVars, OneAtWork
  <2>2. cache' = NoFile
    BY <1>9, Zenon DEF PowerOn, ScanFromNothing
  <2> QED
    BY <2>1, <2>2
<1>10. CASE RestoreStep
  <2>1. iAppListStorer = Off
    BY <1>10, <1>0 DEF RestoreStep, OneAtWork
  <2>2. PICK r \in IdleUpdate(iAppData, iAppRegFinder) :
           \/ UNCHANGED <<backup, afterVars>> /\ cache' = NoFile
           \/ UNCHANGED <<cache, backup, afterVars>>
           \/ AfterScan(r.list, r.gone, iFlags \cup FlagChange(r.changed), TRUE)
    BY <1>10, Zenon DEF RestoreStep, ScanFromNothing
  <2> QED
    BY <2>1, <2>2 DEF AfterScan, InitiateStoring, KeepOrStore, afterVars
<1>11. CASE StoreFails
  BY <1>11, <1>0 DEF StoreFails, diskVars, listVars, scanVars, worldVars
<1>12. CASE PowerLoss
  BY <1>12, <1>0 DEF PowerLoss, diskVars, FindIn
<1>13. CASE RestartScan
  BY <1>13, <1>0 DEF RestartScan, StartScan, StartScanFails, StopWorkers, diskVars
<1>14. CASE SpuriousChange
  BY <1>14, <1>0 DEF SpuriousChange, diskVars, listVars, scanVars, afterVars
<1>15. ASSUME NEW nna \in BOOLEAN, StopScan(nna)
      PROVE  FilesApart'
  BY <1>15, <1>0 DEF StopScan, diskVars, afterVars
<1>16. ASSUME NEW u \in Uids, FindSpecificApp(u)
      PROVE  FilesApart'
  BY <1>16, <1>0 DEF FindSpecificApp, diskVars, scanVars, afterVars, worldVars
<1>17. ASSUME NEW f \in Files, NEW t \in Stamps \cup {Absent}, FsChange(f, t)
      PROVE  FilesApart'
  BY <1>17, <1>0 DEF FsChange, listVars, scanVars, afterVars
<1>18. ASSUME NEW l \in Languages, SetLanguage(l)
      PROVE  FilesApart'
  BY <1>18, <1>0 DEF SetLanguage, diskVars, listVars, scanVars, afterVars
<1>19. CASE UNCHANGED vars
  BY <1>19, <1>0 DEF vars, diskVars, listVars, scanVars, afterVars, worldVars
<1> HIDE DEF Next
<1> QED
  BY StepCases, <1>1, <1>2, <1>3, <1>4, <1>5, <1>6, <1>7, <1>8, <1>9, <1>10, <1>11, <1>12,
     <1>13, <1>14, <1>15, <1>16, <1>17, <1>18, <1>19, Zenon

(* A backup is always someone's: the scan that moved it there, the icon      *)
(* loader that follows, or the rescan still owed.                            *)
LEMMA NextBackup ==
    ASSUME {"StartFails", "LoaderFails"} \cap Happens = {}, ListInv, BackupOnlyWhileWorking, [Next]_vars
    PROVE  BackupOnlyWhileWorking'
<1>0. OneAtWork /\ "StartFails" \notin Happens /\ ~idlerUnstarted
  BY DEF ListInv, OneAtWork
<1> USE DEF BackupOnlyWhileWorking
<1>a. ASSUME NEW s, GoodList(s), NEW gone, NEW fl, NEW observer, AfterScan(s, gone, fl, observer)
      PROVE  BackupOnlyWhileWorking'
  <2>1. Head0(s) # Off
    BY <1>a, WalkType, NullAssumption DEF GoodList
  <2> QED
    BY <1>a, <2>1 DEF AfterScan, IconLoaders, InitiateStoring, KeepOrStore
<1>b. \A r \in IdleUpdate(iAppData, iAppRegFinder) : GoodList(r.list)
  BY IdleUpdateGood DEF ListInv, TypeOK, World, Finder, GoodResult
<1>1. CASE UpdateApps
  <2>1. CASE StartScan(iAppData, {}, iFlags)
    BY <2>1 DEF StartScan
  <2> QED
    BY <1>1, <1>0, <2>1, Zenon DEF UpdateApps, StartScanFails
<1>2. CASE LangChangeRunL
  <2>1. CASE StartScan(iAppData, {}, iFlags \cup {"ELangChangePending"})
    BY <2>1 DEF StartScan
  <2>2. CASE UNCHANGED <<backup, scanVars, afterVars, rescanDue, phase>>
    BY <2>2, Zenon DEF scanVars, afterVars
  <2> QED
    BY <1>2, <1>0, <2>1, <2>2, Zenon DEF LangChangeRunL, StartScanFails
<1>3. CASE ScanStep
  <2>1. PICK r \in IdleUpdate(iAppData, iAppRegFinder) :
           \/ UNCHANGED <<backup, phase, rescanDue, afterVars>> /\ iAppIdler'
           \/ AfterScan(r.list, r.gone, (iFlags \cup FlagChange(r.changed)) \ {"ELangChangePending"}, iObserver)
    BY <1>3, Zenon DEF ScanStep, worldVars
  <2>2. CASE UNCHANGED <<backup, phase, rescanDue, afterVars>> /\ iAppIdler'
    BY <2>2, Zenon
  <2> QED
    BY <1>a, <1>b, <2>1, <2>2
<1>4. CASE ScanStepLeaves
  BY <1>4, <1>0 DEF ScanStepLeaves, diskVars, afterVars, worldVars
<1>5. CASE LoadIcons
  <2>1. NextOf(iAppData, iAppIconLoader) # Off /\ iAppIconLoader # Off
    BY WalkType, <1>5, NullAssumption DEF ListInv, GoodList, LoadIcons
  <2> QED
    BY <1>5, <2>1 DEF LoadIcons, diskVars, scanVars, worldVars
<1>6. CASE IconsLoaded
  BY <1>6, <1>0 DEF IconsLoaded, InitiateStoring, ScanComplete, KeepOrStore, scanVars,
     worldVars
<1>7. CASE StoreEntry
  BY <1>7, <1>0 DEF StoreEntry, diskVars, listVars, scanVars, worldVars
<1>8. CASE StoreDone
  BY <1>8, <1>0 DEF StoreDone, listVars, scanVars, worldVars
<1>9. CASE PowerOn
  BY <1>9, <1>0 DEF PowerOn, ScanFromNothing, afterVars
<1>10. CASE RestoreStep
  <2>1. PICK r \in IdleUpdate(iAppData, iAppRegFinder) :
           \/ ScanFromNothing({"ENotifyUpdateOnFirstScanComplete"})
           \/ UNCHANGED phase
           \/ AfterScan(r.list, r.gone, iFlags \cup FlagChange(r.changed), TRUE)
    BY <1>10, Zenon DEF RestoreStep
  <2>2. CASE ScanFromNothing({"ENotifyUpdateOnFirstScanComplete"})
    BY <1>0, <2>2 DEF ScanFromNothing
  <2>3. CASE UNCHANGED phase
    BY <1>10, <2>3 DEF RestoreStep
  <2> QED
    BY <1>a, <1>b, <2>1, <2>2, <2>3
<1>11. CASE StoreFails
  BY <1>11, <1>0 DEF StoreFails, diskVars, listVars, scanVars, worldVars
<1>12. CASE PowerLoss
  BY <1>12, <1>0 DEF PowerLoss, diskVars, FindIn
<1>13. CASE RestartScan
  <2>1. ASSUME NEW s, NEW gone, StartScan(s, gone, iFlags) PROVE iAppIdler'
    BY <2>1, Zenon DEF StartScan
  <2> QED
    BY <1>13, <1>0, <2>1, Zenon DEF RestartScan, StartScanFails
<1>14. CASE SpuriousChange
  BY <1>14, <1>0 DEF SpuriousChange, diskVars, listVars, scanVars, afterVars
<1>15. ASSUME NEW nna \in BOOLEAN, StopScan(nna)
      PROVE  BackupOnlyWhileWorking'
  <2>1. phase' = phase /\ backup' = backup /\ iAppIconLoader' = iAppIconLoader
    BY <1>15 DEF StopScan, diskVars, afterVars
  <2>2. rescanDue \/ iAppIdler => rescanDue'
    BY <1>15, Zenon DEF StopScan
  <2> QED
    BY <2>1, <2>2, Zenon
<1>16. ASSUME NEW u \in Uids, FindSpecificApp(u)
      PROVE  BackupOnlyWhileWorking'
  BY <1>16, <1>0 DEF FindSpecificApp, diskVars, scanVars, afterVars, worldVars
<1>17. ASSUME NEW f \in Files, NEW t \in Stamps \cup {Absent}, FsChange(f, t)
      PROVE  BackupOnlyWhileWorking'
  <2>1. phase' = phase /\ backup' = backup /\ iAppIconLoader' = iAppIconLoader /\ iAppIdler' = iAppIdler
    BY <1>17 DEF FsChange, scanVars, afterVars
  <2>2. rescanDue => rescanDue'
    BY <1>17, Zenon DEF FsChange
  <2> QED
    BY <2>1, <2>2, Zenon
<1>18. ASSUME NEW l \in Languages, SetLanguage(l)
      PROVE  BackupOnlyWhileWorking'
  BY <1>18, <1>0 DEF SetLanguage, diskVars, listVars, scanVars, afterVars
<1>19. CASE UNCHANGED vars
  BY <1>19, <1>0 DEF vars, diskVars, listVars, scanVars, afterVars, worldVars
<1> HIDE DEF Next
<1> QED
  BY StepCases, <1>1, <1>2, <1>3, <1>4, <1>5, <1>6, <1>7, <1>8, <1>9, <1>10, <1>11, <1>12,
     <1>13, <1>14, <1>15, <1>16, <1>17, <1>18, <1>19, Zenon

----------------------------------------------------------------------------
(* The workers and the list.                                                 *)

LoaderOn(s, loader) == loader \in {s[i].uid : i \in DOMAIN s} \cup {Null, Off}

(* The storer stands on the i-th element, or past the last one, and has      *)
(* stored those before it.                                                   *)
StorerAt(s, storer, i) ==
    /\ storer.next = IF i = Len(s) + 1 THEN Null ELSE s[i].uid
    /\ storer.out = [k \in 1 .. i - 1 |-> Stored(s[k])]
StorerFollows(s, storer) == storer # Off => \E i \in 1 .. Len(s) + 1 : StorerAt(s, storer, i)

Following == LoaderOn(iAppData, iAppIconLoader) /\ StorerFollows(iAppData, iAppListStorer)

(* The element of an application is the one AppDataByUid finds.              *)
LEMMA OnlyElement ==
    ASSUME NEW s, GoodList(s)
    PROVE  /\ Len(s) \in Nat /\ DOMAIN s = 1 .. Len(s)
           /\ \A i \in DOMAIN s : AppDataByUid(s, s[i].uid) = i /\ s[i] \in AppData /\ s[i].uid # Null
           /\ AppDataByUid(s, Null) = 0
<1>1. Len(s) \in Nat /\ DOMAIN s = 1 .. Len(s)
  BY LenProperties DEF GoodList
<1>2. \A i \in DOMAIN s : s[i] \in AppData /\ s[i].uid # Null
  <2>1. \A i \in DOMAIN s : s[i] \in AppData
    BY <1>1, ElementOfSeq DEF GoodList
  <2> QED
    BY <2>1, NullAssumption DEF AppData
<1>3. AppDataByUid(s, Null) = 0
  BY <1>2 DEF AppDataByUid
<1>4. ASSUME NEW i \in DOMAIN s PROVE AppDataByUid(s, s[i].uid) = i
  <2> DEFINE j == AppDataByUid(s, s[i].uid)
  <2>1. j \in DOMAIN s /\ s[j].uid = s[i].uid
    BY DEF AppDataByUid
  <2> QED
    BY <2>1 DEF GoodList, OneEach
<1> QED
  BY <1>1, <1>2, <1>3, <1>4

(* An element after another is found where the walk goes next.               *)
LEMMA NextPlace ==
    ASSUME NEW s, GoodList(s), NEW i \in DOMAIN s
    PROVE  NextOf(s, s[i].uid) = IF i = Len(s) THEN Null ELSE s[i + 1].uid
<1>1. AppDataByUid(s, s[i].uid) = i /\ Len(s) \in Nat /\ DOMAIN s = 1 .. Len(s)
  BY OnlyElement
<1> QED
  BY <1>1 DEF NextOf

(* The storer starts on the first element with nothing stored.               *)
LEMMA FollowsFromHead ==
    ASSUME NEW s, GoodList(s), NEW storer \in StoreOutcomes(s)
    PROVE  StorerFollows(s, storer)
<1>1. Len(s) \in Nat /\ (s = <<>> <=> Len(s) = 0)
  BY OnlyElement, EmptySeq DEF GoodList
<1>2. Head0(s) = IF 1 = Len(s) + 1 THEN Null ELSE s[1].uid
  BY <1>1 DEF Head0
<1>3. <<>> = [k \in 1 .. 1 - 1 |-> Stored(s[k])]
  OBVIOUS
<1>4. storer # Off => storer.next = Head0(s) /\ storer.out = <<>>
  BY DEF StoreOutcomes
<1>5. storer # Off => StorerAt(s, storer, 1)
  BY <1>2, <1>3, <1>4 DEF StorerAt
<1> QED
  BY <1>1, <1>5 DEF StorerFollows

(* The icon loader starts on the first element.                              *)
LEMMA LoaderFromHead ==
    ASSUME NEW s, GoodList(s)
    PROVE  LoaderOn(s, Head0(s))
<1>1. s # <<>> => 1 \in DOMAIN s
  BY OnlyElement, EmptySeq DEF GoodList
<1> QED
  BY <1>1 DEF Head0, LoaderOn

(* Neither minds a change of presence.                                       *)
LEMMA FollowsSame ==
    ASSUME NEW s, GoodList(s), NEW t, SameElements(s, t), NEW loader, NEW storer,
           LoaderOn(s, loader), StorerFollows(s, storer)
    PROVE  LoaderOn(t, loader) /\ StorerFollows(t, storer)
<1>1. LoaderOn(t, loader)
  BY DEF LoaderOn, SameElements
<1>2. DOMAIN s = 1 .. Len(s) /\ Len(s) \in Nat /\ Len(t) = Len(s)
  BY OnlyElement, LenProperties DEF SameElements
<1>3. ASSUME NEW i \in 1 .. Len(s) + 1, StorerAt(s, storer, i)
      PROVE  StorerAt(t, storer, i)
  <2>1. \A k \in 1 .. i - 1 : k \in DOMAIN s
    BY <1>2
  <2>2. \A k \in 1 .. i - 1 : Stored(t[k]) = Stored(s[k])
    BY <2>1 DEF SameElements, Stored
  <2>3. [k \in 1 .. i - 1 |-> Stored(s[k])] = [k \in 1 .. i - 1 |-> Stored(t[k])]
    BY <2>2
  <2>4. i # Len(s) + 1 => t[i].uid = s[i].uid
    BY <1>2 DEF SameElements
  <2> QED
    BY <1>2, <1>3, <2>3, <2>4 DEF StorerAt
<1> QED
  BY <1>1, <1>2, <1>3 DEF StorerFollows

(* Storing an element moves the storer to the next place.                    *)
LEMMA StorerMoves ==
    ASSUME NEW s, GoodList(s), NEW storer \in Storers, storer # Off,
           StorerFollows(s, storer), storer.next \in Uids,
           NEW new,
           new = [storer EXCEPT !.next = NextOf(s, @),
                                !.out = Append(@, Stored(s[AppDataByUid(s, storer.next)]))]
    PROVE  StorerFollows(s, new)
<1>1. PICK i \in 1 .. Len(s) + 1 : StorerAt(s, storer, i)
  BY DEF StorerFollows
<1>2. Len(s) \in Nat /\ DOMAIN s = 1 .. Len(s)
  BY OnlyElement
<1>3. i \in DOMAIN s /\ storer.next = s[i].uid
  BY <1>1, <1>2, NullAssumption DEF StorerAt
<1>4. AppDataByUid(s, storer.next) = i
  BY <1>3, OnlyElement
<1>5. NextOf(s, storer.next) = IF i = Len(s) THEN Null ELSE s[i + 1].uid
  BY <1>3, NextPlace
<1> DEFINE p == NextOf(s, storer.next)
           o == Append(storer.out, Stored(s[i]))
<1>6. o = [k \in 1 .. (i + 1) - 1 |-> Stored(s[k])]
  <2> DEFINE f == [k \in 1 .. i - 1 |-> Stored(s[k])]
             e == Stored(s[i])
  <2>1. storer.out = f /\ storer.out \in Seq(StoredApp)
    BY <1>1 DEF StorerAt, Storers
  <2>2. e \in StoredApp
    BY <1>3, OnlyElement DEF Stored, StoredApp, AppData
  <2>3. Len(storer.out) = i - 1
    BY <1>1, <1>2, <2>1, LenProperties
  <2> HIDE DEF e
  <2>4. /\ Append(storer.out, e) \in Seq(StoredApp)
        /\ Len(Append(storer.out, e)) = i
        /\ \A k \in 1 .. i - 1 : Append(storer.out, e)[k] = storer.out[k]
        /\ Append(storer.out, e)[i] = e
    BY <1>1, <1>2, <2>1, <2>2, <2>3, AppendProperties
  <2> DEFINE q == Append(storer.out, e)
  <2>5. DOMAIN q = 1 .. i /\ q = [k \in 1 .. i |-> q[k]]
    BY <2>4, LenProperties
  <2> HIDE DEF q
  <2>6. \A k \in 1 .. i : q[k] = Stored(s[k])
    <3>1. \A k \in 1 .. i : k \in 1 .. i - 1 \/ k = i
      BY <1>3, <1>2
    <3>2. \A k \in 1 .. i - 1 : q[k] = Stored(s[k])
      BY <2>1, <2>4 DEF q
    <3> QED
      BY <2>4, <3>1, <3>2 DEF q, e
  <2>7. q = [k \in 1 .. i |-> Stored(s[k])] /\ (i + 1) - 1 = i
    BY <1>2, <1>3, <2>5, <2>6
  <2> QED
    BY <2>7 DEF q, e
<1>7. p = IF i + 1 = Len(s) + 1 THEN Null ELSE s[i + 1].uid
  BY <1>2, <1>3, <1>5
<1> HIDE DEF p, o
<1>8. new = [storer EXCEPT !.next = p, !.out = o]
  BY <1>4 DEF p, o
<1>9. new.next = p /\ new.out = o
  BY <1>8 DEF Storers
<1>10. i + 1 \in 1 .. Len(s) + 1
  BY <1>2, <1>3
<1>11. StorerAt(s, new, i + 1)
  BY <1>6, <1>7, <1>9, Zenon DEF StorerAt
<1> QED
  BY <1>10, <1>11 DEF StorerFollows

(* Whatever stops or changes the list stops the workers, or leaves them      *)
(* where they were.                                                          *)
LEMMA NextFollowing ==
    ASSUME "StartFails" \notin Happens, ListInv, Following, [Next]_vars
    PROVE  Following'
<1>0. /\ OneAtWork /\ "StartFails" \notin Happens /\ GoodList(iAppData)
      /\ iAppListStorer \in Storers \cup {Off}
      /\ LoaderOn(iAppData, iAppIconLoader) /\ StorerFollows(iAppData, iAppListStorer)
  BY DEF ListInv, Following, TypeOK, Storers
<1>a. ASSUME iAppIconLoader' = Off, iAppListStorer' = Off
      PROVE  Following'
  BY <1>a DEF Following, LoaderOn, StorerFollows
<1>b. ASSUME UNCHANGED <<iAppData, afterVars>> PROVE Following'
  BY <1>b DEF Following, afterVars
<1>c. ASSUME NEW s, GoodList(s), NEW gone, NEW fl, NEW observer, AfterScan(s, gone, fl, observer),
             iAppListStorer = Off, iAppData' = s
      PROVE  Following'
  <2>1. CASE iLoadMbmIconsOnDemand
    <3>1. iAppListStorer' = Off \/ iAppListStorer' \in StoreOutcomes(s)
      BY <1>c, <2>1, Zenon DEF AfterScan, InitiateStoring, KeepOrStore
    <3>2. StorerFollows(s, iAppListStorer')
      BY <1>c, <3>1, FollowsFromHead DEF StorerFollows
    <3>3. iAppIconLoader' = Off
      BY <1>c, <2>1 DEF AfterScan
    <3> QED
      BY <1>c, <3>2, <3>3 DEF Following, LoaderOn
  <2>2. CASE ~iLoadMbmIconsOnDemand
    <3>1. iAppListStorer' = Off /\ iAppIconLoader' \in {Head0(s), Off}
      BY <1>c, <2>2 DEF AfterScan, IconLoaders
    <3>2. LoaderOn(s, Head0(s)) /\ LoaderOn(s, Off)
      BY <1>c, LoaderFromHead DEF LoaderOn
    <3> QED
      BY <1>c, <3>1, <3>2 DEF Following, StorerFollows
  <2> QED
    BY <2>1, <2>2
<1>d. \A r \in IdleUpdate(iAppData, iAppRegFinder) : GoodList(r.list)
  BY IdleUpdateGood DEF ListInv, TypeOK, World, Finder, GoodResult
<1>e. iAppIdler \/ idlerUnstarted \/ phase # "Up" => iAppIconLoader = Off /\ iAppListStorer = Off
  BY <1>0 DEF OneAtWork
<1>1. CASE UpdateApps
  <2>1. CASE StartScan(iAppData, {}, iFlags)
    BY <1>a, <2>1 DEF StartScan, StopWorkers
  <2> QED
    BY <1>1, <1>0, <2>1, Zenon DEF UpdateApps, StartScanFails
<1>2. CASE LangChangeRunL
  <2>1. CASE StartScan(iAppData, {}, iFlags \cup {"ELangChangePending"})
    BY <1>a, <2>1 DEF StartScan, StopWorkers
  <2>2. CASE UNCHANGED <<iAppData, afterVars>>
    BY <1>b, <2>2
  <2> QED
    BY <1>2, <1>0, <2>1, <2>2, Zenon DEF LangChangeRunL, StartScanFails
<1>3. CASE ScanStep
  <2>1. PICK r \in IdleUpdate(iAppData, iAppRegFinder) :
           /\ iAppData' = r.list
           /\ \/ UNCHANGED afterVars
              \/ AfterScan(r.list, r.gone, (iFlags \cup FlagChange(r.changed)) \ {"ELangChangePending"}, iObserver)
    BY <1>3, Zenon DEF ScanStep
  <2>2. iAppIconLoader = Off /\ iAppListStorer = Off
    BY <1>3, <1>e DEF ScanStep
  <2>3. CASE UNCHANGED afterVars
    BY <1>a, <2>2, <2>3 DEF afterVars
  <2>4. CASE AfterScan(r.list, r.gone, (iFlags \cup FlagChange(r.changed)) \ {"ELangChangePending"}, iObserver)
    BY <1>c, <1>d, <2>1, <2>2, <2>4
  <2> QED
    BY <2>1, <2>3, <2>4
<1>4. CASE ScanStepLeaves
  <2>1. iAppIconLoader' = Off /\ iAppListStorer' = Off
    BY <1>4, <1>e DEF ScanStepLeaves, afterVars
  <2> QED
    BY <1>a, <2>1
<1>5. CASE LoadIcons
  <2>1. /\ iAppIconLoader \in Uids /\ iAppIconLoader' = NextOf(iAppData, iAppIconLoader)
        /\ iAppListStorer' = iAppListStorer /\ iAppData' = iAppData
    BY <1>5 DEF LoadIcons, listVars
  <2>2. PICK i \in DOMAIN iAppData : iAppData[i].uid = iAppIconLoader
    BY <1>0, <2>1, NullAssumption DEF LoaderOn
  <2>3. iAppIconLoader' = IF i = Len(iAppData) THEN Null ELSE iAppData[i + 1].uid
    BY <1>0, <2>1, <2>2, NextPlace
  <2>4. i # Len(iAppData) => i + 1 \in DOMAIN iAppData
    BY <1>0, OnlyElement
  <2>5. LoaderOn(iAppData, iAppIconLoader')
    BY <2>3, <2>4 DEF LoaderOn
  <2> QED
    BY <1>0, <2>1, <2>5 DEF Following
<1>6. CASE IconsLoaded
  <2>1. iAppData' = iAppData /\ iAppIconLoader' = Off
    BY <1>6 DEF IconsLoaded
  <2>2. iAppListStorer' = Off \/ iAppListStorer' \in StoreOutcomes(iAppData)
    BY <1>6, Zenon DEF IconsLoaded, InitiateStoring, KeepOrStore
  <2>3. StorerFollows(iAppData, iAppListStorer')
    BY <1>0, <2>2, FollowsFromHead DEF StorerFollows
  <2> QED
    BY <2>1, <2>3 DEF Following, LoaderOn
<1>7. CASE StoreEntry
  <2>1. /\ iAppListStorer # Off /\ iAppListStorer.next \in Uids /\ iAppData' = iAppData
        /\ iAppIconLoader' = iAppIconLoader
        /\ iAppListStorer' =
             [iAppListStorer EXCEPT
                !.next = NextOf(iAppData, @),
                !.out = Append(@, Stored(iAppData[AppDataByUid(iAppData, iAppListStorer.next)]))]
    BY <1>7 DEF StoreEntry, listVars
  <2>2. StorerFollows(iAppData, iAppListStorer')
    BY <1>0, <2>1, StorerMoves
  <2> QED
    BY <1>0, <2>1, <2>2 DEF Following
<1>8. CASE StoreDone
  <2>1. iAppListStorer' = Off /\ iAppData' = iAppData /\ iAppIconLoader' = iAppIconLoader
    BY <1>8 DEF StoreDone, listVars
  <2> QED
    BY <1>0, <2>1 DEF Following, StorerFollows
<1>9. CASE PowerOn
  <2>1. iAppIconLoader' = Off /\ iAppListStorer' = Off
    BY <1>9, <1>e DEF PowerOn, afterVars
  <2> QED
    BY <1>a, <2>1
<1>10. CASE RestoreStep
  <2>1. PICK r \in IdleUpdate(iAppData, iAppRegFinder) :
           \/ UNCHANGED afterVars
           \/ /\ iAppData' = r.list
              /\ AfterScan(r.list, r.gone, iFlags \cup FlagChange(r.changed), TRUE)
    BY <1>10, Zenon DEF RestoreStep
  <2>2. iAppIconLoader = Off /\ iAppListStorer = Off
    BY <1>10, <1>e DEF RestoreStep
  <2>3. CASE UNCHANGED afterVars
    BY <1>a, <2>2, <2>3 DEF afterVars
  <2>4. CASE iAppData' = r.list /\ AfterScan(r.list, r.gone, iFlags \cup FlagChange(r.changed), TRUE)
    BY <1>c, <1>d, <2>2, <2>4
  <2> QED
    BY <2>1, <2>3, <2>4
<1>11. CASE StoreFails
  <2>1. iAppListStorer' = Off /\ iAppData' = iAppData /\ iAppIconLoader' = iAppIconLoader
    BY <1>11 DEF StoreFails, listVars
  <2> QED
    BY <1>0, <2>1 DEF Following, StorerFollows
<1>12. CASE PowerLoss
  BY <1>12, <1>a DEF PowerLoss
<1>13. CASE RestartScan
  <2>1. ASSUME NEW s, NEW gone, StartScan(s, gone, iFlags) PROVE Following'
    BY <1>a, <2>1 DEF StartScan, StopWorkers
  <2> QED
    BY <1>13, <1>0, <2>1, Zenon DEF RestartScan, StartScanFails
<1>14. CASE SpuriousChange
  BY <1>14, <1>b DEF SpuriousChange, listVars
<1>15. ASSUME NEW nna \in BOOLEAN, StopScan(nna)
      PROVE  Following'
  <2>1. iAppData' = UndoSetPending(iAppData) /\ UNCHANGED <<iAppIconLoader, iAppListStorer>>
    BY <1>15 DEF StopScan, afterVars
  <2>2. SameElements(iAppData, UndoSetPending(iAppData))
    BY <1>0, UndoSetPendingSame DEF GoodList
  <2>3. /\ LoaderOn(UndoSetPending(iAppData), iAppIconLoader)
        /\ StorerFollows(UndoSetPending(iAppData), iAppListStorer)
    BY <1>0, <2>2, FollowsSame
  <2> QED
    BY <2>1, <2>3 DEF Following
<1>16. ASSUME NEW u \in Uids, FindSpecificApp(u)
      PROVE  Following'
  <2>1. iAppIconLoader' = Off /\ iAppListStorer' = Off
    BY <1>16, <1>e DEF FindSpecificApp, afterVars
  <2> QED
    BY <1>a, <2>1
<1>17. ASSUME NEW f \in Files, NEW t \in Stamps \cup {Absent}, FsChange(f, t)
      PROVE  Following'
  BY <1>17, <1>b DEF FsChange, listVars
<1>18. ASSUME NEW l \in Languages, SetLanguage(l)
      PROVE  Following'
  BY <1>18, <1>b DEF SetLanguage, listVars
<1>19. CASE UNCHANGED vars
  BY <1>19, <1>b DEF vars, listVars
<1> HIDE DEF Next
<1> QED
  BY StepCases, <1>1, <1>2, <1>3, <1>4, <1>5, <1>6, <1>7, <1>8, <1>9, <1>10, <1>11, <1>12,
     <1>13, <1>14, <1>15, <1>16, <1>17, <1>18, <1>19, Zenon

(* So the workers stand where WorkersFollowList says.                        *)
LEMMA FollowingSuffices ==
    ASSUME GoodList(iAppData), Following
    PROVE  WorkersFollowList
<1>1. iAppIconLoader \in ListUids \cup {Null, Off}
  BY DEF Following, LoaderOn, ListUids
<1>2. ASSUME iAppListStorer # Off
      PROVE  /\ iAppListStorer.next \in ListUids \cup {Null}
             /\ LET i == AppDataByUid(iAppData, iAppListStorer.next)
                    n == IF i = 0 THEN Len(iAppData) ELSE i - 1
                IN  iAppListStorer.out = [k \in 1 .. n |-> Stored(iAppData[k])]
  <2>1. PICK p \in 1 .. Len(iAppData) + 1 : StorerAt(iAppData, iAppListStorer, p)
    BY <1>2 DEF Following, StorerFollows
  <2>2. Len(iAppData) \in Nat /\ DOMAIN iAppData = 1 .. Len(iAppData)
    BY OnlyElement
  <2> DEFINE i == AppDataByUid(iAppData, iAppListStorer.next)
             n == IF i = 0 THEN Len(iAppData) ELSE i - 1
  <2>3. i = (IF p = Len(iAppData) + 1 THEN 0 ELSE p)
    BY <2>1, <2>2, OnlyElement DEF StorerAt
  <2> HIDE DEF i
  <2>4. n = p - 1
    BY <2>1, <2>2, <2>3
  <2>5. iAppListStorer.next \in ListUids \cup {Null}
    BY <2>1, <2>2 DEF StorerAt, ListUids
  <2> HIDE DEF n
  <2>6. iAppListStorer.out = [k \in 1 .. n |-> Stored(iAppData[k])]
    BY <2>1, <2>4 DEF StorerAt
  <2> QED
    BY <2>5, <2>6 DEF i, n
<1> QED
  BY <1>1, <1>2, Zenon DEF WorkersFollowList

(* What more holds when no scan fails to start.                              *)
StoreInv ==
    /\ FilesApart
    /\ "LoaderFails" \notin Happens => BackupOnlyWhileWorking
    /\ Following

(* Unless a scan failed to start, the workers follow the list and its files  *)
(* are kept apart.                                                           *)
THEOREM StoreInvariance ==
    ASSUME "StartFails" \notin Happens
    PROVE  Spec => [](ListInv /\ StoreInv)
<1>1. Init => ListInv /\ StoreInv
  BY InitListInv DEF Init, StoreInv, FilesApart, OneCopy, NoBackupWhileStoring,
                     BackupOnlyWhileWorking, Following, LoaderOn, StorerFollows
<1>2. ASSUME ListInv, StoreInv, [Next]_vars PROVE (ListInv /\ StoreInv)'
  <2>1. ListInv' /\ FilesApart' /\ Following'
    BY <1>2, NextListInv, NextFilesApart, NextFollowing DEF StoreInv
  <2>2. "LoaderFails" \notin Happens => BackupOnlyWhileWorking'
    BY <1>2, NextBackup DEF StoreInv
  <2> QED
    BY <2>1, <2>2 DEF StoreInv
<1> QED
  BY <1>1, <1>2, PTL DEF Spec

(* AppsList.bin and its backup are never both there, at any moment of a      *)
(* restore, a scan, a change of language or a power loss, unless a scan      *)
(* failed to start.                                                          *)
THEOREM OneCopyOnly ==
    ASSUME "StartFails" \notin Happens
    PROVE  Spec => []OneCopy
<1>1. ListInv /\ StoreInv => OneCopy
  BY DEF StoreInv, FilesApart
<1> QED
  BY <1>1, StoreInvariance, PTL

(* A backup is kept only for a scan, or the icon loading after it, that is   *)
(* at work or still owed, unless a scan failed to start or the icon loader   *)
(* could not be created after one.                                           *)
THEOREM BackupGuardsWork ==
    ASSUME {"StartFails", "LoaderFails"} \cap Happens = {}
    PROVE  Spec => []BackupOnlyWhileWorking
<1>1. ListInv /\ StoreInv => BackupOnlyWhileWorking
  BY DEF StoreInv
<1>2. "StartFails" \notin Happens
  OBVIOUS
<1> QED
  BY <1>1, <1>2, StoreInvariance, PTL

(* However the list is changed while the icon loader and the storer walk it, *)
(* they never stand on a deleted element, and the temporary file holds       *)
(* exactly the elements before the storer's, unless a scan failed to start.  *)
THEOREM WorkersOnList ==
    ASSUME "StartFails" \notin Happens
    PROVE  Spec => []WorkersFollowList
<1>1. ListInv /\ StoreInv => WorkersFollowList
  BY FollowingSuffices DEF StoreInv, ListInv
<1> QED
  BY <1>1, StoreInvariance, PTL

----------------------------------------------------------------------------
(* Where FirstApp starts, when icons are not loaded after a scan, which      *)
(* would come between the purge and the new start, and the list is purged    *)
(* only at the end of a scan.                                                *)

(* Whatever pointer could be to an element of s can be to one of t.          *)
KeepsUids(s, t) == \A i \in DOMAIN s : \E j \in DOMAIN t : t[j].uid = s[i].uid

(* Elements that changed presence only are the same to a pointer, the first  *)
(* one too.                                                                  *)
LEMMA SameKeeps ==
    ASSUME NEW s \in Seq(AppData), NEW t, SameElements(s, t)
    PROVE  KeepsUids(s, t) /\ Head0(t) = Head0(s)
<1>1. /\ Len(s) \in Nat /\ DOMAIN s = 1 .. Len(s) /\ Len(t) \in Nat /\ DOMAIN t = 1 .. Len(t)
      /\ (s = <<>> <=> Len(s) = 0) /\ (t = <<>> <=> Len(t) = 0)
  BY LenProperties, EmptySeq DEF SameElements
<1>2. Len(s) = Len(t)
  BY <1>1 DEF SameElements
<1> QED
  BY <1>1, <1>2 DEF SameElements, KeepsUids, Head0

(* Looking at a registration file deletes no element.                        *)
LEMMA UpdateNextAppKeeps ==
    ASSUME World, NEW s, GoodList(s), NEW f \in Files, NEW fin, NEW r \in UpdateNextApp(s, f, fin)
    PROVE  KeepsUids(s, r.list) /\ r.gone = {}
<1> DEFINE i == AppDataByUid(s, UidOf[f])
<1>1. s \in Seq(AppData) /\ Len(s) \in Nat /\ DOMAIN s = 1 .. Len(s)
  BY LenProperties DEF GoodList
<1>2. i # 0 => i \in DOMAIN s /\ s[i] \in AppData
  <2>1. i # 0 => i \in DOMAIN s
    BY DEF AppDataByUid
  <2> QED
    BY <1>1, <2>1, ElementOfSeq
<1>3. KeepsUids(s, s)
  BY DEF KeepsUids
<1>4. ASSUME NEW a, i # 0, a.uid = s[i].uid PROVE KeepsUids(s, [s EXCEPT ![i] = a])
  BY <1>1, <1>2, <1>4 DEF KeepsUids
<1>5. CASE i = 0
  <2> DEFINE a == NewApp(f)
             t == <<a>> \o s
  <2>1. a \in AppData
    BY NewAppType
  <2> HIDE DEF a
  <2>2. \A k \in DOMAIN s : k + 1 \in DOMAIN t /\ t[k + 1] = s[k]
    BY <1>1, <2>1
  <2> HIDE DEF t
  <2>3. KeepsUids(s, t)
    BY <2>2 DEF KeepsUids
  <2>4. (r.list = t \/ r.list = s) /\ r.gone = {}
    <3>1. r \in AddApp(s, f, fin)
      BY <1>5 DEF UpdateNextApp
    <3>2. \/ r = Result(t, TRUE, {}, fin, TRUE, FALSE)
          \/ r = Result(s, FALSE, {}, fin, TRUE, FALSE)
      BY <3>1, Zenon DEF AddApp, t, a
    <3> QED
      BY <3>2 DEF Result
  <2> QED
    BY <1>3, <2>3, <2>4
<1>6. CASE i # 0 /\ ~IsPending(s[i])
  <2>1. r.list = s /\ r.gone = {}
    BY <1>6 DEF UpdateNextApp, Result
  <2> QED
    BY <1>3, <2>1
<1>7. CASE i # 0 /\ IsPending(s[i]) /\ s[i].file # f
  <2> DEFINE a == [s[i] EXCEPT !.iSuccessor = f, !.iIsPresent = "ESuperseded"]
             b == [s[i] EXCEPT !.iSuccessor = Null]
  <2>1. (r.list = [s EXCEPT ![i] = a] \/ r.list = [s EXCEPT ![i] = b]) /\ r.gone = {}
    <3>1. r \in Supersede(s, i, f, fin)
      BY <1>7 DEF UpdateNextApp
    <3>2. /\ [s EXCEPT ![i].iSuccessor = f, ![i].iIsPresent = "ESuperseded"] = [s EXCEPT ![i] = a]
          /\ [s EXCEPT ![i].iSuccessor = Null] = [s EXCEPT ![i] = b]
      BY <1>1, <1>2, <1>7 DEF AppData
    <3>3. \/ r = Result([s EXCEPT ![i] = a], TRUE, {}, fin, TRUE, FALSE)
          \/ r = Result([s EXCEPT ![i] = b], FALSE, {}, fin, FALSE, TRUE)
      BY <3>1, <3>2, Zenon DEF Supersede
    <3> DEFINE ta == [s EXCEPT ![i] = a]
               tb == [s EXCEPT ![i] = b]
    <3>4. \/ r = Result(ta, TRUE, {}, fin, TRUE, FALSE)
          \/ r = Result(tb, FALSE, {}, fin, FALSE, TRUE)
      BY <3>3
    <3> HIDE DEF ta, tb
    <3>5. (r.list = ta \/ r.list = tb) /\ r.gone = {}
      BY <3>4 DEF Result
    <3> QED
      BY <3>5 DEF ta, tb
  <2>2. a.uid = s[i].uid /\ b.uid = s[i].uid
    BY <1>2, <1>7 DEF AppData
  <2> HIDE DEF a, b
  <2> QED
    BY <1>4, <1>7, <2>1, <2>2
<1>8. CASE i # 0 /\ IsPending(s[i]) /\ s[i].file = f
  <2> DEFINE a == [Update(s[i]) EXCEPT !.iIsPresent = "EIsPresent"]
             changed == UpdateChanges(s[i]) \/ s[i].iIsPresent = "ENotPresentPendingUpdate"
  <2>1. r = Result([s EXCEPT ![i] = a], changed, {}, fin, TRUE, FALSE)
    BY <1>8, Zenon DEF UpdateNextApp, Refresh
  <2>2. a.uid = s[i].uid
    BY <1>2, <1>8 DEF AppData, Update
  <2> HIDE DEF a, changed
  <2>3. r.list = [s EXCEPT ![i] = a] /\ r.gone = {}
    BY <2>1 DEF Result
  <2> QED
    BY <1>4, <1>8, <2>2, <2>3
<1> QED
  BY <1>5, <1>6, <1>7, <1>8

(* A step of the scan deletes elements only when the scan ends well, unless  *)
(* PurgeL leaves.                                                            *)
LEMMA IdleUpdateKeeps ==
    ASSUME World, NEW s, GoodList(s), NEW fin \in Finder, "PurgeFails" \notin Happens,
           NEW r \in IdleUpdate(s, fin)
    PROVE  r.more \/ r.failed => KeepsUids(s, r.list) /\ r.gone = {}
<1> DEFINE l == Listing(fin)
<1>1. l \in Finder
  BY ListingType
<1> HIDE DEF l
<1>2. \/ r \in FinishScan(s, l)
      \/ \E f \in l.files : \E q \in UpdateNextApp(s, f, [l EXCEPT !.files = @ \ {f}]) :
            r = AbandonShip(q)
      \/ r = Result(s, FALSE, {}, [l EXCEPT !.files = {}], FALSE, TRUE)
  BY Zenon DEF IdleUpdate, l
<1>3. ASSUME r \in FinishScan(s, l) PROVE ~r.more /\ ~r.failed
  <2> DEFINE t == SetNotFound(s)
  <2>1. CutPurges(t) = {}
    BY DEF CutPurges
  <2>2. PICK p : r = Result(Purge(t, p), AnyPending(s), PurgedUids(t, p), l, FALSE, FALSE)
    BY <1>3, <2>1, Zenon DEF FinishScan
  <2> QED
    BY <2>2 DEF Result
<1>4. ASSUME NEW f \in l.files, NEW q \in UpdateNextApp(s, f, [l EXCEPT !.files = @ \ {f}]),
             r = AbandonShip(q)
      PROVE  KeepsUids(s, r.list) /\ r.gone = {}
  <2>1. f \in Files /\ [l EXCEPT !.files = @ \ {f}] \in Finder
    BY <1>1, <1>4 DEF Finder
  <2>2. GoodList(q.list) /\ KeepsUids(s, q.list) /\ q.gone = {}
    BY <1>4, <2>1, UpdateNextAppGood, UpdateNextAppKeeps DEF GoodResult
  <2>3. KeepsUids(q.list, SetNotFound(q.list))
    BY <2>2, SetNotFoundSame, SameKeeps DEF GoodList
  <2>4. (r.list = q.list \/ r.list = SetNotFound(q.list)) /\ r.gone = q.gone
    BY <1>4, Zenon DEF AbandonShip, Result
  <2> QED
    BY <2>2, <2>3, <2>4 DEF KeepsUids
<1>5. CASE r = Result(s, FALSE, {}, [l EXCEPT !.files = {}], FALSE, TRUE)
  <2>1. r.list = s /\ r.gone = {}
    BY <1>5, Zenon DEF Result
  <2> QED
    BY <2>1 DEF KeepsUids
<1> QED
  BY <1>2, <1>3, <1>4, <1>5

AtElement(s, p) == p \in {s[i].uid : i \in DOMAIN s} \cup {Null}

(* FirstApp starts at an element, at the first one once nothing is at work   *)
(* or owed.                                                                  *)
FirstOnList ==
    /\ AtElement(iAppData, iValidFirstAppData)
    /\ phase = "Down" => iValidFirstAppData = Null
    /\ "StartFails" \notin Happens =>
         (phase = "Up" /\ ~iAppIdler /\ iAppIconLoader = Off /\ ~rescanDue =>
            iValidFirstAppData = Head0(iAppData))

(* The first element is an element.                                          *)
LEMMA HeadIsElement ==
    ASSUME NEW s \in Seq(AppData)
    PROVE  AtElement(s, Head0(s))
<1>1. s # <<>> => 1 \in DOMAIN s
  BY LenProperties, EmptySeq
<1> QED
  BY <1>1 DEF Head0, AtElement

(* Every step keeps it there.                                                *)
LEMMA NextFirstOnList ==
    ASSUME iLoadMbmIconsOnDemand, {"RestartScan", "PurgeFails"} \cap Happens = {}, ListInv, FirstOnList, [Next]_vars
    PROVE  FirstOnList'
<1>0. /\ GoodList(iAppData) /\ iAppData \in Seq(AppData)
      /\ "RestartScan" \notin Happens /\ "PurgeFails" \notin Happens
      /\ AtElement(iAppData, iValidFirstAppData)
      /\ \A p : Repoint(p, {}) = p
      /\ idlerUnstarted => ~iAppIdler /\ "StartFails" \in Happens
  BY DEF ListInv, GoodList, FirstOnList, Repoint, OneAtWork
<1>a. ASSUME NEW s \in Seq(AppData), iAppData' = s, iValidFirstAppData' = Head0(s),
             phase' # "Down"
      PROVE  FirstOnList'
  BY <1>a, HeadIsElement DEF FirstOnList
<1>b. ASSUME KeepsUids(iAppData, iAppData'), iValidFirstAppData' = iValidFirstAppData,
             phase' # "Down", phase' # "Up" \/ iAppIdler' \/ "StartFails" \in Happens
      PROVE  FirstOnList'
  <2>1. AtElement(iAppData', iValidFirstAppData')
    BY <1>0, <1>b DEF AtElement, KeepsUids
  <2> QED
    BY <1>b, <2>1, Zenon DEF FirstOnList
<1>c. \A s, gone, fl, observer :
        AfterScan(s, gone, fl, observer) => iValidFirstAppData' = Head0(s)
  BY Zenon DEF AfterScan, InitiateStoring, ScanComplete
<1>d. \A r \in IdleUpdate(iAppData, iAppRegFinder) :
        /\ r.list \in Seq(AppData)
        /\ r.more \/ r.failed => KeepsUids(iAppData, r.list) /\ r.gone = {}
  BY <1>0, IdleUpdateGood, IdleUpdateKeeps DEF ListInv, TypeOK, World, Finder, GoodResult, GoodList
<1>e. ASSUME UNCHANGED <<iAppData, iValidFirstAppData, phase>>,
             ~iAppIdler' /\ iAppIconLoader' = Off /\ ~rescanDue' =>
                ~iAppIdler /\ iAppIconLoader = Off /\ ~rescanDue
      PROVE  FirstOnList'
  BY <1>e, Zenon DEF FirstOnList
<1>f. \A which : KeepsUids(iAppData, SetPending(iAppData, which))
  BY <1>0, SetPendingSame, SameKeeps
<1>g. ASSUME NEW fl, ScanFromNothing(fl) PROVE FirstOnList'
  <2>1. <<>> \in Seq(AppData) /\ Head0(<<>>) = Null
    BY DEF Head0
  <2> QED
    BY <1>a, <1>g, <2>1 DEF ScanFromNothing
<1>1. CASE UpdateApps
  <2>1. CASE StartScan(iAppData, {}, iFlags)
    <3>1. /\ iAppData' = SetPending(iAppData, Files) /\ iAppIdler' = TRUE
          /\ iValidFirstAppData' = iValidFirstAppData
      BY <1>0, <2>1 DEF StartScan
    <3>2. phase' = "Up"
      BY <1>1 DEF UpdateApps
    <3> QED
      BY <1>b, <1>f, <3>1, <3>2
  <2>2. ASSUME NEW fl, StartScanFails(iAppData, {}, fl) PROVE FirstOnList'
    <3>1. /\ iAppData' = iAppData \/ iAppData' = SetPending(iAppData, Files)
          /\ iValidFirstAppData' = iValidFirstAppData
      BY <1>0, <2>2 DEF StartScanFails
    <3>2. phase' = "Up" /\ "StartFails" \in Happens
      BY <1>1, <2>2 DEF UpdateApps, StartScanFails
    <3>3. KeepsUids(iAppData, iAppData')
      BY <1>f, <3>1 DEF KeepsUids
    <3> QED
      BY <1>b, <3>1, <3>2, <3>3
  <2> QED
    BY <1>1, <2>1, <2>2, Zenon DEF UpdateApps
<1>2. CASE LangChangeRunL
  <2>1. CASE StartScan(iAppData, {}, iFlags \cup {"ELangChangePending"})
    <3>1. /\ iAppData' = SetPending(iAppData, Files) /\ iAppIdler' = TRUE
          /\ iValidFirstAppData' = iValidFirstAppData
      BY <1>0, <2>1 DEF StartScan
    <3>2. phase' = "Up"
      BY <1>2 DEF LangChangeRunL
    <3> QED
      BY <1>b, <1>f, <3>1, <3>2
  <2>2. ASSUME NEW fl, StartScanFails(iAppData, {}, fl) PROVE FirstOnList'
    <3>1. /\ iAppData' = iAppData \/ iAppData' = SetPending(iAppData, Files)
          /\ iValidFirstAppData' = iValidFirstAppData
      BY <1>0, <2>2 DEF StartScanFails
    <3>2. phase' = "Up" /\ "StartFails" \in Happens
      BY <1>2, <2>2 DEF LangChangeRunL, StartScanFails
    <3>3. KeepsUids(iAppData, iAppData')
      BY <1>f, <3>1 DEF KeepsUids
    <3> QED
      BY <1>b, <3>1, <3>2, <3>3
  <2>3. CASE UNCHANGED <<iAppData, iValidFirstAppData, scanVars, afterVars, rescanDue>>
    <3>1. phase' = phase
      BY <1>2 DEF LangChangeRunL
    <3> QED
      BY <1>e, <2>3, <3>1, Zenon DEF scanVars, afterVars
  <2> QED
    BY <1>2, <2>1, <2>2, <2>3, Zenon DEF LangChangeRunL
<1>3. CASE ScanStep
  <2>1. PICK r \in IdleUpdate(iAppData, iAppRegFinder) :
           /\ iAppData' = r.list /\ iAppIdler' = r.more
           /\ \/ r.more /\ iValidFirstAppData' = Repoint(iValidFirstAppData, r.gone)
              \/ AfterScan(r.list, r.gone, (iFlags \cup FlagChange(r.changed)) \ {"ELangChangePending"}, iObserver)
    BY <1>3, Zenon DEF ScanStep
  <2>2. phase' = "Up"
    BY <1>3 DEF ScanStep, worldVars
  <2>3. CASE r.more /\ iValidFirstAppData' = Repoint(iValidFirstAppData, r.gone)
    <3>1. KeepsUids(iAppData, iAppData') /\ iAppIdler' /\ phase' # "Down"
      BY <1>d, <2>1, <2>2, <2>3
    <3>2. iValidFirstAppData' = iValidFirstAppData
      BY <1>0, <1>d, <2>3
    <3> QED
      BY <1>b, <3>1, <3>2
  <2> QED
    BY <1>a, <1>c, <1>d, <2>1, <2>2, <2>3
<1>4. CASE ScanStepLeaves
  <2>1. PICK r \in IdleUpdate(iAppData, iAppRegFinder) :
           /\ r.failed /\ iAppData' = r.list
           /\ iValidFirstAppData' = Repoint(iValidFirstAppData, r.gone)
    BY <1>4, Zenon DEF ScanStepLeaves
  <2>2. iValidFirstAppData' = iValidFirstAppData /\ phase' = "Up" /\ iAppIdler'
    BY <1>0, <1>4, <1>d, <2>1, Zenon DEF ScanStepLeaves, worldVars
  <2>3. KeepsUids(iAppData, iAppData') /\ phase' # "Down"
    BY <1>d, <2>1, <2>2
  <2> QED
    BY <1>b, <2>2, <2>3
<1>5. CASE LoadIcons
  <2>1. NextOf(iAppData, iAppIconLoader) # Off
    BY <1>0, WalkType, NullAssumption
  <2>2. UNCHANGED <<iAppData, iValidFirstAppData, phase>> /\ iAppIconLoader' # Off
    BY <1>5, <2>1 DEF LoadIcons, listVars, worldVars
  <2> QED
    BY <1>e, <2>2
<1>6. CASE IconsLoaded
  <2>1. iAppData' = iAppData /\ phase' = "Up" /\ iValidFirstAppData' = Head0(iAppData)
    BY <1>6 DEF IconsLoaded, InitiateStoring, ScanComplete, worldVars
  <2> QED
    BY <1>0, <1>a, <2>1
<1>7. CASE StoreEntry
  BY <1>7, <1>e, Zenon DEF StoreEntry, listVars, scanVars, worldVars
<1>8. CASE StoreDone
  BY <1>8, <1>e, Zenon DEF StoreDone, listVars, scanVars, worldVars
<1>9. CASE PowerOn
  <2>1. CASE /\ iAppData' = SetPending(RestoredList(cache), Removable) /\ phase' = "Restoring"
             /\ iValidFirstAppData' = iValidFirstAppData
    <3>1. iValidFirstAppData' = Null
      BY <1>9, <2>1 DEF PowerOn, FirstOnList
    <3> QED
      BY <2>1, <3>1 DEF FirstOnList, AtElement
  <2> QED
    BY <1>9, <1>g, <2>1, Zenon DEF PowerOn
<1>10. CASE RestoreStep
  <2>1. PICK r \in IdleUpdate(iAppData, iAppRegFinder) :
           \/ ScanFromNothing({"ENotifyUpdateOnFirstScanComplete"})
           \/ /\ iAppData' = r.list
              /\ \/ r.more /\ iValidFirstAppData' = iValidFirstAppData /\ phase' = phase
                 \/ phase' = "Up" /\ AfterScan(r.list, r.gone, iFlags \cup FlagChange(r.changed), TRUE)
    BY <1>10, Zenon DEF RestoreStep
  <2>2. phase = "Restoring"
    BY <1>10 DEF RestoreStep
  <2>3. CASE ScanFromNothing({"ENotifyUpdateOnFirstScanComplete"})
    BY <1>g, <2>3
  <2>4. CASE /\ iAppData' = r.list /\ r.more /\ iValidFirstAppData' = iValidFirstAppData
             /\ phase' = phase
    BY <1>b, <1>d, <2>2, <2>4
  <2>5. CASE /\ iAppData' = r.list /\ phase' = "Up"
             /\ AfterScan(r.list, r.gone, iFlags \cup FlagChange(r.changed), TRUE)
    BY <1>a, <1>c, <1>d, <2>5
  <2> QED
    BY <2>1, <2>3, <2>4, <2>5
<1>11. CASE StoreFails
  BY <1>11, <1>e, Zenon DEF StoreFails, listVars, scanVars, worldVars
<1>12. CASE PowerLoss
  <2>1. phase' = "Down" /\ iValidFirstAppData' = Null
    BY <1>12 DEF PowerLoss
  <2> QED
    BY <2>1 DEF FirstOnList, AtElement
<1>13. CASE RestartScan
  BY <1>13, <1>0 DEF RestartScan
<1>14. CASE SpuriousChange
  <2>1. UNCHANGED <<iAppData, iValidFirstAppData, phase>> /\ rescanDue'
    BY <1>14, Zenon DEF SpuriousChange, listVars
  <2> QED
    BY <1>e, <2>1, Zenon
<1>15. ASSUME NEW nna \in BOOLEAN, StopScan(nna)
      PROVE  FirstOnList'
  <2>1. /\ iAppData' = UndoSetPending(iAppData)
        /\ UNCHANGED <<iValidFirstAppData, iAppIconLoader, phase>>
    BY <1>15 DEF StopScan, afterVars
  <2>2. KeepsUids(iAppData, iAppData') /\ Head0(iAppData') = Head0(iAppData)
    BY <1>0, <2>1, UndoSetPendingSame, SameKeeps
  <2>3. ~rescanDue' => ~rescanDue /\ ~iAppIdler
    BY <1>15, Zenon DEF StopScan
  <2>4. AtElement(iAppData', iValidFirstAppData')
    BY <1>0, <2>1, <2>2 DEF AtElement, KeepsUids
  <2> QED
    BY <2>1, <2>2, <2>3, <2>4, Zenon DEF FirstOnList
<1>16. ASSUME NEW u \in Uids, FindSpecificApp(u)
      PROVE  FirstOnList'
  <2>1. PICK f \in FirstRegistrations(u) : \E r \in UpdateNextApp(iAppData, f, iAppRegFinder) :
                iAppData' = r.list
    BY <1>16, Zenon DEF FindSpecificApp
  <2>2. /\ iValidFirstAppData' = iValidFirstAppData /\ phase' = "Up"
        /\ iAppIdler' \/ "StartFails" \in Happens
    BY <1>0, <1>16, Zenon DEF FindSpecificApp, worldVars, scanVars
  <2>3. KeepsUids(iAppData, iAppData') /\ phase' # "Down"
    <3>1. World /\ f \in Files
      BY FirstRegistrationsType DEF ListInv, TypeOK, World
    <3> QED
      BY <1>0, <2>1, <2>2, <3>1, UpdateNextAppKeeps
  <2> QED
    BY <1>b, <2>2, <2>3
<1>17. ASSUME NEW f \in Files, NEW t \in Stamps \cup {Absent}, FsChange(f, t)
      PROVE  FirstOnList'
  <2>1. UNCHANGED <<iAppData, iValidFirstAppData, phase, scanVars, afterVars>>
    BY <1>17 DEF FsChange, listVars
  <2>2. ~rescanDue' => ~rescanDue
    BY <1>17, Zenon DEF FsChange
  <2> QED
    BY <1>e, <2>1, <2>2, Zenon DEF scanVars, afterVars
<1>18. ASSUME NEW l \in Languages, SetLanguage(l)
      PROVE  FirstOnList'
  BY <1>18, <1>e, Zenon DEF SetLanguage, listVars, scanVars, afterVars
<1>19. CASE UNCHANGED vars
  BY <1>19, <1>e, Zenon DEF vars, listVars, scanVars, afterVars, worldVars
<1> HIDE DEF Next
<1> QED
  BY StepCases, <1>1, <1>2, <1>3, <1>4, <1>5, <1>6, <1>7, <1>8, <1>9, <1>10, <1>11, <1>12,
     <1>13, <1>14, <1>15, <1>16, <1>17, <1>18, <1>19, Zenon

(* Init and every step keep FirstApp on the list.                            *)
LEMMA FirstOnListAlways ==
    ASSUME iLoadMbmIconsOnDemand, {"RestartScan", "PurgeFails"} \cap Happens = {}
    PROVE  Spec => []FirstOnList
<1>1. Init => FirstOnList
  BY DEF Init, FirstOnList, AtElement
<1>2. ListInv /\ FirstOnList /\ [Next]_vars => FirstOnList'
  BY NextFirstOnList
<1> QED
  BY <1>1, <1>2, Invariance, PTL DEF Spec

(* FirstApp, which any request may call at any time, never starts at a       *)
(* deleted element if icons are not loaded after a scan and the list is      *)
(* purged only at the end of one, and then wholly.                           *)
THEOREM FirstAppExists ==
    ASSUME iLoadMbmIconsOnDemand, {"RestartScan", "PurgeFails"} \cap Happens = {}
    PROVE  Spec => [](iValidFirstAppData \in ListUids \cup {Null})
<1>1. FirstOnList => iValidFirstAppData \in ListUids \cup {Null}
  BY Zenon DEF FirstOnList, AtElement, ListUids
<1> QED
  BY <1>1, FirstOnListAlways, PTL

(* ... and at rest it starts at the first, unless a rescan could not even be *)
(* started: an element added at the head by the scan stopped before would    *)
(* not be reached.                                                           *)
THEOREM FirstAppValid ==
    ASSUME iLoadMbmIconsOnDemand, {"RestartScan", "StartFails", "PurgeFails"} \cap Happens = {}
    PROVE  Spec => []FirstValid
<1>1. FirstOnList => FirstValid
  BY DEF FirstOnList, FirstValid, AtElement, ListUids, Working, AtRest
<1>2. {"RestartScan", "PurgeFails"} \cap Happens = {}
  OBVIOUS
<1> QED
  BY <1>1, <1>2, FirstOnListAlways, PTL
=============================================================================
