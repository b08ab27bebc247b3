------------------------------ MODULE UpdateLogProofs ------------------------------
(***************************************************************************)
(* What a replay makes of the update log, record by record, whatever is in *)
(* it, and the types of NonNativeUpdates: no crash, no leave and no        *)
(* corrupt log takes the recovery out of the list it is rebuilding.        *)
(***************************************************************************)
EXTENDS NonNativeUpdates, FiniteSetTheorems, SequenceTheorems, WellFoundedInduction, TLAPS

Types == {"Register", "Deregister"}

Updates == [type : Types, app : Apps, state : States, det : [AllKinds -> Details]]

LogRecords ==
    [r : {"new"}, type : Types, app : Apps, det : [AllKinds -> Details]]
    \cup [r : {"section"}, what : {"perform", "rollback"}, type : Types, app : Apps]
    \cup [r : {"state"}, state : States]
    \cup [r : {"note"}, kind : AllKinds, det : Details]
    \cup [r : {"end"}]

Readings == [list : Seq(Updates), cur : Nat, section : {"none", "perform", "rollback"},
             reading : BOOLEAN, length : Nat, fix : BOOLEAN]

(* A reading of the log whose current update is one of its list.             *)
GoodReading(p) ==
    /\ p \in Readings
    /\ p.cur <= Len(p.list)
    /\ p.section # "none" => p.cur # 0

(* The steps of each phase; files are left to deal with only between the     *)
(* first of them and the note on the last.                                   *)
StepFits ==
    /\ Working => at \in 1..Len(updates)
    /\ phase = "performing" =>
         step \in {"new", "section", "Performing", "find", "move", "note", "Performed", "end"}
    /\ phase = "rollingBack" =>
         step \in {"section", "RollingBack", "undo", "note", "RolledBack", "end"}
    /\ ~Working => step = "none"
    /\ left # {} <=> step \in {"move", "undo", "note"}
    /\ step = "find" => cur.type = "Deregister"
    /\ phase = "performing" /\ cur.type = "Deregister" =>
         \A k \in left : cur.det[k].path \in Names

(* The log never tells of more updates than the list in memory had.          *)
LogFits ==
    /\ log \in Seq(LogRecords)
    /\ Len(Replay(log).list) <= MaxUpdates
    /\ phase = "performing" => Len(Replay(log).list) <= IF step = "new" THEN at - 1 ELSE at

TypeInv == TypeOK /\ StepFits /\ LogFits


-------------------------------------------------------------------------------
(* The kinds of file and their order. *)

(* A set of natural numbers that is not empty has a least element.           *)
LEMMA LeastNat ==
    ASSUME NEW T \in SUBSET Nat, T # {}
    PROVE  \E x \in T : \A y \in T : x <= y
<1> DEFINE R == StrictSubsetOrdering(Nat)
           F == FiniteSubsetsOf(Nat)
           W == {0 .. x : x \in T}
<1>1. IsWellFoundedOn(R, F)
  BY FS_StrictSubsetOrderingWellFounded
<1>2. W \subseteq F
  <2> SUFFICES ASSUME NEW x \in T PROVE 0 .. x \in F
    OBVIOUS
  <2>1. IsFiniteSet(0 .. x)
    BY FS_Interval
  <2> QED
    BY <2>1 DEF FiniteSubsetsOf
<1>3. PICK w \in W : \A v \in W : <<v, w>> \notin R
  <2>1. W # {}
    OBVIOUS
  <2> HIDE DEF R, F, W
  <2> QED
    BY <1>1, <1>2, <2>1, WFMin, Zenon
<1>4. PICK x \in T : w = 0 .. x
  OBVIOUS
<1>5. SUFFICES ASSUME NEW y \in T, y < x PROVE FALSE
  OBVIOUS
<1>6. 0 .. y \subseteq 0 .. x /\ 0 .. y # 0 .. x
  <2>1. x \in 0 .. x /\ x \notin 0 .. y
    BY <1>5
  <2> QED
    BY <1>5, <2>1
<1>7. 0 .. y \in W /\ 0 .. y \in F /\ 0 .. x \in F
  BY <1>2
<1>8. <<0 .. y, w>> \in R
  BY <1>4, <1>6, <1>7 DEF StrictSubsetOrdering, FiniteSubsetsOf
<1> QED
  BY <1>3, <1>7, <1>8

(* Induction up to m: what is true of 0 and passes to the next number is     *)
(* true of all.                                                              *)
LEMMA UpTo ==
    ASSUME NEW m \in Nat, NEW T, 0 \in T,
           \A n \in 1..m : n - 1 \in T => n \in T
    PROVE  0..m \subseteq T
<1> DEFINE S == {n \in 0..m : n \notin T}
<1>1. SUFFICES ASSUME S # {} PROVE FALSE
  OBVIOUS
<1>2. PICK n \in S : \A y \in S : n <= y
  <2>1. S \in SUBSET Nat
    OBVIOUS
  <2> HIDE DEF S
  <2> QED
    BY <1>1, <2>1, LeastNat
<1>3. n # 0 /\ n \in 1..m
  OBVIOUS
<1>4. n - 1 \in 0..m /\ ~(n <= n - 1)
  BY <1>3
<1>5. n - 1 \in T
  BY <1>2, <1>4
<1> QED
  BY <1>3, <1>5

(* The kinds of file are a sequence, and not an empty one.                   *)
LEMMA KindsTyped == Kinds \in Seq(STRING) /\ Len(Kinds) \in Nat \ {0} /\ AllKinds = {Kinds[i] : i \in 1..Len(Kinds)}
BY KindsAssumption DEF AllKinds, Range

(* The registration file is one of the kinds.                                *)
LEMMA ResourceIsKind == Resource \in AllKinds
BY KindsTyped DEF Resource

(* Every kind is at a position.                                              *)
LEMMA PositionOf ==
    \A k \in AllKinds : Position(k) \in 1..Len(Kinds) /\ Kinds[Position(k)] = k
BY KindsTyped DEF Position

(* The registration file is the first kind.                                  *)
LEMMA PositionOfResource == Position(Resource) = 1
<1>1. Position(Resource) \in 1..Len(Kinds) /\ Kinds[Position(Resource)] = Kinds[1]
  BY PositionOf, ResourceIsKind DEF Resource
<1> QED
  BY <1>1, KindsAssumption, KindsTyped DEF IsInjective

(* The first of some kinds: the registration file if it is one of them.      *)
LEMMA FirstKindOf ==
    ASSUME NEW kinds \in SUBSET AllKinds, kinds # {}
    PROVE  /\ FirstKind(kinds) \in kinds
           /\ Resource \in kinds => FirstKind(kinds) = Resource
<1> DEFINE T == {Position(k) : k \in kinds}
<1>1. T \in SUBSET Nat /\ T # {}
  BY PositionOf
<1>2. PICK x \in T : \A y \in T : x <= y
  <2> HIDE DEF T
  <2> QED
    BY <1>1, LeastNat
<1>3. \E k \in kinds : \A l \in kinds : Position(k) <= Position(l)
  BY <1>2
<1>4. FirstKind(kinds) \in kinds /\ \A l \in kinds : Position(FirstKind(kinds)) <= Position(l)
  BY <1>3 DEF FirstKind
<1>5. ASSUME Resource \in kinds PROVE FirstKind(kinds) = Resource
  <2> DEFINE f == FirstKind(kinds)
  <2>1. Position(f) <= 1 /\ Position(f) \in 1..Len(Kinds) /\ Kinds[Position(f)] = f
    BY <1>4, <1>5, PositionOf, PositionOfResource
  <2>2. Position(f) = 1
    BY <2>1, KindsTyped
  <2> QED
    BY <2>1, <2>2 DEF Resource
<1> QED
  BY <1>4, <1>5

(* The last of some kinds is one of them.                                    *)
LEMMA LastKindOf ==
    ASSUME NEW kinds \in SUBSET AllKinds, kinds # {}
    PROVE  LastKind(kinds) \in kinds
<1> DEFINE T == {Len(Kinds) - Position(k) : k \in kinds}
<1>1. T \in SUBSET Nat /\ T # {}
  BY PositionOf, KindsTyped
<1>2. PICK x \in T : \A y \in T : x <= y
  <2> HIDE DEF T
  <2> QED
    BY <1>1, LeastNat
<1>3. PICK k \in kinds : x = Len(Kinds) - Position(k)
  OBVIOUS
<1>4. ASSUME NEW l \in kinds PROVE Position(l) <= Position(k)
  <2>1. x <= Len(Kinds) - Position(l)
    BY <1>2
  <2> QED
    BY <1>3, <2>1, PositionOf, KindsTyped
<1> QED
  BY <1>4 DEF LastKind

(* The file at work is one of those left.                                    *)
LEMMA KindAtWork == left \subseteq AllKinds /\ left # {} => Kind \in left
BY FirstKindOf, LastKindOf DEF Kind

(* No file has the empty name.                                               *)
LEMMA NamesNotEmpty == ASSUME NEW a, NEW k PROVE <<a, k>> # NoName
BY DEF NoName

-------------------------------------------------------------------------------
(* Replaying a log, record by record. *)

(* What is read after each of the first m records, g[0] before the first.    *)
ReadingsOf(g, records, m) ==
    g = [n \in 0..m |->
            IF n = 0 THEN Start
            ELSE CHOOSE q \in {ReadRecord(p, records[n]) : p \in {g[n - 1]}} : TRUE]

FunctionUpTo(g, m) == g = [n \in 0..m |-> g[n]]

(* The choice in Replay is the reading of one record.                        *)
LEMMA ReadOne ==
    ASSUME NEW p, NEW record
    PROVE  (CHOOSE q \in {ReadRecord(x, record) : x \in {p}} : TRUE) = ReadRecord(p, record)
OBVIOUS

(* A function that starts with Start and reads one record after the other is *)
(* the one Replay picks.                                                     *)
LEMMA ReadingsAre ==
    ASSUME NEW g, NEW records, NEW m \in Nat
    PROVE  ReadingsOf(g, records, m)
           <=> /\ FunctionUpTo(g, m)
               /\ g[0] = Start
               /\ \A n \in 1..m : g[n] = ReadRecord(g[n - 1], records[n])
<1> DEFINE body(n) == IF n = 0 THEN Start
                      ELSE CHOOSE q \in {ReadRecord(p, records[n]) : p \in {g[n - 1]}} : TRUE
<1>1. body(0) = Start
  OBVIOUS
<1>2. \A n \in 1..m : body(n) = ReadRecord(g[n - 1], records[n])
  <2> TAKE n \in 1..m
  <2>1. n # 0
    OBVIOUS
  <2>2. (CHOOSE q \in {ReadRecord(p, records[n]) : p \in {g[n - 1]}} : TRUE) = ReadRecord(g[n - 1], records[n])
    BY ReadOne
  <2> QED
    BY <2>1, <2>2
<1>3. ReadingsOf(g, records, m) <=> g = [n \in 0..m |-> body(n)]
  BY DEF ReadingsOf
<1> HIDE DEF body
<1>4. g = [n \in 0..m |-> body(n)] <=> FunctionUpTo(g, m) /\ \A n \in 0..m : g[n] = body(n)
  BY DEF FunctionUpTo
<1>5. \A n \in 0..m : n = 0 \/ n \in 1..m
  OBVIOUS
<1> QED
  BY <1>1, <1>2, <1>3, <1>4, <1>5

(* The readings of the prefixes exist, each from the one before.             *)
LEMMA ReadingsExist ==
    ASSUME NEW records, NEW m \in Nat
    PROVE  \E g : ReadingsOf(g, records, m)
<1> DEFINE T == {l \in 0..m : \E g : ReadingsOf(g, records, l)}
<1>1. 0 \in T
  <2> DEFINE g == [n \in 0..0 |-> Start]
  <2>1. ReadingsOf(g, records, 0)
    <3>1. FunctionUpTo(g, 0) /\ g[0] = Start
      BY DEF FunctionUpTo
    <3> HIDE DEF g
    <3> QED
      BY <3>1, ReadingsAre
  <2> QED
    BY <2>1
<1>2. ASSUME NEW l \in 1..m, l - 1 \in T PROVE l \in T
  <2>1. PICK f : ReadingsOf(f, records, l - 1)
    BY <1>2
  <2>2. /\ FunctionUpTo(f, l - 1) /\ f[0] = Start
        /\ \A n \in 1..(l - 1) : f[n] = ReadRecord(f[n - 1], records[n])
    <3>1. l - 1 \in Nat
      OBVIOUS
    <3> QED
      BY <2>1, <3>1, ReadingsAre
  <2> DEFINE g == [n \in 0..l |-> IF n = l THEN ReadRecord(f[l - 1], records[l]) ELSE f[n]]
  <2>3. g[0] = Start
    BY <2>2
  <2>4. ASSUME NEW n \in 1..l PROVE g[n] = ReadRecord(g[n - 1], records[n])
    <3>1. n - 1 \in 0..l /\ n - 1 # l /\ n - 1 \in 0..(l - 1)
      OBVIOUS
    <3>2. g[n - 1] = f[n - 1]
      BY <3>1
    <3>3. CASE n = l
      BY <3>2, <3>3
    <3>4. CASE n # l
      <4>1. n \in 1..(l - 1)
        BY <3>4
      <4>2. f[n] = ReadRecord(f[n - 1], records[n])
        BY <2>2, <4>1
      <4> QED
        BY <3>2, <3>4, <4>2
    <3> QED
      BY <3>3, <3>4
  <2>5. FunctionUpTo(g, l) /\ l \in Nat
    BY DEF FunctionUpTo
  <2> HIDE DEF g
  <2>6. ReadingsOf(g, records, l)
    BY <2>3, <2>4, <2>5, ReadingsAre
  <2> QED
    BY <2>6
<1> HIDE DEF T
<1>3. 0..m \subseteq T
  BY <1>1, <1>2, UpTo
<1> QED
  BY <1>3 DEF T

(* What a replay makes of a log: Start, then one record after the other.     *)
LEMMA ReplayIs ==
    ASSUME NEW records, Len(records) \in Nat
    PROVE  \E g : ReadingsOf(g, records, Len(records)) /\ Replay(records) = g[Len(records)]
<1> DEFINE after == CHOOSE g : ReadingsOf(g, records, Len(records))
<1>1. ReadingsOf(after, records, Len(records))
  BY ReadingsExist
<1>2. Replay(records) = after[Len(records)]
  BY DEF Replay, ReadingsOf
<1> QED
  BY <1>1, <1>2

(* Logs that begin alike read alike so far.                                  *)
LEMMA ReadingsAgree ==
    ASSUME NEW f, NEW s, NEW m \in Nat, ReadingsOf(f, s, m),
           NEW g, NEW t, NEW l \in Nat, ReadingsOf(g, t, l),
           m <= l, \A n \in 1..m : s[n] = t[n]
    PROVE  f[m] = g[m]
<1> DEFINE T == {n \in 0..m : f[n] = g[n]}
<1>1. f[0] = Start /\ \A n \in 1..m : f[n] = ReadRecord(f[n - 1], s[n])
  BY ReadingsAre
<1>2. g[0] = Start /\ \A n \in 1..l : g[n] = ReadRecord(g[n - 1], t[n])
  BY ReadingsAre
<1>3. 0 \in T
  BY <1>1, <1>2
<1>4. ASSUME NEW n \in 1..m, n - 1 \in T PROVE n \in T
  <2>1. f[n] = ReadRecord(f[n - 1], s[n])
    BY <1>1
  <2>2. g[n] = ReadRecord(g[n - 1], t[n])
    BY <1>2
  <2> QED
    BY <1>4, <2>1, <2>2
<1> HIDE DEF T
<1>5. 0..m \subseteq T
  BY <1>3, <1>4, UpTo
<1> QED
  BY <1>5 DEF T

(* An empty log tells of nothing.                                            *)
LEMMA ReplayEmpty == Replay(<<>>) = Start
<1>1. Len(<<>>) = 0
  OBVIOUS
<1>2. PICK g : ReadingsOf(g, <<>>, 0) /\ Replay(<<>>) = g[0]
  BY <1>1, ReplayIs
<1>3. g[0] = Start
  BY <1>2, ReadingsAre
<1> QED
  BY <1>2, <1>3

(* What the records read so far make does not depend on those after them.    *)
LEMMA ReplayPrefix ==
    ASSUME NEW S, NEW records \in Seq(S), NEW g, ReadingsOf(g, records, Len(records)),
           NEW m \in 0..Len(records)
    PROVE  Replay(SubSeq(records, 1, m)) = g[m]
<1> DEFINE s == SubSeq(records, 1, m)
<1>1. Len(records) \in Nat /\ m \in Nat /\ m <= Len(records)
  OBVIOUS
<1>2. Len(s) = m /\ \A n \in 1..m : s[n] = records[n]
  OBVIOUS
<1> HIDE DEF s
<1>3. PICK f : ReadingsOf(f, s, m) /\ Replay(s) = f[m]
  BY <1>1, <1>2, ReplayIs
<1>4. f[m] = g[m]
  BY <1>1, <1>2, <1>3, ReadingsAgree
<1> QED
  BY <1>3, <1>4 DEF s

(* A record more is read after all the others.                               *)
LEMMA ReplayAppend ==
    ASSUME NEW S, NEW records \in Seq(S), NEW record \in S
    PROVE  Replay(Append(records, record)) = ReadRecord(Replay(records), record)
<1> DEFINE s == Append(records, record)
           m == Len(records)
<1>1. s \in Seq(S) /\ Len(s) = m + 1 /\ m \in Nat /\ m + 1 \in Nat /\ s[m + 1] = record
  OBVIOUS
<1>2. \A n \in 1..m : records[n] = s[n]
  OBVIOUS
<1> HIDE DEF s, m
<1>3. PICK g : ReadingsOf(g, s, m + 1) /\ Replay(s) = g[m + 1]
  BY <1>1, ReplayIs
<1>4. PICK f : ReadingsOf(f, records, m) /\ Replay(records) = f[m]
  BY <1>1, ReplayIs DEF m
<1>5. f[m] = g[m]
  <2>1. m <= m + 1
    BY <1>1
  <2> QED
    BY <1>1, <1>2, <1>3, <1>4, <2>1, ReadingsAgree
<1>6. g[m + 1] = ReadRecord(g[m], s[m + 1])
  <2>1. m + 1 \in 1..(m + 1) /\ (m + 1) - 1 = m
    BY <1>1
  <2>2. \A n \in 1..(m + 1) : g[n] = ReadRecord(g[n - 1], s[n])
    BY <1>1, <1>3, ReadingsAre
  <2> QED
    BY <2>1, <2>2
<1> QED
  BY <1>1, <1>3, <1>4, <1>5, <1>6 DEF s

(* What a good reading consists of.                                          *)
LEMMA GoodReadingOf ==
    ASSUME NEW list \in Seq(Updates), NEW c \in Nat, c <= Len(list),
           NEW section \in {"none", "perform", "rollback"}, section # "none" => c # 0,
           NEW reading \in BOOLEAN, NEW length \in Nat, NEW fix \in BOOLEAN
    PROVE  GoodReading([list |-> list, cur |-> c, section |-> section, reading |-> reading,
                        length |-> length, fix |-> fix])
BY DEF GoodReading, Readings

(* Every record leaves the reading with a list of updates and one of them at *)
(* work; only a new update makes the list longer.                            *)
LEMMA ReadRecordTyped ==
    ASSUME NEW p, GoodReading(p), NEW record \in LogRecords
    PROVE  /\ GoodReading(ReadRecord(p, record))
           /\ Len(ReadRecord(p, record).list) <= Len(p.list) + 1
           /\ record.r # "new" => Len(ReadRecord(p, record).list) = Len(p.list)
<1> DEFINE next == ReadRecord(p, record)
<1>0. /\ p \in Readings /\ p.cur <= Len(p.list) /\ (p.section # "none" => p.cur # 0)
      /\ p.list \in Seq(Updates) /\ Len(p.list) \in Nat /\ p.cur \in Nat
  BY DEF GoodReading, Readings
<1>a. /\ p.section \in {"none", "perform", "rollback"} /\ p.reading \in BOOLEAN
      /\ p.length \in Nat /\ p.length + 1 \in Nat /\ p.fix \in BOOLEAN
      /\ p = [list |-> p.list, cur |-> p.cur, section |-> p.section, reading |-> p.reading,
              length |-> p.length, fix |-> p.fix]
  BY <1>0 DEF Readings
<1>1. GoodReading(Corrupt(p)) /\ Corrupt(p).list = p.list
  BY <1>0 DEF GoodReading, Readings, Corrupt
<1>2. CASE ~p.reading
  BY <1>0, <1>2 DEF ReadRecord
<1>3. CASE p.reading /\ p.section # "none"
  <2>1. next = ReadInSection(p, record)
    BY <1>3 DEF ReadRecord
  <2>2. p.cur \in 1..Len(p.list) /\ p.list[p.cur] \in Updates
    BY <1>0, <1>3
  <2>3. CASE record.r = "state"
    <3>1. record.state \in States
      BY <2>3 DEF LogRecords
    <3>2. next = [p EXCEPT !.length = p.length + 1, !.list[p.cur].state = record.state]
      BY <2>1, <2>3 DEF ReadInSection
    <3> DEFINE list == [p.list EXCEPT ![p.cur].state = record.state]
    <3>3. list \in Seq(Updates) /\ Len(list) = Len(p.list)
      BY <1>0, <2>2, <3>1 DEF Updates
    <3>4. next = [list |-> list, cur |-> p.cur, section |-> p.section, reading |-> p.reading,
                  length |-> p.length + 1, fix |-> p.fix]
      BY <1>a, <3>2
    <3> HIDE DEF list
    <3>5. GoodReading([list |-> list, cur |-> p.cur, section |-> p.section, reading |-> p.reading,
                       length |-> p.length + 1, fix |-> p.fix])
      BY <1>0, <1>a, <3>3, GoodReadingOf
    <3> QED
      BY <1>0, <2>3, <3>3, <3>4, <3>5
  <2>4. CASE record.r = "note"
    <3>1. record.kind \in AllKinds /\ record.det \in Details
      BY <2>4 DEF LogRecords
    <3>2. next = [p EXCEPT !.length = p.length + 1, !.list[p.cur].det[record.kind] = record.det]
      BY <2>1, <2>4 DEF ReadInSection
    <3> DEFINE list == [p.list EXCEPT ![p.cur].det[record.kind] = record.det]
    <3>3. list \in Seq(Updates) /\ Len(list) = Len(p.list)
      BY <1>0, <2>2, <3>1 DEF Updates
    <3>4. next = [list |-> list, cur |-> p.cur, section |-> p.section, reading |-> p.reading,
                  length |-> p.length + 1, fix |-> p.fix]
      BY <1>a, <3>2
    <3> HIDE DEF list
    <3>5. GoodReading([list |-> list, cur |-> p.cur, section |-> p.section, reading |-> p.reading,
                       length |-> p.length + 1, fix |-> p.fix])
      BY <1>0, <1>a, <3>3, GoodReadingOf
    <3> QED
      BY <1>0, <2>4, <3>3, <3>4, <3>5
  <2>5. CASE record.r = "end"
    <3>1. PICK c \in {p.cur, p.cur - 1} :
            next = [p EXCEPT !.length = p.length + 1, !.section = "none", !.fix = FALSE, !.cur = c]
      BY <2>1, <2>5 DEF ReadInSection
    <3>2. c \in Nat /\ c <= Len(p.list)
      BY <1>0, <2>2
    <3>3. next = [list |-> p.list, cur |-> c, section |-> "none", reading |-> p.reading,
                  length |-> p.length + 1, fix |-> FALSE]
      BY <1>a, <3>1
    <3>4. GoodReading(next)
      BY <1>0, <1>a, <3>2, <3>3, GoodReadingOf
    <3> QED
      BY <1>0, <2>5, <3>3, <3>4
  <2>6. CASE record.r \notin {"state", "note", "end"}
    <3>1. next = Corrupt(p)
      BY <2>1, <2>6 DEF ReadInSection
    <3> QED
      BY <1>0, <1>1, <3>1
  <2> QED
    BY <2>3, <2>4, <2>5, <2>6
<1>4. CASE p.reading /\ p.section = "none" /\ record.r = "new"
  <2>1. next = ReadNew(p, record)
    BY <1>4 DEF ReadRecord
  <2> DEFINE u == [type |-> record.type, app |-> record.app, state |-> "New", det |-> record.det]
  <2>2. u \in Updates
    BY <1>4 DEF LogRecords, Updates, States
  <2>3. \/ next = Corrupt(p)
        \/ next = [p EXCEPT !.list = Append(p.list, u), !.cur = Len(p.list) + 1, !.length = p.length + 1]
    BY <2>1 DEF ReadNew
  <2>4. Append(p.list, u) \in Seq(Updates) /\ Len(Append(p.list, u)) = Len(p.list) + 1
    BY <1>0, <2>2
  <2>5. CASE next # Corrupt(p)
    <3>1. next = [list |-> Append(p.list, u), cur |-> Len(p.list) + 1, section |-> p.section,
                  reading |-> p.reading, length |-> p.length + 1, fix |-> p.fix]
      BY <1>a, <2>3, <2>5
    <3> DEFINE list == Append(p.list, u)
    <3> HIDE DEF list
    <3>2. GoodReading([list |-> list, cur |-> Len(p.list) + 1, section |-> p.section,
                       reading |-> p.reading, length |-> p.length + 1, fix |-> p.fix])
      <4>1. list \in Seq(Updates) /\ Len(p.list) + 1 \in Nat /\ Len(p.list) + 1 <= Len(list)
        BY <1>0, <2>4 DEF list
      <4>2. p.section # "none" => Len(p.list) + 1 # 0
        BY <1>0
      <4> QED
        BY <1>a, <4>1, <4>2, GoodReadingOf
    <3> QED
      BY <1>0, <1>4, <2>4, <3>1, <3>2 DEF list
  <2> QED
    BY <1>0, <1>1, <1>4, <2>5
<1>5. CASE p.reading /\ p.section = "none" /\ record.r = "section"
  <2>1. next = ReadSection(p, record) /\ record.what \in {"perform", "rollback"}
    BY <1>5 DEF ReadRecord, LogRecords
  <2>2. \/ next = Corrupt([p EXCEPT !.length = p.length + 1, !.fix = TRUE])
        \/ p.cur # 0 /\ next = [p EXCEPT !.length = p.length + 1, !.fix = TRUE, !.section = record.what]
    BY <2>1 DEF ReadSection
  <2>3. PICK b \in BOOLEAN, what \in {"none", "perform", "rollback"} :
          /\ what # "none" => p.cur # 0
          /\ next = [list |-> p.list, cur |-> p.cur, section |-> what, reading |-> b,
                     length |-> p.length + 1, fix |-> TRUE]
    BY <1>0, <1>a, <1>5, <2>1, <2>2 DEF Corrupt
  <2>4. GoodReading([list |-> p.list, cur |-> p.cur, section |-> what, reading |-> b,
                     length |-> p.length + 1, fix |-> TRUE])
    BY <1>0, <1>a, <2>3, GoodReadingOf
  <2> QED
    BY <1>0, <1>5, <2>3, <2>4
<1>6. CASE p.reading /\ p.section = "none" /\ record.r \notin {"new", "section"}
  <2>1. next = Corrupt(p)
    BY <1>6 DEF ReadRecord
  <2> QED
    BY <1>0, <1>1, <2>1
<1> QED
  BY <1>2, <1>3, <1>4, <1>5, <1>6

(* A replay begins with a good reading.                                      *)
LEMMA StartIsGood == GoodReading(Start)
<1>1. <<>> \in Seq(Updates) /\ 0 <= Len(<<>>)
  OBVIOUS
<1>2. GoodReading([list |-> <<>>, cur |-> 0, section |-> "none", reading |-> TRUE, length |-> 0, fix |-> FALSE])
  BY <1>1, GoodReadingOf
<1> QED
  BY <1>2 DEF Start

(* Reading stops for good at the first record that does not fit; the length  *)
(* counts the records up to there.                                           *)
LEMMA ReadRecordLength ==
    ASSUME NEW p \in Readings, NEW record, NEW n \in Nat, p.length \in 0..n, p.reading => p.length = n
    PROVE  LET next == ReadRecord(p, record) IN
           /\ next.length \in 0..(n + 1)
           /\ next.reading => next.length = n + 1
           /\ \/ next.length = n + 1
              \/ next.length = p.length /\ next.list = p.list
<1>0. p.reading \in BOOLEAN /\ p.length \in Nat
  BY DEF Readings
<1> DEFINE next == ReadRecord(p, record)
           after == [p EXCEPT !.length = p.length + 1]
<1>1. \/ next = p /\ ~p.reading
      \/ next = Corrupt(p)
      \/ p.reading /\ next.length = p.length + 1
  <2>1. CASE ~p.reading
    BY <2>1 DEF ReadRecord
  <2>2. CASE p.reading /\ p.section # "none"
    BY <2>2 DEF ReadRecord, ReadInSection, Readings
  <2>3. CASE p.reading /\ p.section = "none" /\ record.r = "new"
    BY <2>3 DEF ReadRecord, ReadNew, Readings
  <2>4. CASE p.reading /\ p.section = "none" /\ record.r = "section"
    BY <2>4 DEF ReadRecord, ReadSection, Readings, Corrupt
  <2>5. CASE p.reading /\ p.section = "none" /\ record.r \notin {"new", "section"}
    BY <2>5 DEF ReadRecord
  <2> QED
    BY <1>0, <2>1, <2>2, <2>3, <2>4, <2>5
<1>2. Corrupt(p).length = p.length /\ Corrupt(p).list = p.list /\ ~Corrupt(p).reading
  BY DEF Corrupt, Readings
<1> HIDE DEF next
<1> QED
  BY <1>0, <1>1, <1>2 DEF next

(* Every prefix of a log gives a good reading, no longer than the prefix.    *)
LEMMA ReplayOfPrefixes ==
    ASSUME NEW records \in Seq(LogRecords), NEW g, ReadingsOf(g, records, Len(records)), NEW n \in 0..Len(records)
    PROVE  /\ GoodReading(g[n])
           /\ g[n].length \in 0..n
           /\ g[n].reading => g[n].length = n
           /\ g[g[n].length].list = g[n].list
<1> DEFINE m == Len(records)
           Good(l) == /\ GoodReading(g[l]) /\ g[l].length \in 0..l
                      /\ g[l].reading => g[l].length = l
                      /\ g[g[l].length].list = g[l].list
           T == {l \in 0..m : Good(l)}
<1>1. m \in Nat
  OBVIOUS
<1>2. g[0] = Start /\ \A l \in 1..m : g[l] = ReadRecord(g[l - 1], records[l])
  BY <1>1, ReadingsAre
<1>3. 0 \in T
  <2>1. Start.length = 0
    BY DEF Start
  <2> QED
    BY <1>1, <1>2, <2>1, StartIsGood
<1>4. ASSUME NEW l \in 1..m, l - 1 \in T PROVE l \in T
  <2>1. Good(l - 1) /\ l - 1 \in Nat /\ l \in 0..m
    BY <1>4
  <2>2. g[l] = ReadRecord(g[l - 1], records[l]) /\ records[l] \in LogRecords
    BY <1>2
  <2>3. GoodReading(g[l])
    BY <2>1, <2>2, ReadRecordTyped
  <2>4. g[l - 1] \in Readings
    BY <2>1 DEF GoodReading
  <2>5. /\ g[l].length \in 0..((l - 1) + 1)
        /\ g[l].reading => g[l].length = (l - 1) + 1
        /\ \/ g[l].length = (l - 1) + 1
           \/ g[l].length = g[l - 1].length /\ g[l].list = g[l - 1].list
    BY <2>1, <2>2, <2>4, ReadRecordLength
  <2>6. g[g[l].length].list = g[l].list
    BY <2>1, <2>5
  <2>7. Good(l)
    BY <2>3, <2>5, <2>6
  <2> QED
    BY <2>1, <2>7
<1> HIDE DEF T
<1>5. 0..m \subseteq T
  BY <1>1, <1>3, <1>4, UpTo
<1> QED
  BY <1>5 DEF T

(* Every log gives a good reading.                                           *)
LEMMA ReplayTyped ==
    ASSUME NEW records \in Seq(LogRecords)
    PROVE  /\ GoodReading(Replay(records))
           /\ Replay(records).length \in 0..Len(records)
<1>1. Len(records) \in Nat /\ Len(records) \in 0..Len(records)
  OBVIOUS
<1>2. PICK g : ReadingsOf(g, records, Len(records)) /\ Replay(records) = g[Len(records)]
  BY <1>1, ReplayIs
<1> QED
  BY <1>1, <1>2, ReplayOfPrefixes

(* What the recovery keeps of the log reads like the whole.                  *)
LEMMA ReplayTruncated ==
    ASSUME NEW records \in Seq(LogRecords)
    PROVE  Replay(SubSeq(records, 1, Replay(records).length)).list = Replay(records).list
<1>1. Len(records) \in Nat /\ Len(records) \in 0..Len(records)
  OBVIOUS
<1>2. PICK g : ReadingsOf(g, records, Len(records)) /\ Replay(records) = g[Len(records)]
  BY <1>1, ReplayIs
<1>3. /\ Replay(records).length \in 0..Len(records)
      /\ g[Replay(records).length].list = Replay(records).list
  BY <1>1, <1>2, ReplayOfPrefixes
<1>4. Replay(SubSeq(records, 1, Replay(records).length)) = g[Replay(records).length]
  BY <1>2, <1>3, ReplayPrefix
<1> QED
  BY <1>3, <1>4

-------------------------------------------------------------------------------
(* Types. *)

FileStates == {"Null", "Temporary", "Real"}

(* The parts of an update.                                                   *)
LEMMA UpdateParts ==
    ASSUME NEW list \in Seq(Updates), NEW i \in 1..Len(list)
    PROVE  /\ list[i] \in Updates /\ list[i].type \in Types /\ list[i].app \in Apps
           /\ list[i].state \in States
           /\ \A k \in AllKinds : list[i].det[k] \in Details
<1>1. list[i] \in Updates
  OBVIOUS
<1> QED
  BY <1>1 DEF Updates

(* An update stays one when its state or the details of a file change.       *)
LEMMA UpdateChanges ==
    ASSUME NEW list \in Seq(Updates), NEW i \in 1..Len(list)
    PROVE  /\ \A s \in States :
                LET new == [list EXCEPT ![i].state = s] IN new \in Seq(Updates) /\ Len(new) = Len(list)
           /\ \A k \in AllKinds, d \in Details :
                LET new == [list EXCEPT ![i].det[k] = d] IN new \in Seq(Updates) /\ Len(new) = Len(list)
           /\ \A k \in AllKinds, s \in FileStates :
                LET new == [list EXCEPT ![i].det[k].state = s] IN new \in Seq(Updates) /\ Len(new) = Len(list)
           /\ \A f \in [AllKinds -> Details] :
                LET new == [list EXCEPT ![i].det = f] IN new \in Seq(Updates) /\ Len(new) = Len(list)
<1> DEFINE Is(new) == new \in Seq(Updates) /\ Len(new) = Len(list)
<1>1. list[i] \in Updates
  OBVIOUS
<1>2. ASSUME NEW u \in Updates PROVE Is([list EXCEPT ![i] = u])
  OBVIOUS
<1>3. ASSUME NEW s \in States PROVE [list[i] EXCEPT !.state = s] \in Updates
  BY <1>1 DEF Updates
<1>4. ASSUME NEW f \in [AllKinds -> Details] PROVE [list[i] EXCEPT !.det = f] \in Updates
  BY <1>1 DEF Updates
<1>5. ASSUME NEW k \in AllKinds, NEW d \in Details PROVE [list[i].det EXCEPT ![k] = d] \in [AllKinds -> Details]
  BY <1>1 DEF Updates
<1>6. ASSUME NEW k \in AllKinds, NEW s \in FileStates
      PROVE  [list[i].det[k] EXCEPT !.state = s] \in Details
  BY <1>1 DEF Updates, Details, FileStates
<1>7. ASSUME NEW s \in States PROVE Is([list EXCEPT ![i].state = s])
  BY <1>2, <1>3
<1>8. ASSUME NEW k \in AllKinds, NEW d \in Details PROVE Is([list EXCEPT ![i].det[k] = d])
  BY <1>2, <1>4, <1>5
<1>9. ASSUME NEW k \in AllKinds, NEW s \in FileStates PROVE Is([list EXCEPT ![i].det[k].state = s])
  BY <1>2, <1>4, <1>5, <1>6
<1>10. ASSUME NEW f \in [AllKinds -> Details] PROVE Is([list EXCEPT ![i].det = f])
  BY <1>2, <1>4
<1> QED
  BY <1>7, <1>8, <1>9, <1>10

(* What the server writes are records.                                       *)
LEMMA RecordsTyped ==
    /\ \A u \in Updates :
         /\ NewRecord(u) \in LogRecords /\ NewRecord(u).r = "new"
         /\ \A what \in {"perform", "rollback"} :
              SectionRecord(what, u) \in LogRecords /\ SectionRecord(what, u).r = "section"
         /\ \A k \in AllKinds : Noted(u, k) \in Details
    /\ \A s \in States : StateRecord(s) \in LogRecords /\ StateRecord(s).r = "state"
    /\ \A k \in AllKinds, d \in Details : NoteRecord(k, d) \in LogRecords /\ NoteRecord(k, d).r = "note"
    /\ EndRecord \in LogRecords /\ EndRecord.r = "end"
<1>1. ASSUME NEW u \in Updates
      PROVE  /\ NewRecord(u) \in LogRecords /\ NewRecord(u).r = "new"
             /\ \A what \in {"perform", "rollback"} :
                  SectionRecord(what, u) \in LogRecords /\ SectionRecord(what, u).r = "section"
             /\ \A k \in AllKinds : Noted(u, k) \in Details
  BY ResourceIsKind DEF Updates, NewRecord, SectionRecord, Noted, LogRecords
<1> QED
  BY <1>1 DEF StateRecord, NoteRecord, EndRecord, LogRecords

(* Empty details are details.                                                *)
LEMMA NoDetailsTyped == NoDetails \in Details
BY DEF NoDetails, Details, NoName

(* A record more in the log. *)
LEMMA LogGrows ==
    ASSUME log \in Seq(LogRecords), NEW record \in LogRecords, log' = Append(log, record)
    PROVE  /\ log' \in Seq(LogRecords)
           /\ Replay(log)' = ReadRecord(Replay(log), record)
           /\ Len(Replay(log)'.list) <= Len(Replay(log).list) + 1
           /\ record.r # "new" => Len(Replay(log)'.list) = Len(Replay(log).list)
           /\ Len(Replay(log)'.list) \in Nat /\ Len(Replay(log).list) \in Nat
<1>1. log' \in Seq(LogRecords)
  OBVIOUS
<1>2. Replay(log') = ReadRecord(Replay(log), record)
  BY ReplayAppend
<1>3. Replay(log)' = Replay(log')
  OBVIOUS
<1>4. GoodReading(Replay(log)) /\ GoodReading(Replay(log'))
  BY <1>1, ReplayTyped
<1>5. Replay(log).list \in Seq(Updates) /\ Replay(log').list \in Seq(Updates)
  BY <1>4 DEF GoodReading, Readings
<1>6. Len(Replay(log).list) \in Nat /\ Len(Replay(log').list) \in Nat
  BY <1>5
<1> QED
  BY <1>1, <1>2, <1>3, <1>4, <1>6, ReadRecordTyped

(* What a file may contain.                                                  *)
LEMMA ContentsHave == Nothing \in Contents /\ Old \in Contents /\ \A i \in 1..MaxUpdates : i \in Contents
BY DEF Contents

(* Types of the update at work.                                              *)
LEMMA WorkingTypes ==
    ASSUME TypeInv, Working
    PROVE  /\ at \in 1..Len(updates) /\ at \in 1..MaxUpdates
           /\ cur \in Updates /\ cur.type \in Types /\ cur.app \in Apps
           /\ \A k \in AllKinds : cur.det[k] \in Details /\ <<at, k>> \in Slots
           /\ left # {} => Kind \in AllKinds /\ Kind \in left
           /\ logFile = TRUE
           /\ Len(updates) \in Nat
<1>1. at \in 1..Len(updates) /\ updates \in Seq(Updates) /\ Len(updates) <= MaxUpdates /\ Len(updates) \in Nat
  BY DEF TypeInv, TypeOK, StepFits, Updates, Types
<1>2. at \in 1..MaxUpdates
  BY <1>1, BoundsAssumption
<1>3. left # {} => Kind \in left
  BY KindAtWork DEF TypeInv, TypeOK
<1>4. left \subseteq AllKinds /\ logFile = TRUE
  BY DEF TypeInv, TypeOK, Working
<1> QED
  BY <1>1, <1>2, <1>3, <1>4, UpdateParts DEF cur, Slots

(* What a leave or a finished rollback goes on to is typed. *)
LEMMA RollBackTyped ==
    ASSUME NEW i \in 0..Len(updates'), RollBackFrom(i), updates' \in Seq(Updates), Len(updates') <= MaxUpdates,
           logFile' = TRUE
    PROVE  /\ at' \in 0..MaxUpdates + 1
           /\ step' \in Steps \cup {"none"} /\ left' = {}
           /\ phase' \in {"closing", "rollingBack"}
           /\ StepFits'
<1>1. i \in Nat /\ i <= MaxUpdates /\ Len(updates') \in Nat
  BY BoundsAssumption
<1>2. at' \in 0..MaxUpdates + 1
  BY <1>1, BoundsAssumption DEF RollBackFrom
<1>3. CASE i = 0
  BY <1>2, <1>3 DEF RollBackFrom, StepFits, Working
<1>4. CASE i # 0
  BY <1>1, <1>2, <1>4 DEF RollBackFrom, StepFits, Working, Steps, Deals
<1> QED
  BY <1>3, <1>4

(* The types hold when the server starts for the first time.                 *)
LEMMA TypeInit == Init => TypeInv
<1> SUFFICES ASSUME Init PROVE TypeInv
  OBVIOUS
<1>1. real \in [Names -> Contents] /\ temp \in [Slots -> Contents]
  BY ContentsHave DEF Init
<1>2. <<>> \in Seq(Updates) /\ Len(<<>>) = 0 /\ <<>> \in Seq(LogRecords)
  OBVIOUS
<1>3. TypeOK
  <2>1. updates \in Seq(Updates) /\ Len(updates) <= MaxUpdates
    BY <1>2, BoundsAssumption DEF Init
  <2>2. before \in [Names -> Contents] /\ left \subseteq AllKinds
    BY <1>1 DEF Init
  <2>3. at \in 0..MaxUpdates + 1 /\ crashes \in 0..MaxCrashes
    BY BoundsAssumption DEF Init
  <2> QED
    BY <1>1, <2>1, <2>2, <2>3 DEF Init, TypeOK, Phases, Promise!Verdicts, Updates, Types
<1>4. StepFits
  BY DEF Init, StepFits, Working
<1>5. LogFits
  <2>1. Replay(log).list = <<>>
    BY ReplayEmpty DEF Init, Start
  <2> QED
    BY <1>2, <2>1, BoundsAssumption DEF Init, LogFits
<1> QED
  BY <1>3, <1>4, <1>5 DEF TypeInv

(* Steps of the client. *)
LEMMA TypePrepare == TypeInv /\ Prepare => TypeInv'
<1> SUFFICES ASSUME TypeInv, Prepare PROVE TypeInv'
  OBVIOUS
<1>1. temp' \in [Slots -> Contents]
  BY ContentsHave DEF Prepare
<1>2. TypeOK'
  BY <1>1, BoundsAssumption DEF TypeInv, TypeOK, Prepare, Phases, Promise!Verdicts, logVars
<1>3. StepFits'
  BY DEF TypeInv, StepFits, Prepare, Working, cur
<1>4. LogFits'
  BY DEF TypeInv, LogFits, Prepare, logVars
<1> QED
  BY <1>2, <1>3, <1>4 DEF TypeInv

(* A new update is an update.                                                *)
LEMMA NewUpdateTyped ==
    ASSUME NEW type \in Types, NEW a \in Apps, NEW kinds
    PROVE  NewUpdate(type, a, kinds) \in Updates
<1>1. \A k \in AllKinds : [state |-> "Temporary", path |-> <<a, k>>] \in Details
  BY DEF Details, Names
<1> QED
  BY <1>1, NoDetailsTyped DEF NewUpdate, Updates, States

(* A request keeps the types.                                                *)
LEMMA TypeAsked ==
    ASSUME TypeInv, NEW type \in Types, NEW a \in Apps, NEW kinds, Asked(type, a, kinds),
           temp' \in [Slots -> Contents]
    PROVE  TypeInv'
<1> DEFINE u == NewUpdate(type, a, IF type = "Register" THEN kinds ELSE {})
<1>1. u \in Updates
  BY NewUpdateTyped
<1>2. updates \in Seq(Updates) /\ Len(updates) \in Nat
  BY DEF TypeInv, TypeOK, Updates, Types
<1>3. updates' = Append(updates, u)
  BY DEF Asked
<1> HIDE DEF u
<1>4. updates' \in Seq(Updates) /\ Len(updates') <= MaxUpdates
  BY <1>1, <1>2, <1>3, BoundsAssumption DEF Asked
<1>5. TypeOK'
  BY <1>4 DEF TypeInv, TypeOK, Asked, logVars, Updates, Types
<1>6. StepFits'
  BY DEF TypeInv, StepFits, Asked, Working
<1>7. LogFits'
  BY DEF TypeInv, LogFits, Asked, logVars
<1> QED
  BY <1>5, <1>6, <1>7 DEF TypeInv

(* A registration keeps the types.                                           *)
LEMMA TypeRegister ==
    ASSUME TypeInv, NEW a \in Apps, NEW kinds, Register(a, kinds)
    PROVE  TypeInv'
<1>1. Len(updates) + 1 \in 1..MaxUpdates
  BY BoundsAssumption DEF TypeInv, TypeOK, Register, Asked
<1>2. temp' \in [Slots -> Contents]
  BY <1>1, ContentsHave DEF TypeInv, TypeOK, Register
<1>3. Asked("Register", a, kinds)
  BY DEF Register
<1> QED
  BY <1>2, <1>3, TypeAsked DEF Types

(* A deregistration keeps the types.                                         *)
LEMMA TypeDeregister ==
    ASSUME TypeInv, NEW a \in Apps, Deregister(a)
    PROVE  TypeInv'
<1>1. temp' \in [Slots -> Contents]
  BY DEF TypeInv, TypeOK, Deregister
<1>2. Asked("Deregister", a, {})
  BY DEF Deregister
<1> QED
  BY <1>1, <1>2, TypeAsked DEF Types

(* The destruction of a list keeps the types of the files.                   *)
LEMMA DestroyTyped ==
    ASSUME TypeInv, NEW list, DestroyList(list)
    PROVE  /\ temp' \in [Slots -> Contents] /\ real' \in [Names -> Contents]
           /\ updates' \in Seq(Updates) /\ Len(updates') = 0 /\ phase' = "idle"
BY ContentsHave DEF TypeInv, TypeOK, DestroyList

(* The types, step by step: Abort.                                           *)
LEMMA TypeAbort == TypeInv /\ Abort => TypeInv'
<1> SUFFICES ASSUME TypeInv, Abort PROVE TypeInv'
  OBVIOUS
<1>1. /\ temp' \in [Slots -> Contents] /\ real' \in [Names -> Contents]
      /\ updates' \in Seq(Updates) /\ Len(updates') = 0 /\ phase' = "idle"
  BY DestroyTyped DEF Abort
<1>2. TypeOK'
  BY <1>1, BoundsAssumption DEF TypeInv, TypeOK, Abort, Phases, Promise!Verdicts, logVars, ghostVars, Updates, Types
<1>3. StepFits'
  BY <1>1 DEF TypeInv, StepFits, Abort, Working, cur
<1>4. LogFits'
  BY <1>1 DEF TypeInv, LogFits, Abort, logVars
<1> QED
  BY <1>2, <1>3, <1>4 DEF TypeInv

(* The types, step by step: Commit.                                          *)
LEMMA TypeCommit == TypeInv /\ Commit => TypeInv'
<1> SUFFICES ASSUME TypeInv, Commit PROVE TypeInv'
  OBVIOUS
<1>1. updates' = updates /\ updates \in Seq(Updates) /\ Len(updates) \in Nat /\ Len(updates) <= MaxUpdates
  BY DEF TypeInv, TypeOK, Commit, Updates, Types
<1>2. Replay(log)' = Start
  BY ReplayEmpty DEF Commit
<1>3. Start.list = <<>> /\ log' = <<>>
  BY DEF Start, Commit
<1>4. TypeOK'
  BY <1>1, BoundsAssumption DEF TypeInv, TypeOK, Commit, PerformFrom, Phases, Promise!Verdicts, diskVars, Steps, Deals, Updates, Types
<1>5. StepFits'
  BY <1>1 DEF StepFits, Commit, PerformFrom, Working
<1>6. LogFits'
  BY <1>2, <1>3, BoundsAssumption DEF LogFits, Commit, PerformFrom
<1> QED
  BY <1>4, <1>5, <1>6 DEF TypeInv

(* The types, step by step: CommitRefused.                                   *)
LEMMA TypeCommitRefused == TypeInv /\ CommitRefused => TypeInv'
<1> SUFFICES ASSUME TypeInv, CommitRefused PROVE TypeInv'
  OBVIOUS
<1>1. TypeOK'
  BY DEF TypeInv, TypeOK, CommitRefused, Phases, Promise!Verdicts, diskVars, logVars, ghostVars
<1>2. StepFits'
  BY DEF TypeInv, StepFits, CommitRefused, Working, cur
<1>3. LogFits'
  BY DEF TypeInv, LogFits, CommitRefused, logVars
<1> QED
  BY <1>1, <1>2, <1>3 DEF TypeInv

(* Steps of the server. *)

(* The types, step by step: WriteNew.                                        *)
LEMMA TypeWriteNew == TypeInv /\ WriteNew => TypeInv'
<1> SUFFICES ASSUME TypeInv, WriteNew PROVE TypeInv'
  OBVIOUS
<1>1. Working /\ cur \in Updates /\ log' = Append(log, NewRecord(cur)) /\ at \in 1..Len(updates)
  BY WorkingTypes DEF WriteNew, Logs
<1>2. TypeOK'
  BY DEF TypeInv, TypeOK, WriteNew, Logs, Goes, diskVars, ghostVars, Steps, Deals
<1>3. phase = "performing"
  BY <1>1 DEF TypeInv, StepFits, WriteNew, Working
<1>4. StepFits'
  BY <1>1, <1>3 DEF TypeInv, StepFits, WriteNew, Logs, Goes, Working, cur
<1>5. /\ log' \in Seq(LogRecords) /\ Len(Replay(log)'.list) <= Len(Replay(log).list) + 1
      /\ Len(Replay(log)'.list) \in Nat /\ Len(Replay(log).list) \in Nat
  BY <1>1, LogGrows, RecordsTyped DEF TypeInv, LogFits
<1>6. LogFits'
  <2>0. at \in 1..MaxUpdates
    BY <1>1, WorkingTypes
  <2>1. Len(Replay(log).list) <= at - 1 /\ at' = at /\ at \in Nat /\ at <= MaxUpdates /\ step' = "section"
    BY <1>3, <2>0, BoundsAssumption DEF TypeInv, LogFits, WriteNew, Goes
  <2>2. Len(Replay(log)'.list) <= at /\ Len(Replay(log)'.list) <= MaxUpdates
    BY <1>5, <2>1, BoundsAssumption
  <2> QED
    BY <1>5, <2>1, <2>2 DEF LogFits
<1> QED
  BY <1>2, <1>4, <1>6 DEF TypeInv

(* The reading of a log with one record more that is of no new update. *)
LEMMA LogFitsStill ==
    ASSUME TypeInv, NEW record \in LogRecords, log' = Append(log, record), record.r # "new",
           phase' = "performing" =>
             /\ phase = "performing" /\ step # "new" 
             /\ at' \in Int /\ at \in Int /\ at <= IF step' = "new" THEN at' - 1 ELSE at'
    PROVE  LogFits'
<1>1. /\ log' \in Seq(LogRecords) /\ Len(Replay(log)'.list) = Len(Replay(log).list)
      /\ Len(Replay(log)'.list) \in Nat
  BY LogGrows DEF TypeInv, LogFits
<1>2. Len(Replay(log).list) <= MaxUpdates
  BY DEF TypeInv, LogFits
<1>3. ASSUME phase' = "performing" PROVE Len(Replay(log).list) <= IF step' = "new" THEN at' - 1 ELSE at'
  <2>1. Len(Replay(log).list) <= at
    BY <1>3 DEF TypeInv, LogFits
  <2> QED
    BY <1>1, <1>3, <2>1
<1> QED
  BY <1>1, <1>2, <1>3 DEF LogFits

(* The log stays within its bounds if nothing is written.                    *)
LEMMA LogFitsUnchanged ==
    ASSUME TypeInv, UNCHANGED log,
           phase' = "performing" =>
             /\ phase = "performing" /\ at' = at /\ (step' = "new" <=> step = "new")
    PROVE  LogFits'
BY DEF TypeInv, LogFits

(* The types, step by step: WriteSection.                                    *)
LEMMA TypeWriteSection == TypeInv /\ WriteSection => TypeInv'
<1> SUFFICES ASSUME TypeInv, WriteSection PROVE TypeInv'
  OBVIOUS
<1>1. Working /\ cur \in Updates /\ at \in 1..Len(updates)
  BY WorkingTypes DEF WriteSection, Logs
<1>2. PICK what \in {"perform", "rollback"} : log' = Append(log, SectionRecord(what, cur))
  BY DEF WriteSection, Logs
<1>3. /\ step' = IF phase = "performing" THEN "Performing" ELSE "RollingBack"
      /\ UNCHANGED <<real, temp, logFile, full, phase, updates, at, left, result, batch, before, crashes>>
  BY DEF WriteSection, Logs, Goes, diskVars, ghostVars
<1>4. TypeOK'
  BY <1>3 DEF TypeInv, TypeOK, Steps, Deals, States
<1>5. StepFits'
  BY <1>1, <1>3 DEF TypeInv, StepFits, WriteSection, Working, cur
<1>6. LogFits'
  <2>1. SectionRecord(what, cur) \in LogRecords /\ SectionRecord(what, cur).r # "new"
    BY <1>1, RecordsTyped
  <2>2. at' = at /\ at \in Int /\ step # "new" /\ step' # "new"
    BY <1>1, <1>3 DEF WriteSection
  <2> QED
    BY <1>2, <1>3, <2>1, <2>2, LogFitsStill
<1> QED
  BY <1>4, <1>5, <1>6 DEF TypeInv

(* The types, step by step: StateChange.                                     *)
LEMMA TypeStateChange == TypeInv /\ StateChange => TypeInv'
<1> SUFFICES ASSUME TypeInv, StateChange PROVE TypeInv'
  OBVIOUS
<1>1. /\ Working /\ cur \in Updates /\ at \in 1..Len(updates) /\ Len(updates) \in Nat
      /\ updates \in Seq(Updates) /\ step \in States
  BY WorkingTypes DEF StateChange, Logs, TypeInv, TypeOK, Updates, Types
<1>2. /\ log' = Append(log, StateRecord(step))
      /\ UNCHANGED <<real, temp, logFile, full, phase, at, result, batch, before, crashes>>
  BY DEF StateChange, Begin, Handle, Logs, Goes, diskVars, ghostVars
<1>3. updates' \in Seq(Updates) /\ Len(updates') = Len(updates)
  BY <1>1, UpdateChanges DEF StateChange, InState
<1>4. step \in {"Performing", "RollingBack", "Performed", "RolledBack"} /\ left = {}
  BY <1>1 DEF TypeInv, StepFits, Working, States
<1>5. /\ left' \in SUBSET AllKinds
      /\ left' # {} <=> step' \in {"move", "undo"}
      /\ step' \in {"find", "move", "undo", "Performed", "RolledBack", "end"}
      /\ step' = "find" => step = "Performing" /\ cur.type = "Deregister"
      /\ phase = "performing" /\ cur.type = "Deregister" => left' = {}
      /\ phase = "performing" => step' \in {"find", "move", "Performed", "end"}
      /\ phase = "rollingBack" => step' \in {"undo", "RolledBack", "end"}
  <2>1. CASE step = "Performing"
    <3>1. phase = "performing"
      BY <1>1, <2>1 DEF TypeInv, StepFits, Working
    <3>2. CASE cur.type = "Deregister"
      BY <1>4, <2>1, <3>1, <3>2 DEF StateChange, Begin, Goes
    <3>3. CASE cur.type # "Deregister"
      <4>1. Handle({k \in AllKinds : cur.det[k].path # NoName})
        BY <2>1, <3>3 DEF StateChange, Begin
      <4> QED
        BY <3>1, <3>3, <4>1 DEF Handle
    <3> QED
      BY <3>2, <3>3
  <2>2. CASE step = "RollingBack"
    <3>1. phase = "rollingBack"
      BY <1>1, <2>2 DEF TypeInv, StepFits, Working
    <3>2. Handle(AllKinds)
      BY <2>2 DEF StateChange, Begin
    <3> QED
      BY <3>1, <3>2 DEF Handle
  <2>3. CASE step \in {"Performed", "RolledBack"}
    <3>1. step' = "end" /\ left' = {}
      BY <1>4, <2>3 DEF StateChange, Begin, Goes
    <3> QED
      BY <3>1
  <2> QED
    BY <1>4, <2>1, <2>2, <2>3
<1>6. cur'.type = cur.type
  <2>1. updates'[at] = [updates[at] EXCEPT !.state = step]
    BY <1>1 DEF StateChange, InState
  <2> QED
    BY <1>2, <2>1 DEF cur
<1>7. TypeOK'
  BY <1>2, <1>3, <1>5 DEF TypeInv, TypeOK, Steps, Deals, States, Updates, Types
<1>8. StepFits'
  BY <1>1, <1>2, <1>3, <1>5, <1>6 DEF StepFits, Working
<1>9. LogFits'
  <2>1. StateRecord(step) \in LogRecords /\ StateRecord(step).r # "new"
    BY <1>1, RecordsTyped
  <2>2. at' = at /\ at \in Int /\ step # "new" /\ step' # "new"
    BY <1>1, <1>2, <1>4, <1>5
  <2> QED
    BY <1>2, <2>1, <2>2, LogFitsStill
<1> QED
  BY <1>7, <1>8, <1>9 DEF TypeInv

(* The types, step by step: Continuation.                                    *)
LEMMA TypeContinuation == TypeInv /\ Continuation => TypeInv'
<1> SUFFICES ASSUME TypeInv, Continuation PROVE TypeInv'
  OBVIOUS
<1>1. Working /\ cur \in Updates /\ at \in 1..Len(updates) /\ left # {} /\ Kind \in left /\ Kind \in AllKinds
  BY WorkingTypes DEF Continuation, Logs, TypeInv, StepFits
<1>2. /\ log' = Append(log, NoteRecord(Kind, Noted(cur, Kind)))
      /\ UNCHANGED <<real, temp, logFile, full, phase, updates, at, result, batch, before, crashes>>
  BY DEF Continuation, Logs, diskVars, ghostVars
<1>3. /\ left' = left \ {Kind}
      /\ step' = IF phase = "performing" THEN IF left' = {} THEN "Performed" ELSE "move"
                 ELSE IF left' = {} THEN "RolledBack" ELSE "undo"
  BY DEF Continuation, Handle
<1>4. TypeOK'
  BY <1>2, <1>3 DEF TypeInv, TypeOK, Steps, Deals, States
<1>5. StepFits'
  BY <1>1, <1>2, <1>3 DEF TypeInv, StepFits, Working, cur
<1>6. LogFits'
  <2>1. NoteRecord(Kind, Noted(cur, Kind)) \in LogRecords /\ NoteRecord(Kind, Noted(cur, Kind)).r # "new"
    BY <1>1, RecordsTyped
  <2>2. at' = at /\ at \in Int /\ step # "new" /\ step' # "new"
    BY <1>1, <1>2, <1>3 DEF Continuation
  <2> QED
    BY <1>2, <2>1, <2>2, LogFitsStill
<1> QED
  BY <1>4, <1>5, <1>6 DEF TypeInv

(* The types, step by step: EndOfUpdate.                                     *)
LEMMA TypeEndOfUpdate == TypeInv /\ EndOfUpdate => TypeInv'
<1> SUFFICES ASSUME TypeInv, EndOfUpdate PROVE TypeInv'
  OBVIOUS
<1>1. /\ Working /\ at \in 1..Len(updates) /\ Len(updates) \in Nat /\ Len(updates) <= MaxUpdates
      /\ updates \in Seq(Updates) /\ logFile = TRUE
  BY WorkingTypes DEF EndOfUpdate, Logs, TypeInv, TypeOK, Updates, Types
<1>2. log' = Append(log, EndRecord)
      /\ UNCHANGED <<real, temp, logFile, full, updates, batch, before, crashes>>
  BY DEF EndOfUpdate, Logs, diskVars, ghostVars
<1>3. EndRecord \in LogRecords /\ EndRecord.r # "new"
  BY RecordsTyped
<1>4. CASE phase = "performing" /\ PerformFrom(at + 1)
  <2>1. at' = at + 1 /\ left' = {} /\ at' \in 1..MaxUpdates + 1
    BY <1>1, <1>4, BoundsAssumption DEF PerformFrom
  <2>2. \/ phase' = "closing" /\ step' = "none" /\ result' = "ok"
        \/ phase' = "performing" /\ step' = "new" /\ result' = "open" /\ at + 1 <= Len(updates)
    BY <1>1, <1>4 DEF PerformFrom
  <2>3. TypeOK'
    BY <1>1, <1>2, <2>1, <2>2 DEF TypeInv, TypeOK, Phases, Steps, Deals, Promise!Verdicts
  <2>4. StepFits'
    BY <1>1, <1>2, <2>1, <2>2 DEF StepFits, Working
  <2>5. LogFits'
    <3>1. at' \in Int /\ at \in Int /\ at <= at' - 1 /\ step # "new" /\ (step' = "new" \/ phase' # "performing")
      BY <1>1, <2>1, <2>2 DEF EndOfUpdate
    <3> QED
      BY <1>2, <1>3, <1>4, <3>1, LogFitsStill
  <2> QED
    BY <2>3, <2>4, <2>5 DEF TypeInv
<1>5. CASE phase = "rollingBack" /\ RollBackFrom(at - 1) /\ UNCHANGED result
  <2>1. at - 1 \in 0..Len(updates')
    BY <1>1, <1>2
  <2>2. /\ at' \in 0..MaxUpdates + 1 /\ step' \in Steps \cup {"none"} /\ left' = {}
        /\ phase' \in {"closing", "rollingBack"} /\ StepFits'
    BY <1>1, <1>2, <1>5, <2>1, RollBackTyped
  <2>3. TypeOK'
    BY <1>1, <1>2, <1>5, <2>2 DEF TypeInv, TypeOK, Phases
  <2>4. LogFits'
    BY <1>2, <1>3, <2>2, LogFitsStill
  <2> QED
    BY <2>2, <2>3, <2>4 DEF TypeInv
<1> QED
  BY <1>4, <1>5 DEF EndOfUpdate

(* A leave. *)
LEMMA TypeFails ==
    ASSUME TypeInv, phase = "performing", RollBackFrom(at), result' = "error", UNCHANGED <<updates, log, logFile, full, batch, before, crashes>>,
           real' \in [Names -> Contents], temp' \in [Slots -> Contents]
    PROVE  TypeInv'
<1>1. /\ at \in 1..Len(updates) /\ Len(updates) \in Nat /\ Len(updates) <= MaxUpdates /\ updates \in Seq(Updates)
      /\ logFile = TRUE
  BY WorkingTypes DEF TypeInv, TypeOK, Updates, Types, Working
<1>2. at \in 0..Len(updates') /\ updates' \in Seq(Updates) /\ Len(updates') <= MaxUpdates
  BY <1>1
<1>3. /\ at' \in 0..MaxUpdates + 1 /\ step' \in Steps \cup {"none"} /\ left' = {}
      /\ phase' \in {"closing", "rollingBack"} /\ StepFits'
  BY <1>1, <1>2, RollBackTyped
<1>4. TypeOK'
  BY <1>1, <1>3 DEF TypeInv, TypeOK, Phases, Promise!Verdicts
<1>5. LogFits'
  BY <1>3, LogFitsUnchanged
<1> QED
  BY <1>3, <1>4, <1>5 DEF TypeInv

(* The types, step by step: Find.                                            *)
LEMMA TypeFind == TypeInv /\ Find => TypeInv'
<1> SUFFICES ASSUME TypeInv, Find PROVE TypeInv'
  OBVIOUS
<1>1. /\ phase = "performing" /\ step = "find" /\ Working /\ at \in 1..Len(updates) /\ cur.app \in Apps
      /\ updates \in Seq(Updates) /\ Len(updates) \in Nat
      /\ real \in [Names -> Contents] /\ temp \in [Slots -> Contents]
  BY WorkingTypes DEF Find, Working, TypeInv, TypeOK, Updates, Types
<1> DEFINE found == FilesOf(cur.app)
           det == [k \in AllKinds |-> IF k \in found THEN [state |-> "Real", path |-> <<cur.app, k>>] ELSE NoDetails]
<1>2. UNCHANGED <<real, temp, logFile, log, full, batch, before, crashes>>
  BY DEF Find, diskVars, logVars, ghostVars
<1>3. CASE Fails /\ UNCHANGED updates
  BY <1>1, <1>2, <1>3, TypeFails DEF Fails
<1>4. CASE /\ updates' = [updates EXCEPT ![at].det = det]
           /\ Handle(found)
           /\ UNCHANGED <<phase, at, result>>
  <2>1. found \in SUBSET AllKinds
    BY DEF FilesOf
  <2>2. det \in [AllKinds -> Details]
    <3>1. \A k \in AllKinds : [state |-> "Real", path |-> <<cur.app, k>>] \in Details
      BY <1>1 DEF Details, Names
    <3> QED
      BY <3>1, NoDetailsTyped
  <2>3. \A k \in found : det[k].path \in Names
    BY <1>1, <2>1 DEF Names
  <2> HIDE DEF found, det
  <2>4. updates' \in Seq(Updates) /\ Len(updates') = Len(updates)
    BY <1>1, <1>4, <2>2, UpdateChanges
  <2>5. left' = found /\ step' = IF found = {} THEN "Performed" ELSE "move"
    BY <1>1, <1>4 DEF Handle
  <2>6. TypeOK'
    BY <1>1, <1>2, <1>4, <2>1, <2>4, <2>5 DEF TypeInv, TypeOK, Steps, Deals, States, Updates, Types
  <2>7. cur'.det = det
    <3>1. updates'[at] = [updates[at] EXCEPT !.det = det]
      BY <1>1, <1>4
    <3>2. updates[at] \in Updates
      BY <1>1
    <3> QED
      BY <1>4, <3>1, <3>2 DEF cur, Updates
  <2>8. StepFits'
    BY <1>1, <1>4, <2>3, <2>4, <2>5, <2>7 DEF StepFits, Working
  <2>9. LogFits'
    BY <1>1, <1>2, <1>4, <2>5, LogFitsUnchanged
  <2> QED
    BY <2>6, <2>8, <2>9 DEF TypeInv
<1> QED
  BY <1>3, <1>4 DEF Find

(* A file is dealt with: its details change, and a note of it is next. *)
LEMMA TypeDealt ==
    ASSUME TypeInv, Working, left # {}, Goes("note"),
           updates' \in Seq(Updates), Len(updates') = Len(updates),
           updates'[at].type = updates[at].type,
           phase = "performing" /\ cur.type = "Deregister" =>
               \A k \in left : updates'[at].det[k].path = updates[at].det[k].path,
           real' \in [Names -> Contents], temp' \in [Slots -> Contents],
           UNCHANGED <<logVars, full, ghostVars>>
    PROVE  TypeInv'
<1>1. step \in {"move", "undo", "note"} /\ at \in 1..Len(updates)
  BY DEF TypeInv, StepFits
<1>2. UNCHANGED <<logFile, log, full, phase, at, left, result, batch, before, crashes>> /\ step' = "note"
  BY DEF Goes, logVars, ghostVars
<1>3. TypeOK'
  BY <1>2 DEF TypeInv, TypeOK, Steps, Deals, Updates, Types
<1>4. StepFits'
  BY <1>1, <1>2 DEF TypeInv, StepFits, Working, cur
<1>5. LogFits'
  BY <1>1, <1>2, LogFitsUnchanged
<1> QED
  BY <1>3, <1>4, <1>5 DEF TypeInv

(* Dealing with a file changes its details and no others.                    *)
LEMMA DealtDetails ==
    ASSUME TypeInv, Working, left # {}
    PROVE  /\ at \in 1..Len(updates) /\ Kind \in AllKinds /\ Kind \in left
           /\ \A s \in FileStates :
                LET new == [updates EXCEPT ![at].det[Kind].state = s] IN
                /\ new \in Seq(Updates) /\ Len(new) = Len(updates)
                /\ new[at] = [updates[at] EXCEPT !.det[Kind].state = s]
                /\ new[at].type = updates[at].type
                /\ \A k \in AllKinds : new[at].det[k].path = updates[at].det[k].path
           /\ LET new == [updates EXCEPT ![at].det[Kind] = NoDetails] IN
              new \in Seq(Updates) /\ Len(new) = Len(updates) /\ new[at].type = updates[at].type
<1>1. at \in 1..Len(updates) /\ updates \in Seq(Updates) /\ Kind \in AllKinds /\ Kind \in left
  BY WorkingTypes DEF TypeInv, TypeOK, Updates, Types
<1>2. updates[at] \in Updates
  BY <1>1
<1>3. ASSUME NEW s \in FileStates
      PROVE LET new == [updates EXCEPT ![at].det[Kind].state = s] IN
                /\ new \in Seq(Updates) /\ Len(new) = Len(updates)
                /\ new[at] = [updates[at] EXCEPT !.det[Kind].state = s]
                /\ new[at].type = updates[at].type
                /\ \A k \in AllKinds : new[at].det[k].path = updates[at].det[k].path
  <2> DEFINE new == [updates EXCEPT ![at].det[Kind].state = s]
  <2>1. new \in Seq(Updates) /\ Len(new) = Len(updates)
    <3>1. \A k \in AllKinds :
            LET other == [updates EXCEPT ![at].det[k].state = s]
            IN  other \in Seq(Updates) /\ Len(other) = Len(updates)
      BY <1>1, UpdateChanges
    <3> QED
      BY <1>1, <3>1
  <2>2. new[at] = [updates[at] EXCEPT !.det[Kind].state = s]
    BY <1>1
  <2>3. new[at].type = updates[at].type
    BY <1>2, <2>2 DEF Updates
  <2>4. \A k \in AllKinds : new[at].det[k].path = updates[at].det[k].path
    BY <1>1, <1>2, <2>2 DEF Updates, Details
  <2> QED
    BY <2>1, <2>2, <2>3, <2>4
<1>4. LET new == [updates EXCEPT ![at].det[Kind] = NoDetails] IN
      new \in Seq(Updates) /\ Len(new) = Len(updates) /\ new[at].type = updates[at].type
  <2> DEFINE new == [updates EXCEPT ![at].det[Kind] = NoDetails]
  <2>1. new \in Seq(Updates) /\ Len(new) = Len(updates)
    BY <1>1, UpdateChanges, NoDetailsTyped
  <2>2. new[at] = [updates[at] EXCEPT !.det[Kind] = NoDetails]
    BY <1>1
  <2> QED
    BY <1>2, <2>1, <2>2 DEF Updates
<1> QED
  BY <1>1, <1>3, <1>4

(* The types, step by step: RenameToReal.                                    *)
LEMMA TypeRenameToReal == TypeInv /\ RenameToReal => TypeInv'
<1> SUFFICES ASSUME TypeInv, RenameToReal PROVE TypeInv'
  OBVIOUS
<1>1. /\ phase = "performing" /\ Working /\ left # {} /\ cur.type = "Register"
      /\ real \in [Names -> Contents] /\ temp \in [Slots -> Contents]
      /\ UNCHANGED <<logVars, full, ghostVars>>
      /\ UNCHANGED <<logFile, log, full, batch, before, crashes>>
  BY DEF RenameToReal, Working, TypeInv, TypeOK, StepFits, logVars, ghostVars
<1>2. <<at, Kind>> \in Slots
  BY <1>1, WorkingTypes
<1>3. CASE Fails /\ UNCHANGED <<diskVars, updates>>
  BY <1>1, <1>3, TypeFails DEF Fails, diskVars
<1>4. CASE /\ real' = [real EXCEPT ![cur.det[Kind].path] = temp[<<at, Kind>>]]
           /\ temp' = [temp EXCEPT ![<<at, Kind>>] = Nothing]
           /\ updates' = [updates EXCEPT ![at].det[Kind].state = "Real"]
           /\ Goes("note")
  <2>1. real' \in [Names -> Contents] /\ temp' \in [Slots -> Contents]
    BY <1>1, <1>2, <1>4, ContentsHave
  <2> QED
    BY <1>1, <1>4, <2>1, DealtDetails, TypeDealt DEF FileStates
<1> QED
  BY <1>3, <1>4 DEF RenameToReal

(* The types, step by step: RenameToTemporary.                               *)
LEMMA TypeRenameToTemporary == TypeInv /\ RenameToTemporary => TypeInv'
<1> SUFFICES ASSUME TypeInv, RenameToTemporary PROVE TypeInv'
  OBVIOUS
<1>1. /\ phase = "performing" /\ Working /\ left # {} /\ cur.type = "Deregister"
      /\ real \in [Names -> Contents] /\ temp \in [Slots -> Contents]
      /\ UNCHANGED <<logVars, full, ghostVars>>
  BY DEF RenameToTemporary, Working, TypeInv, TypeOK, StepFits
<1>2. <<at, Kind>> \in Slots /\ Kind \in left /\ left \subseteq AllKinds
  BY <1>1, WorkingTypes DEF TypeInv, TypeOK
<1>3. cur.det[Kind].path \in Names
  BY <1>1, <1>2 DEF TypeInv, StepFits
<1>4. /\ temp' = [temp EXCEPT ![<<at, Kind>>] = real[cur.det[Kind].path]]
      /\ real' = [real EXCEPT ![cur.det[Kind].path] = Nothing]
      /\ updates' = [updates EXCEPT ![at].det[Kind].state = "Temporary"]
      /\ Goes("note")
  BY DEF RenameToTemporary
<1>5. real' \in [Names -> Contents] /\ temp' \in [Slots -> Contents]
  BY <1>1, <1>2, <1>3, <1>4, ContentsHave
<1> QED
  BY <1>1, <1>2, <1>4, <1>5, DealtDetails, TypeDealt DEF FileStates

(* The types, step by step: PerformLeaves.                                   *)
LEMMA TypePerformLeaves == TypeInv /\ PerformLeaves => TypeInv'
<1> SUFFICES ASSUME TypeInv, PerformLeaves PROVE TypeInv'
  OBVIOUS
<1>1. real' \in [Names -> Contents] /\ temp' \in [Slots -> Contents]
  BY DEF PerformLeaves, diskVars, TypeInv, TypeOK
<1> QED
  BY <1>1, TypeFails DEF PerformLeaves, Fails, diskVars, logVars, ghostVars

(* The types, step by step: Delete.                                          *)
LEMMA TypeDelete == TypeInv /\ Delete => TypeInv'
<1> SUFFICES ASSUME TypeInv, Delete PROVE TypeInv'
  OBVIOUS
<1>1. /\ phase = "rollingBack" /\ Working /\ left # {}
      /\ real \in [Names -> Contents] /\ temp \in [Slots -> Contents]
      /\ UNCHANGED <<logVars, full, ghostVars>> /\ Goes("note")
      /\ updates' = [updates EXCEPT ![at].det[Kind] = NoDetails]
  BY DEF Delete, Working, TypeInv, TypeOK, StepFits
<1>2. real' \in [Names -> Contents] /\ temp' \in [Slots -> Contents]
  BY <1>1, ContentsHave DEF Delete
<1> QED
  BY <1>1, <1>2, DealtDetails, TypeDealt DEF FileStates

(* The types, step by step: a file that a rollback cannot deal with.         *)
LEMMA TypeIgnored == TypeInv /\ (DeleteFails \/ RestoreRealFails) => TypeInv'
<1> SUFFICES ASSUME TypeInv, DeleteFails \/ RestoreRealFails PROVE TypeInv'
  OBVIOUS
<1>1. /\ phase = "rollingBack" /\ Working /\ left # {}
      /\ real \in [Names -> Contents] /\ temp \in [Slots -> Contents]
      /\ UNCHANGED <<logVars, full, ghostVars>> /\ Goes("note")
      /\ updates' = [updates EXCEPT ![at].det[Kind] = NoDetails]
  BY DEF DeleteFails, RestoreRealFails, Working, TypeInv, TypeOK, StepFits
<1>2. temp' = temp /\ (real' = real \/ \E n : real' = [real EXCEPT ![n] = Nothing])
  BY DEF DeleteFails, RestoreRealFails, diskVars
<1>3. real' \in [Names -> Contents] /\ temp' \in [Slots -> Contents]
  BY <1>1, <1>2, ContentsHave
<1> QED
  BY <1>1, <1>3, DealtDetails, TypeDealt DEF FileStates

(* The types, step by step: RestoreReal.                                     *)
LEMMA TypeRestoreReal == TypeInv /\ RestoreReal => TypeInv'
<1> SUFFICES ASSUME TypeInv, RestoreReal PROVE TypeInv'
  OBVIOUS
<1>1. /\ phase = "rollingBack" /\ Working /\ left # {}
      /\ real \in [Names -> Contents] /\ temp \in [Slots -> Contents]
      /\ UNCHANGED <<logVars, full, ghostVars>> /\ Goes("note")
      /\ updates' = [updates EXCEPT ![at].det[Kind] = NoDetails]
  BY DEF RestoreReal, Working, TypeInv, TypeOK, StepFits
<1>2. <<at, Kind>> \in Slots
  BY <1>1, WorkingTypes
<1>3. real' \in [Names -> Contents] /\ temp' \in [Slots -> Contents]
  BY <1>1, <1>2, ContentsHave DEF RestoreReal
<1> QED
  BY <1>1, <1>3, DealtDetails, TypeDealt DEF FileStates

(* The types, step by step: LogWriteFails.                                   *)
LEMMA TypeLogWriteFails == TypeInv /\ LogWriteFails => TypeInv'
<1> SUFFICES ASSUME TypeInv, LogWriteFails PROVE TypeInv'
  OBVIOUS
<1>1. /\ Working /\ at \in 1..Len(updates) /\ Len(updates) \in Nat /\ Len(updates) <= MaxUpdates
      /\ updates \in Seq(Updates) /\ logFile = TRUE
      /\ real \in [Names -> Contents] /\ temp \in [Slots -> Contents]
      /\ UNCHANGED <<real, temp, logFile, log, full, batch, before, crashes>>
  BY WorkingTypes DEF LogWriteFails, TypeInv, TypeOK, Updates, Types, diskVars, logVars, ghostVars
<1>2. updates' \in Seq(Updates) /\ Len(updates') = Len(updates)
  BY <1>1, UpdateChanges DEF LogWriteFails, InState
<1>3. CASE \/ phase = "performing" /\ Fails
           \/ phase = "rollingBack" /\ step # "note" /\ RollBackFrom(at - 1) /\ UNCHANGED result
  <2>1. PICK i \in 0..Len(updates') : RollBackFrom(i)
    BY <1>1, <1>2, <1>3 DEF Fails
  <2>2. /\ at' \in 0..MaxUpdates + 1 /\ step' \in Steps \cup {"none"} /\ left' = {}
        /\ phase' \in {"closing", "rollingBack"} /\ StepFits'
    BY <1>1, <1>2, <2>1, RollBackTyped
  <2>3. result' \in Promise!Verdicts
    BY <1>3 DEF Fails, Promise!Verdicts, TypeInv, TypeOK
  <2>4. TypeOK'
    BY <1>1, <1>2, <2>2, <2>3 DEF TypeInv, TypeOK, Phases, Updates, Types
  <2>5. LogFits'
    BY <1>1, <2>2, LogFitsUnchanged
  <2> QED
    BY <2>2, <2>4, <2>5 DEF TypeInv
<1>4. CASE phase = "rollingBack" /\ step = "note" /\ Handle(left \ {Kind}) /\ UNCHANGED <<phase, at, result>>
  <2>1. left' = left \ {Kind} /\ step' = IF left' = {} THEN "RolledBack" ELSE "undo"
    BY <1>4 DEF Handle
  <2>2. updates' = updates
    BY <1>4 DEF LogWriteFails, States
  <2>3. TypeOK'
    BY <1>1, <1>4, <2>1, <2>2 DEF TypeInv, TypeOK, Steps, Deals, States
  <2>4. StepFits'
    BY <1>1, <1>4, <2>1, <2>2 DEF TypeInv, StepFits, Working
  <2>5. LogFits'
    BY <1>1, <1>4, LogFitsUnchanged
  <2> QED
    BY <2>3, <2>4, <2>5 DEF TypeInv
<1> QED
  BY <1>3, <1>4 DEF LogWriteFails

(* The types, step by step: FillUp.                                          *)
LEMMA TypeFillUp == TypeInv /\ FillUp => TypeInv'
<1> SUFFICES ASSUME TypeInv, FillUp PROVE TypeInv'
  OBVIOUS
<1>1. TypeOK'
  BY DEF TypeInv, TypeOK, FillUp, diskVars, logVars, ghostVars
<1>2. StepFits'
  BY DEF TypeInv, StepFits, FillUp, Working, cur
<1>3. LogFits'
  BY DEF TypeInv, LogFits, FillUp, logVars
<1> QED
  BY <1>1, <1>2, <1>3 DEF TypeInv

(* The types, step by step: CloseLog.                                        *)
LEMMA TypeCloseLog == TypeInv /\ CloseLog => TypeInv'
<1> SUFFICES ASSUME TypeInv, CloseLog PROVE TypeInv'
  OBVIOUS
<1>1. TypeOK'
  BY DEF TypeInv, TypeOK, CloseLog, diskVars, ghostVars, Phases
<1>2. StepFits'
  BY DEF TypeInv, StepFits, CloseLog, Working, cur
<1>3. Replay(log)' = Start /\ log' = <<>> /\ Start.list = <<>> /\ phase' = "destroying"
  BY ReplayEmpty DEF CloseLog, Start
<1>4. LogFits'
  BY <1>3, BoundsAssumption DEF LogFits
<1> QED
  BY <1>1, <1>2, <1>4 DEF TypeInv

(* The types, step by step: Destroy.                                         *)
LEMMA TypeDestroy == TypeInv /\ Destroy => TypeInv'
<1> SUFFICES ASSUME TypeInv, Destroy PROVE TypeInv'
  OBVIOUS
<1>1. /\ temp' \in [Slots -> Contents] /\ real' \in [Names -> Contents]
      /\ updates' \in Seq(Updates) /\ Len(updates') = 0 /\ phase' = "idle"
  BY DestroyTyped DEF Destroy
<1>2. TypeOK'
  <2>1. at' \in 0..MaxUpdates + 1 /\ Len(updates') <= MaxUpdates
    BY <1>1, BoundsAssumption DEF Destroy
  <2> QED
    BY <1>1, <2>1 DEF TypeInv, TypeOK, Destroy, Phases, logVars, ghostVars, Updates, Types
<1>3. StepFits'
  BY <1>1 DEF TypeInv, StepFits, Destroy, Working
<1>4. LogFits'
  BY <1>1 DEF TypeInv, LogFits, Destroy, logVars
<1> QED
  BY <1>2, <1>3, <1>4 DEF TypeInv

(* The types, step by step: Crash.                                           *)
LEMMA TypeCrash == TypeInv /\ Crash => TypeInv'
<1> SUFFICES ASSUME TypeInv, Crash PROVE TypeInv'
  OBVIOUS
<1>1. updates' = <<>> /\ updates' \in Seq(Updates) /\ Len(updates') = 0
  BY DEF Crash
<1>2. crashes' \in 0..MaxCrashes
  BY BoundsAssumption DEF TypeInv, TypeOK, Crash
<1>3. TypeOK'
  BY <1>1, <1>2, BoundsAssumption DEF TypeInv, TypeOK, Crash, Phases, Promise!Verdicts, diskVars, logVars, Updates, Types
<1>4. StepFits'
  BY DEF StepFits, Crash, Working
<1>5. LogFits'
  BY DEF TypeInv, LogFits, Crash, logVars
<1> QED
  BY <1>3, <1>4, <1>5 DEF TypeInv

(* A file looked for when the log is opened again has details.               *)
LEMMA FoundTyped ==
    ASSUME NEW i, NEW k, NEW d \in Details
    PROVE  Found(i, k, d) \in Details
BY NoDetailsTyped DEF Found

(* A list opened again is the same list, but for the details of its files.   *)
LEMMA ReopenedTyped ==
    ASSUME NEW list \in Seq(Updates)
    PROVE  /\ Reopened(list) \in Seq(Updates) /\ Len(Reopened(list)) = Len(list)
           /\ \A i \in DOMAIN list :
                /\ Reopened(list)[i].type = list[i].type /\ Reopened(list)[i].app = list[i].app
                /\ Reopened(list)[i].state = list[i].state
                /\ \A k \in AllKinds : Reopened(list)[i].det[k] = Found(i, k, list[i].det[k])
<1> DEFINE det(i) == [k \in AllKinds |-> Found(i, k, list[i].det[k])]
           u(i) == [list[i] EXCEPT !.det = det(i)]
<1>1. ASSUME NEW i \in 1..Len(list)
      PROVE /\ u(i) \in Updates /\ u(i).type = list[i].type /\ u(i).app = list[i].app
            /\ u(i).state = list[i].state
            /\ \A k \in AllKinds : u(i).det[k] = Found(i, k, list[i].det[k])
  <2>1. list[i] \in Updates
    OBVIOUS
  <2>2. det(i) \in [AllKinds -> Details]
    BY <2>1, FoundTyped DEF Updates
  <2> HIDE DEF det
  <2>3. /\ u(i) \in Updates /\ u(i).type = list[i].type /\ u(i).app = list[i].app
        /\ u(i).state = list[i].state /\ u(i).det = det(i)
    BY <2>1, <2>2 DEF Updates
  <2> QED
    BY <2>3 DEF det
<1>2. Reopened(list) = [i \in 1..Len(list) |-> u(i)]
  BY DEF Reopened
<1> HIDE DEF u
<1>3. Len(list) \in Nat /\ DOMAIN list = 1..Len(list)
  OBVIOUS
<1>4. Reopened(list) \in Seq(Updates) /\ Len(Reopened(list)) = Len(list)
  BY <1>1, <1>2, <1>3
<1> QED
  BY <1>1, <1>2, <1>3, <1>4

(* What a recovery reads and keeps.                                          *)
LEMMA RecoveryTyped ==
    ASSUME TypeInv
    PROVE  LET p == Replay(log) IN
           /\ GoodReading(p) /\ p.list \in Seq(Updates) /\ Len(p.list) <= MaxUpdates
           /\ Len(p.list) \in Nat /\ p.cur \in 0..Len(p.list)
           /\ p.length \in 0..Len(log)
           /\ Reopened(p.list) \in Seq(Updates) /\ Len(Reopened(p.list)) = Len(p.list)
           /\ SubSeq(log, 1, p.length) \in Seq(LogRecords)
           /\ Replay(SubSeq(log, 1, p.length)).list = p.list
<1>1. log \in Seq(LogRecords) /\ Len(Replay(log).list) <= MaxUpdates
  BY DEF TypeInv, LogFits
<1>2. GoodReading(Replay(log)) /\ Replay(log).length \in 0..Len(log)
  BY <1>1, ReplayTyped
<1>3. /\ Replay(log).list \in Seq(Updates) /\ Replay(log).cur \in Nat
      /\ Replay(log).cur <= Len(Replay(log).list)
  BY <1>2 DEF GoodReading, Readings
<1>4. Len(Replay(log).list) \in Nat
  BY <1>3
<1>5. SubSeq(log, 1, Replay(log).length) \in Seq(LogRecords)
  BY <1>1, <1>2
<1>6. Replay(SubSeq(log, 1, Replay(log).length)).list = Replay(log).list
  BY <1>1, ReplayTruncated
<1> QED
  BY <1>1, <1>2, <1>3, <1>4, <1>5, <1>6, ReopenedTyped

(* A recovery that leaves.                                                   *)
LEMMA TypeAbandon ==
    ASSUME TypeInv, NEW list, Abandon(list), UNCHANGED <<result, batch, before, crashes>>
    PROVE  TypeInv'
<1>1. /\ temp' \in [Slots -> Contents] /\ real' \in [Names -> Contents]
      /\ updates' \in Seq(Updates) /\ Len(updates') = 0 /\ phase' = "idle"
  BY DestroyTyped DEF Abandon
<1>2. logFile' = FALSE /\ log' = <<>> /\ at' = 0 /\ step' = "none" /\ left' = {} /\ full' = FALSE
  BY DEF Abandon
<1>3. Replay(log)' = Start /\ Start.list = <<>>
  BY <1>2, ReplayEmpty DEF Start
<1>4. TypeOK'
  <2>1. at' \in 0..MaxUpdates + 1 /\ Len(updates') <= MaxUpdates
    BY <1>1, <1>2, BoundsAssumption
  <2> QED
    BY <1>1, <1>2, <2>1 DEF TypeInv, TypeOK, Phases, Updates, Types
<1>5. StepFits'
  BY <1>1, <1>2 DEF StepFits, Working
<1>6. LogFits'
  BY <1>1, <1>2, <1>3, BoundsAssumption DEF LogFits
<1> QED
  BY <1>4, <1>5, <1>6 DEF TypeInv

(* The types, step by step: RecoverFails.                                    *)
LEMMA TypeRecoverFails == TypeInv /\ RecoverFails => TypeInv'
BY TypeAbandon DEF RecoverFails, ghostVars

(* The types, step by step: Recover.                                         *)
LEMMA TypeRecover == TypeInv /\ Recover => TypeInv'
<1> SUFFICES ASSUME TypeInv, Recover PROVE TypeInv'
  OBVIOUS
<1> DEFINE p == Replay(log)
           list == Reopened(p.list)
           kept == SubSeq(log, 1, p.length)
<1>1. /\ p.list \in Seq(Updates) /\ Len(p.list) <= MaxUpdates /\ Len(p.list) \in Nat /\ p.cur \in 0..Len(p.list)
      /\ list \in Seq(Updates) /\ Len(list) = Len(p.list)
      /\ kept \in Seq(LogRecords) /\ Replay(kept).list = p.list
  BY RecoveryTyped
<1>2. UNCHANGED <<result, batch, before, crashes>> /\ phase = "down" /\ logFile
  BY DEF Recover, ghostVars
<1>3. CASE Abandon(list)
  BY <1>2, <1>3, TypeAbandon
<1>4. CASE ~Abandon(list)
  <2> HIDE DEF kept, list, p
  <2>a. /\ log' = kept \o (IF p.fix THEN <<EndRecord>> ELSE <<>>)
        /\ RollBackFrom(IF p.cur # 0 /\ p.list[p.cur].state = "New" THEN p.cur - 1 ELSE p.cur)
        /\ updates' = list /\ UNCHANGED <<real, temp, logFile, full>>
    BY <1>4 DEF Recover, diskVars, kept, list, p
  <2>1. PICK i \in 0..Len(list) : RollBackFrom(i)
    BY <1>1, <2>a
  <2>2. updates' = list /\ UNCHANGED <<real, temp, logFile, full>>
    BY <2>a
  <2>3. log' = kept \/ log' = Append(kept, EndRecord)
    <3>1. kept \o <<>> = kept /\ kept \o <<EndRecord>> = Append(kept, EndRecord)
      BY <1>1
    <3> QED
      BY <2>a, <3>1
  <2>4. /\ at' \in 0..MaxUpdates + 1 /\ step' \in Steps \cup {"none"} /\ left' = {}
        /\ phase' \in {"closing", "rollingBack"} /\ StepFits'
    BY <1>1, <1>2, <2>1, <2>2, RollBackTyped DEF TypeInv, TypeOK
  <2>5. TypeOK'
    BY <1>1, <1>2, <2>2, <2>4 DEF TypeInv, TypeOK, Phases, Updates, Types
  <2>6. LogFits'
    <3>1. EndRecord \in LogRecords /\ EndRecord.r # "new"
      BY RecordsTyped
    <3>2. Append(kept, EndRecord) \in Seq(LogRecords)
      BY <1>1, <3>1
    <3>3. Len(Replay(Append(kept, EndRecord)).list) = Len(p.list)
      <4>1. Replay(Append(kept, EndRecord)) = ReadRecord(Replay(kept), EndRecord)
        BY <1>1, <3>1, ReplayAppend
      <4>2. GoodReading(Replay(kept))
        BY <1>1, ReplayTyped
      <4> QED
        BY <1>1, <3>1, <4>1, <4>2, ReadRecordTyped
    <3>4. log' \in Seq(LogRecords) /\ Len(Replay(log').list) = Len(p.list)
      BY <1>1, <2>3, <3>2, <3>3
    <3> QED
      BY <1>1, <2>4, <3>4 DEF LogFits
  <2> QED
    BY <2>4, <2>5, <2>6 DEF TypeInv
<1> QED
  BY <1>3, <1>4

(* The types, step by step: StartUp.                                         *)
LEMMA TypeStartUp == TypeInv /\ StartUp => TypeInv'
<1> SUFFICES ASSUME TypeInv, StartUp PROVE TypeInv'
  OBVIOUS
<1>1. TypeOK'
  BY DEF TypeInv, TypeOK, StartUp, diskVars, logVars, ghostVars, Phases
<1>2. StepFits'
  BY DEF TypeInv, StepFits, StartUp, Working, cur
<1>3. LogFits'
  BY DEF TypeInv, LogFits, StartUp, logVars
<1> QED
  BY <1>1, <1>2, <1>3 DEF TypeInv

(* The types, step by step: all of them.                                     *)
LEMMA TypeNext == TypeInv /\ [Next]_vars => TypeInv'
<1> SUFFICES ASSUME TypeInv, [Next]_vars PROVE TypeInv'
  OBVIOUS
<1>1. CASE Client
  BY <1>1, TypePrepare, TypeRegister, TypeDeregister, TypeAbort, TypeCommit, TypeCommitRefused DEF Client
<1>2. CASE Server
  BY <1>2, TypeWriteNew, TypeWriteSection, TypeStateChange, TypeContinuation, TypeEndOfUpdate,
     TypeFind, TypeRenameToReal, TypeRenameToTemporary, TypePerformLeaves, TypeDelete, TypeRestoreReal,
     TypeIgnored, TypeLogWriteFails, TypeCloseLog, TypeDestroy, TypeRecover, TypeRecoverFails, TypeStartUp DEF Server
<1>3. CASE FillUp
  BY <1>3, TypeFillUp
<1>4. CASE Crash
  BY <1>4, TypeCrash
<1>5. CASE UNCHANGED vars
  <2>1. TypeOK'
    BY <1>5 DEF TypeInv, TypeOK, vars
  <2>2. StepFits'
    BY <1>5 DEF TypeInv, StepFits, vars, Working, cur
  <2>3. LogFits'
    BY <1>5 DEF TypeInv, LogFits, vars
  <2> QED
    BY <2>1, <2>2, <2>3 DEF TypeInv
<1> QED
  BY <1>1, <1>2, <1>3, <1>4, <1>5 DEF Next

(* Whatever fails and whenever the server dies, the list, the update at      *)
(* work, its next step and the log are what they are declared to be: no      *)
(* replay, of however corrupt a log, leads out of the list.                  *)
THEOREM TypeCorrect == Spec => []TypeOK
<1>1. Spec => []TypeInv
  BY TypeInit, TypeNext, PTL DEF Spec
<1>2. TypeInv => TypeOK
  BY DEF TypeInv
<1> QED
  BY <1>1, <1>2, PTL
=============================================================================
