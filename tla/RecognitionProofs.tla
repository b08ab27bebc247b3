--------------------------- MODULE RecognitionProofs ---------------------------
(***************************************************************************)
(* Safety of recognition, for any files, directories and sessions, any     *)
(* limit of the cache and any number of requests and disturbances.         *)
(***************************************************************************)
EXTENDS Recognition, FiniteSetTheorems, SequenceTheorems, TLAPS

Caches == [directories : Seq(Directories), entries : SUBSET Entries, iNumberOfEntries : Nat]

EmptyDirectories(c) ==
    {d \in Directories : Listed(c, d) /\ \A e \in c.entries : DirectoryOf[e.file] # d}

(* A cache that counts its entries right, one for a file, each in a          *)
(* directory of the list, which has each directory once.                     *)
CacheOK(c) ==
    /\ c \in Caches
    /\ IsFiniteSet(c.entries)
    /\ c.iNumberOfEntries = Cardinality(c.entries)
    /\ \A e \in c.entries : Listed(c, DirectoryOf[e.file])
    /\ \A e, x \in c.entries : e.file = x.file => e = x
    /\ \A i, j \in 1 .. Len(c.directories) : c.directories[i] = c.directories[j] => i = j

(* Its entries and its empty directories together are at most k + n, and the *)
(* latter at most n.                                                         *)
Within(c, k, n) ==
    /\ CacheOK(c)
    /\ IsFiniteSet(EmptyDirectories(c)) /\ Cardinality(EmptyDirectories(c)) <= n
    /\ c.iNumberOfEntries + Cardinality(EmptyDirectories(c)) <= k + n

----------------------------------------------------------------------------
(* The operations on the cache.                                              *)

(* Listing a directory first lists it and no other that was not.             *)
LEMMA ToFrontLists ==
    ASSUME NEW c \in Caches, NEW d \in Directories,
           \A i, j \in 1 .. Len(c.directories) : c.directories[i] = c.directories[j] => i = j
    PROVE  /\ ToFront(c, d) \in Caches
           /\ ToFront(c, d).entries = c.entries
           /\ ToFront(c, d).iNumberOfEntries = c.iNumberOfEntries
           /\ \A x : Listed(ToFront(c, d), x) <=> x = d \/ Listed(c, x)
           /\ \A i, j \in 1 .. Len(ToFront(c, d).directories) :
                ToFront(c, d).directories[i] = ToFront(c, d).directories[j] => i = j
<1> DEFINE n == Len(c.directories)
           place == IF Listed(c, d) THEN CHOOSE i \in 1 .. n : c.directories[i] = d ELSE n + 1
           last == IF Listed(c, d) THEN n ELSE n + 1
           new == [i \in 1 .. last |->
                     IF i = 1 THEN d ELSE IF i <= place THEN c.directories[i - 1] ELSE c.directories[i]]
<1>1. n \in Nat /\ DOMAIN c.directories = 1 .. n /\ \A i \in 1 .. n : c.directories[i] \in Directories
  BY DEF Caches
<1>2. /\ last \in Nat /\ place \in 1 .. last /\ last >= n
      /\ Listed(c, d) => c.directories[place] = d /\ last = n
      /\ ~Listed(c, d) => place = n + 1 /\ last = n + 1
      /\ \A i \in 1 .. n : c.directories[i] = d => i = place
  <2>1. CASE Listed(c, d)
    <3>1. \E i \in 1 .. n : c.directories[i] = d
      BY <1>1, <2>1 DEF Listed
    <3>2. place \in 1 .. n /\ c.directories[place] = d
      BY <2>1, <3>1
    <3> QED
      BY <1>1, <2>1, <3>2
  <2>2. CASE ~Listed(c, d)
    BY <1>1, <2>2 DEF Listed
  <2> QED
    BY <2>1, <2>2
<1> HIDE DEF place, last, n
<1>3. ToFront(c, d) = [c EXCEPT !.directories = new]
  BY DEF ToFront, place, last, n
<1>4. /\ \A i \in 1 .. last : new[i] \in Directories
      /\ new \in [1 .. last -> Directories]
  BY <1>1, <1>2
<1>5. new \in Seq(Directories) /\ Len(new) = last /\ DOMAIN new = 1 .. last
  BY <1>2, <1>4
<1>6. ToFront(c, d) \in Caches /\ ToFront(c, d).directories = new
      /\ ToFront(c, d).entries = c.entries
      /\ ToFront(c, d).iNumberOfEntries = c.iNumberOfEntries
  BY <1>3, <1>5 DEF Caches
<1>7. ASSUME NEW x PROVE Listed(ToFront(c, d), x) <=> x = d \/ Listed(c, x)
  <2>1. ASSUME NEW i \in 1 .. last, new[i] = x PROVE x = d \/ Listed(c, x)
    BY <1>1, <1>2, <2>1 DEF Listed
  <2>2. new[1] = d /\ 1 \in 1 .. last
    BY <1>2
  <2>3. ASSUME NEW i \in 1 .. n, c.directories[i] = x PROVE \E j \in 1 .. last : new[j] = x
    <3>1. CASE i = place
      <4>1. Listed(c, d)
        BY <1>1, <1>2, <3>1
      <4> QED
        BY <1>2, <2>2, <2>3, <3>1, <4>1
    <3>2. CASE i < place
      BY <1>1, <1>2, <2>3, <3>2, i + 1 \in 1 .. last, new[i + 1] = c.directories[i]
    <3>3. CASE i > place
      BY <1>1, <1>2, <2>3, <3>3, i \in 1 .. last, new[i] = c.directories[i]
    <3> QED
      BY <1>1, <1>2, <3>1, <3>2, <3>3
  <2> QED
    BY <1>1, <1>5, <1>6, <2>1, <2>2, <2>3 DEF Listed
<1>8. ASSUME NEW i \in 1 .. last, NEW j \in 1 .. last, new[i] = new[j] PROVE i = j
  <2> DEFINE at(k) == IF k = 1 THEN place ELSE IF k <= place THEN k - 1 ELSE k
  <2>1. ASSUME NEW k \in 1 .. last, k # 1
        PROVE  at(k) \in 1 .. n /\ at(k) # place /\ new[k] = c.directories[at(k)]
    BY <1>1, <1>2, <2>1
  <2>2. ASSUME NEW k \in 1 .. last, k # 1 PROVE new[k] # d
    BY <1>2, <2>1, <2>2
  <2>3. new[1] = d
    BY <1>2
  <2>4. CASE i # 1 /\ j # 1
    <3>1. at(i) = at(j)
      BY <1>8, <2>1, <2>4 DEF n
    <3> QED
      BY <1>2, <2>4, <3>1
  <2> QED
    BY <1>8, <2>2, <2>3, <2>4
<1> QED
  BY <1>5, <1>6, <1>7, <1>8

(* A listed directory is moved: nothing else changes.                        *)
LEMMA SearchedWithin ==
    ASSUME NEW c, NEW d \in Directories, NEW k \in Nat, NEW n \in Nat,
           Within(c, k, n), Listed(c, d)
    PROVE  Within(ToFront(c, d), k, n)
<1>1. EmptyDirectories(ToFront(c, d)) = EmptyDirectories(c)
  BY ToFrontLists DEF Within, CacheOK, EmptyDirectories
<1>2. CacheOK(ToFront(c, d))
  BY ToFrontLists DEF Within, CacheOK
<1> QED
  BY <1>1, <1>2, ToFrontLists DEF Within, CacheOK

(* A new directory may be empty.                                             *)
LEMMA DirectoryAdded ==
    ASSUME NEW c, NEW d \in Directories, NEW k \in Nat, NEW n \in Nat, Within(c, k, n)
    PROVE  Within(ToFront(c, d), k, n + 1)
<1> DEFINE t == ToFront(c, d)
<1>1. EmptyDirectories(t) \subseteq EmptyDirectories(c) \cup {d}
  BY ToFrontLists DEF Within, CacheOK, EmptyDirectories
<1>2. CacheOK(t) /\ t.iNumberOfEntries = c.iNumberOfEntries
  BY ToFrontLists DEF Within, CacheOK
<1>3. IsFiniteSet(EmptyDirectories(c) \cup {d})
      /\ Cardinality(EmptyDirectories(c) \cup {d}) <= Cardinality(EmptyDirectories(c)) + 1
  <2>1. IsFiniteSet(EmptyDirectories(c))
    BY DEF Within
  <2>2. Cardinality(EmptyDirectories(c)) \in Nat
    BY <2>1, FS_CardinalityType
  <2> HIDE DEF t
  <2> QED
    BY <2>1, <2>2, FS_AddElement
<1>4. IsFiniteSet(EmptyDirectories(t))
      /\ Cardinality(EmptyDirectories(t)) <= Cardinality(EmptyDirectories(c) \cup {d})
  BY <1>1, <1>3, FS_Subset
<1>5. /\ Cardinality(EmptyDirectories(t)) \in Nat /\ Cardinality(EmptyDirectories(c)) \in Nat
      /\ Cardinality(EmptyDirectories(c) \cup {d}) \in Nat /\ c.iNumberOfEntries \in Nat
  BY <1>3, <1>4, FS_CardinalityType DEF Within, CacheOK, Caches
<1> HIDE DEF t
<1>6. Cardinality(EmptyDirectories(c)) <= n
      /\ c.iNumberOfEntries + Cardinality(EmptyDirectories(c)) <= k + n
  BY DEF Within
<1>7. Cardinality(EmptyDirectories(t)) <= n + 1
      /\ t.iNumberOfEntries + Cardinality(EmptyDirectories(t)) <= k + (n + 1)
  BY <1>2, <1>3, <1>4, <1>5, <1>6
<1> QED
  BY <1>2, <1>4, <1>7 DEF Within, t

(* A wider bound is kept where a narrower one is.                            *)
LEMMA WithinWider ==
    ASSUME NEW c, NEW k \in Nat, NEW n \in Nat, Within(c, k, n)
    PROVE  Within(c, k + 1, n)
<1>1. Cardinality(EmptyDirectories(c)) \in Nat /\ c.iNumberOfEntries \in Nat
  BY FS_CardinalityType DEF Within, CacheOK, Caches
<1> QED
  BY <1>1 DEF Within

(* Adding to a directory that was listed for it counts one entry more at     *)
(* most, and leaves that directory with an entry.                            *)
LEMMA EntryAdded ==
    ASSUME NEW c, NEW e \in Entries, NEW k \in Nat, NEW n \in Nat, Within(c, k, n)
    PROVE  Within(AddToDirectory(ToFront(c, DirectoryOf[e.file]), e), k + 1, n)
<1> DEFINE d == DirectoryOf[e.file]
           t == ToFront(c, d)
           old == {x \in t.entries : x.file = e.file}
           a == AddToDirectory(t, e)
<1>1. d \in Directories /\ e.file \in Files
  BY CacheAssumption DEF Entries
<1>2. /\ CacheOK(t) /\ t.entries = c.entries /\ t.iNumberOfEntries = c.iNumberOfEntries
      /\ \A x : Listed(t, x) <=> x = d \/ Listed(c, x)
  BY <1>1, ToFrontLists DEF Within, CacheOK
<1>3. t \in Caches /\ IsFiniteSet(t.entries) /\ t.iNumberOfEntries = Cardinality(t.entries)
      /\ t.iNumberOfEntries \in Nat /\ t.entries \subseteq Entries
  BY <1>2 DEF CacheOK, Caches
<1> HIDE DEF t
<1>4. /\ a.directories = t.directories /\ a \in Caches
      /\ a.entries \in {t.entries, (t.entries \ old) \cup {e}}
      /\ \E x \in a.entries : x.file = e.file
      /\ \A x \in t.entries \ old : x \in a.entries
  <2>1. CASE old = {}
    <3>1. a = [t EXCEPT !.entries = @ \cup {e}, !.iNumberOfEntries = @ + 1]
      BY <2>1 DEF AddToDirectory
    <3>2. a = [directories |-> t.directories, entries |-> t.entries \cup {e},
               iNumberOfEntries |-> t.iNumberOfEntries + 1]
      BY <1>3, <3>1 DEF Caches
    <3>3. t.entries \cup {e} \subseteq Entries /\ t.iNumberOfEntries + 1 \in Nat
      BY <1>3
    <3> QED
      BY <1>3, <2>1, <3>2, <3>3 DEF Caches
  <2>2. CASE old # {} /\ \E x \in old : x.lastModified = e.lastModified
    <3>1. a = t
      BY <2>2 DEF AddToDirectory
    <3> QED
      BY <1>3, <2>2, <3>1
  <2>3. CASE old # {} /\ ~\E x \in old : x.lastModified = e.lastModified
    <3>1. a = [t EXCEPT !.entries = (@ \ old) \cup {e}]
      BY <2>3 DEF AddToDirectory
    <3>2. a = [directories |-> t.directories, entries |-> (t.entries \ old) \cup {e},
               iNumberOfEntries |-> t.iNumberOfEntries]
      BY <1>3, <3>1 DEF Caches
    <3>3. (t.entries \ old) \cup {e} \subseteq Entries
      BY <1>3
    <3> QED
      BY <1>3, <2>3, <3>2, <3>3 DEF Caches
  <2> QED
    BY <2>1, <2>2, <2>3
<1>5. /\ IsFiniteSet(a.entries) /\ a.iNumberOfEntries = Cardinality(a.entries)
      /\ a.iNumberOfEntries <= t.iNumberOfEntries + 1 /\ a.iNumberOfEntries \in Nat
  <2>1. CASE old = {}
    <3>1. a = [t EXCEPT !.entries = @ \cup {e}, !.iNumberOfEntries = @ + 1]
      BY <2>1 DEF AddToDirectory
    <3>2. a.entries = t.entries \cup {e} /\ a.iNumberOfEntries = t.iNumberOfEntries + 1
      BY <1>3, <3>1 DEF Caches
    <3>3. e \notin t.entries
      BY <2>1
    <3>4. IsFiniteSet(t.entries \cup {e}) /\ Cardinality(t.entries \cup {e}) = Cardinality(t.entries) + 1
      BY <1>3, <3>3, FS_AddElement
    <3> QED
      BY <1>3, <3>2, <3>4
  <2>2. CASE old # {} /\ \E x \in old : x.lastModified = e.lastModified
    <3>1. a = t
      BY <2>2 DEF AddToDirectory
    <3> QED
      BY <1>3, <3>1
  <2>3. CASE old # {} /\ ~\E x \in old : x.lastModified = e.lastModified
    <3>1. a = [t EXCEPT !.entries = (@ \ old) \cup {e}]
      BY <2>3 DEF AddToDirectory
    <3>2. a.entries = (t.entries \ old) \cup {e} /\ a.iNumberOfEntries = t.iNumberOfEntries
      BY <1>3, <3>1 DEF Caches
    <3>3. PICK x : x \in old
      BY <2>3
    <3>4. old = {x} /\ x \in t.entries
      BY <1>2, <3>3 DEF CacheOK
    <3>5. e \notin t.entries \ {x}
      BY <3>4
    <3>6. IsFiniteSet(t.entries \ {x}) /\ Cardinality(t.entries \ {x}) = Cardinality(t.entries) - 1
      BY <1>3, <3>4, FS_RemoveElement
    <3>7. IsFiniteSet((t.entries \ {x}) \cup {e})
          /\ Cardinality((t.entries \ {x}) \cup {e}) = Cardinality(t.entries \ {x}) + 1
      BY <3>5, <3>6, FS_AddElement
    <3> HIDE DEF a, old
    <3>8. a.entries = (t.entries \ {x}) \cup {e}
      BY <3>2, <3>4
    <3>9. Cardinality(t.entries) \in Nat
      BY <1>3
    <3>10. Cardinality(a.entries) = Cardinality(t.entries)
      BY <3>6, <3>7, <3>8, <3>9
    <3>11. IsFiniteSet(a.entries)
      BY <3>7, <3>8
    <3>12. a.iNumberOfEntries = t.iNumberOfEntries
      BY <3>2
    <3> QED
      BY <1>3, <3>10, <3>11, <3>12
  <2> QED
    BY <2>1, <2>2, <2>3
<1> HIDE DEF a
<1>6. a.entries = t.entries \/ \A x \in a.entries : x = e \/ (x \in t.entries /\ x.file # e.file)
  <2>1. CASE a.entries = (t.entries \ old) \cup {e}
    BY <2>1
  <2> HIDE DEF old
  <2> QED
    BY <1>4, <2>1
<1> HIDE DEF old
<1>7. \A x : Listed(a, x) <=> x = d \/ Listed(c, x)
  BY <1>2, <1>4 DEF Listed
<1>8. CacheOK(a)
  <2>1. \A x \in a.entries : Listed(a, DirectoryOf[x.file])
    BY <1>2, <1>6, <1>7 DEF CacheOK
  <2>2. \A x, y \in a.entries : x.file = y.file => x = y
    BY <1>2, <1>6 DEF CacheOK
  <2>3. \A i, j \in 1 .. Len(a.directories) : a.directories[i] = a.directories[j] => i = j
    BY <1>2, <1>4 DEF CacheOK
  <2> QED
    BY <1>4, <1>5, <2>1, <2>2, <2>3 DEF CacheOK
<1>9. EmptyDirectories(a) \subseteq EmptyDirectories(c)
  <2>1. d \notin EmptyDirectories(a)
    BY <1>4 DEF EmptyDirectories
  <2>2. ASSUME NEW x \in EmptyDirectories(a), NEW y \in c.entries PROVE DirectoryOf[y.file] # x
    <3>1. CASE y \in old
      BY <2>1, <2>2, <3>1 DEF old
    <3>2. CASE y \notin old
      BY <1>2, <1>4, <2>2, <3>2 DEF EmptyDirectories
    <3> QED
      BY <3>1, <3>2
  <2> QED
    BY <1>7, <2>1, <2>2 DEF EmptyDirectories
<1>10. IsFiniteSet(EmptyDirectories(a)) /\ Cardinality(EmptyDirectories(a)) <= Cardinality(EmptyDirectories(c))
  BY <1>9, FS_Subset DEF Within
<1>11. Cardinality(EmptyDirectories(a)) \in Nat /\ Cardinality(EmptyDirectories(c)) \in Nat
  BY <1>10, FS_CardinalityType DEF Within
<1>12. /\ Cardinality(EmptyDirectories(c)) <= n
       /\ t.iNumberOfEntries + Cardinality(EmptyDirectories(c)) <= k + n
  BY <1>2 DEF Within
<1>13. /\ Cardinality(EmptyDirectories(a)) <= n
       /\ a.iNumberOfEntries + Cardinality(EmptyDirectories(a)) <= (k + 1) + n
  BY <1>3, <1>5, <1>10, <1>11, <1>12
<1>14. Within(a, k + 1, n)
  BY <1>8, <1>10, <1>13 DEF Within
<1> QED
  BY <1>14 DEF a, t

(* Cleaning up takes the last directory off the list, with its entries: an   *)
(* empty directory, or one entry at least.                                   *)
LEMMA CleanedUp ==
    ASSUME NEW c, NEW k \in Nat, NEW n \in Nat, Within(c, k + 1, n), c.directories # <<>>
    PROVE  Within(Cleanup(c), k, n)
<1> DEFINE len == Len(c.directories)
           last == c.directories[len]
           kept == {e \in c.entries : DirectoryOf[e.file] # last}
           rest == SubSeq(c.directories, 1, len - 1)
           u == Cleanup(c)
<1>1. c.directories \in Seq(Directories) /\ c.entries \subseteq Entries /\ IsFiniteSet(c.entries)
      /\ c.iNumberOfEntries = Cardinality(c.entries) /\ c.iNumberOfEntries \in Nat
  BY DEF Within, CacheOK, Caches
<1>2. len \in Nat /\ len >= 1 /\ DOMAIN c.directories = 1 .. len
      /\ \A i \in 1 .. len : c.directories[i] \in Directories
  BY <1>1, EmptySeq, LenProperties, ElementOfSeq
<1> HIDE DEF len
<1>3. rest \in Seq(Directories) /\ Len(rest) = len - 1 /\ DOMAIN rest = 1 .. len - 1
      /\ \A i \in 1 .. len - 1 : rest[i] = c.directories[i]
  <2>1. rest \in Seq(Directories) /\ Len(rest) = (IF 1 <= len - 1 THEN len - 1 - 1 + 1 ELSE 0)
        /\ \A i \in 1 .. len - 1 - 1 + 1 : rest[i] = c.directories[1 + i - 1]
    BY <1>2, SubSeqProperties
  <2> HIDE DEF rest
  <2>2. Len(rest) = len - 1
    BY <1>2, <2>1
  <2>3. DOMAIN rest = 1 .. len - 1
    BY <2>1, <2>2, LenProperties
  <2>4. ASSUME NEW i \in 1 .. len - 1 PROVE rest[i] = c.directories[i]
    BY <1>2, <2>1
  <2> QED
    BY <2>1, <2>2, <2>3, <2>4
<1>4. u = [directories |-> rest, entries |-> kept,
           iNumberOfEntries |-> c.iNumberOfEntries - Cardinality(c.entries \ kept)]
  BY DEF Cleanup, len
<1> HIDE DEF rest, u
<1>5. kept \subseteq c.entries /\ IsFiniteSet(kept) /\ Cardinality(kept) \in Nat
      /\ IsFiniteSet(c.entries \ kept) /\ Cardinality(c.entries \ kept) \in Nat
      /\ Cardinality(kept) = c.iNumberOfEntries - Cardinality(c.entries \ kept)
  <2>1. kept \subseteq c.entries /\ kept = c.entries \ (c.entries \ kept)
    OBVIOUS
  <2>2. IsFiniteSet(kept) /\ IsFiniteSet(c.entries \ kept)
    BY <1>1, <2>1, FS_Subset
  <2>3. Cardinality(kept) \in Nat /\ Cardinality(c.entries \ kept) \in Nat
    BY <2>2, FS_CardinalityType
  <2>4. Cardinality(c.entries \ kept) = Cardinality(c.entries) - Cardinality(c.entries \cap kept)
    BY <1>1, FS_Difference
  <2>5. c.entries \cap kept = kept
    OBVIOUS
  <2> HIDE DEF kept
  <2>6. Cardinality(c.entries \ kept) = c.iNumberOfEntries - Cardinality(kept)
    BY <1>1, <2>4, <2>5
  <2>7. Cardinality(kept) = c.iNumberOfEntries - Cardinality(c.entries \ kept)
    BY <1>1, <2>3, <2>6
  <2> QED
    BY <2>1, <2>2, <2>3, <2>7
<1>6. u \in Caches /\ u.directories = rest /\ u.entries = kept /\ u.iNumberOfEntries = Cardinality(kept)
  BY <1>1, <1>3, <1>4, <1>5 DEF Caches
<1>7. \A x : Listed(c, x) <=> x = last \/ Listed(u, x)
  BY <1>2, <1>3, <1>6 DEF Listed
<1>8. ~Listed(u, last)
  <2>1. \A i, j \in 1 .. len : c.directories[i] = c.directories[j] => i = j
    BY DEF Within, CacheOK, len
  <2> QED
    BY <1>2, <1>3, <1>6, <2>1 DEF Listed
<1>9. CacheOK(u)
  <2>1. \A e \in u.entries : Listed(u, DirectoryOf[e.file])
    BY <1>6, <1>7 DEF Within, CacheOK
  <2>2. \A e, x \in u.entries : e.file = x.file => e = x
    BY <1>6 DEF Within, CacheOK
  <2>3. \A i, j \in 1 .. len : c.directories[i] = c.directories[j] => i = j
    BY DEF Within, CacheOK, len
  <2>4. \A i, j \in 1 .. Len(u.directories) : u.directories[i] = u.directories[j] => i = j
    BY <1>2, <1>3, <1>6, <2>3
  <2> QED
    BY <1>5, <1>6, <2>1, <2>2, <2>4 DEF CacheOK
<1>10. EmptyDirectories(u) \subseteq EmptyDirectories(c) \ {last}
  BY <1>6, <1>7, <1>8 DEF EmptyDirectories
<1>11. IsFiniteSet(EmptyDirectories(c)) /\ Cardinality(EmptyDirectories(c)) \in Nat
  BY FS_CardinalityType DEF Within
<1>12. /\ Cardinality(EmptyDirectories(c)) <= n
       /\ c.iNumberOfEntries + Cardinality(EmptyDirectories(c)) <= (k + 1) + n
  BY DEF Within
<1>13. IsFiniteSet(EmptyDirectories(u)) /\ Cardinality(EmptyDirectories(u)) <= Cardinality(EmptyDirectories(c))
       /\ Cardinality(EmptyDirectories(u)) \in Nat
  <2>1. EmptyDirectories(u) \in SUBSET EmptyDirectories(c)
    BY <1>10
  <2> QED
    BY <1>11, <2>1, FS_Subset, FS_CardinalityType
<1>14. Cardinality(EmptyDirectories(u)) + Cardinality(kept)
         < Cardinality(EmptyDirectories(c)) + c.iNumberOfEntries
  <2>1. CASE kept # c.entries
    <3>1. c.entries \ kept # {}
      BY <2>1
    <3>2. Cardinality(c.entries \ kept) # 0
      BY <1>5, <3>1, FS_EmptySet
    <3> HIDE DEF kept
    <3> QED
      BY <1>1, <1>5, <1>11, <1>13, <3>2
  <2>2. CASE kept = c.entries
    <3>1. last \in EmptyDirectories(c)
      BY <1>2, <1>7, <2>2 DEF EmptyDirectories
    <3>2. IsFiniteSet(EmptyDirectories(c) \ {last})
          /\ Cardinality(EmptyDirectories(c) \ {last}) = Cardinality(EmptyDirectories(c)) - 1
      BY <1>11, <3>1, FS_RemoveElement
    <3>3. Cardinality(EmptyDirectories(u)) <= Cardinality(EmptyDirectories(c) \ {last})
      BY <1>10, <3>2, FS_Subset
    <3> HIDE DEF kept
    <3> QED
      BY <1>1, <1>5, <1>11, <1>13, <2>2, <3>2, <3>3
  <2> QED
    BY <2>1, <2>2
<1>15. /\ Cardinality(EmptyDirectories(u)) <= n
       /\ u.iNumberOfEntries + Cardinality(EmptyDirectories(u)) <= k + n
  <2> HIDE DEF kept
  <2> QED
    BY <1>1, <1>5, <1>6, <1>11, <1>12, <1>13, <1>14
<1> QED
  BY <1>9, <1>13, <1>15 DEF Within, u

(* There is room for one entry more.                                         *)
LEMMA RoomMade ==
    ASSUME NEW c, NEW n \in Nat, Within(c, KMaxNumberOfEntries + 1, n)
    PROVE  Within(Room(c), KMaxNumberOfEntries, n)
<1>1. KMaxNumberOfEntries \in Nat /\ c.iNumberOfEntries \in Nat
  BY CacheAssumption DEF Within, CacheOK, Caches
<1>2. CASE c.iNumberOfEntries > KMaxNumberOfEntries
  <2>1. c.entries # {}
    BY <1>1, <1>2, FS_EmptySet DEF Within, CacheOK
  <2>2. c.directories # <<>>
    BY <2>1 DEF Within, CacheOK, Listed
  <2>3. Room(c) = Cleanup(c)
    BY <1>2 DEF Room
  <2> QED
    BY <1>1, <2>2, <2>3, CleanedUp
<1>3. CASE ~(c.iNumberOfEntries > KMaxNumberOfEntries)
  <2>1. Room(c) = c
    BY <1>3 DEF Room
  <2>2. Cardinality(EmptyDirectories(c)) \in Nat
    BY FS_CardinalityType DEF Within
  <2>3. Cardinality(EmptyDirectories(c)) <= n
    BY DEF Within
  <2>4. c.iNumberOfEntries + Cardinality(EmptyDirectories(c)) <= KMaxNumberOfEntries + n
    BY <1>1, <1>3, <2>2, <2>3
  <2> QED
    BY <2>1, <2>4 DEF Within
<1> QED
  BY <1>2, <1>3

(* Adding keeps the bound; an entry that could not be added may cost one.    *)
LEMMA Added ==
    ASSUME NEW c, NEW e \in Entries, NEW n \in Nat, Within(c, KMaxNumberOfEntries + 1, n)
    PROVE  Within(DoAdd(c, e), KMaxNumberOfEntries + 1, n)
BY CacheAssumption, RoomMade, EntryAdded DEF DoAdd

(* What is left when an entry was not added.                                 *)
LEMMA NotAdded ==
    ASSUME NEW c, NEW d \in Directories, NEW n \in Nat, Within(c, KMaxNumberOfEntries + 1, n),
           NEW left \in DoAddLeaves(c, d)
    PROVE  Within(left, KMaxNumberOfEntries + 1, n + 1)
<1>1. Within(Room(c), KMaxNumberOfEntries, n)
  BY RoomMade
<1>2. left = ToFront(Room(c), d) \/ left = Room(c)
  BY DEF DoAddLeaves
<1>3. CASE left = ToFront(Room(c), d)
  BY <1>1, <1>3, CacheAssumption, DirectoryAdded, WithinWider
<1>4. CASE left = Room(c)
  <2>1. Within(left, KMaxNumberOfEntries + 1, n)
    BY <1>1, <1>4, CacheAssumption, WithinWider
  <2>2. Cardinality(EmptyDirectories(left)) \in Nat /\ left.iNumberOfEntries \in Nat
    BY <2>1, FS_CardinalityType DEF Within, CacheOK, Caches
  <2> QED
    BY <2>1, <2>2, CacheAssumption DEF Within
<1> QED
  BY <1>2, <1>3, <1>4

(* No operation makes an entry up.                                           *)
LEMMA EntriesAdded ==
    ASSUME NEW c, NEW e \in Entries, NEW n \in Nat, Within(c, KMaxNumberOfEntries + 1, n)
    PROVE  DoAdd(c, e).entries \subseteq c.entries \cup {e}
<1>1. Within(Room(c), KMaxNumberOfEntries, n) /\ DirectoryOf[e.file] \in Directories
  BY RoomMade, CacheAssumption DEF Entries
<1>2. Room(c).entries \subseteq c.entries
  BY DEF Room, Cleanup
<1>3. ToFront(Room(c), DirectoryOf[e.file]) \in Caches
      /\ ToFront(Room(c), DirectoryOf[e.file]).entries = Room(c).entries
  BY <1>1, ToFrontLists DEF Within, CacheOK
<1> QED
  BY <1>2, <1>3 DEF DoAdd, AddToDirectory, Caches

(* Nor does one that leaves.                                                 *)
LEMMA EntriesNotAdded ==
    ASSUME NEW c, NEW d \in Directories, NEW n \in Nat, Within(c, KMaxNumberOfEntries + 1, n),
           NEW left \in DoAddLeaves(c, d)
    PROVE  left.entries \subseteq c.entries
<1>1. Within(Room(c), KMaxNumberOfEntries, n)
  BY RoomMade
<1>2. Room(c).entries \subseteq c.entries
  BY DEF Room, Cleanup
<1>3. ToFront(Room(c), d).entries = Room(c).entries
  BY <1>1, ToFrontLists DEF Within, CacheOK
<1> QED
  BY <1>2, <1>3 DEF DoAddLeaves

----------------------------------------------------------------------------
(* The inductive invariant.                                                  *)

CacheWithin == Within(cache, KMaxNumberOfEntries + 1, addsLeft)

(* Also before the monitor is started, when nothing is cached yet.           *)
FollowsPlugIns ==
    /\ notifier \in {"Unstarted", "Armed"} /\ ~outdated =>
         /\ recognizers.loaded \in {0, plugIns}
         /\ \A e \in cache.entries : e.plugIns = plugIns
    /\ ~Started => cache.entries = {}

(* What is cached is what was recognized, but for what clients said.         *)
EntriesAreTrue == \A e \in cache.entries : e.contents \in {0, e.lastModified}

(* What a session is doing for its client.                                   *)
SessionInv(s) ==
    /\ client[s] # "Waiting" => answer[s] = "None"
    /\ client[s] = "Calling" <=> serving = s
    /\ serving = s => Started /\ s \notin iAsyncRecognitionActive /\ iRecognitionResult[s] # Null
    /\ utility[s].active => s \in iAsyncRecognitionActive /\ utility[s].iStep # 2
    /\ s \in iAsyncRecognitionActive /\ s \notin unfetched => client[s] = "Waiting" /\ answer[s] # "Error"
    /\ s \in iAsyncRecognitionActive /\ client[s] = "Waiting" /\ answer[s] # "Error" =>
         iRecognitionResult[s] # Null

(* All sessions; and the invariant of the variables they share.              *)
SessionsInv == \A s \in Sessions : SessionInv(s)

SharedInv ==
    /\ CacheTypeOK
    /\ LoadedWhileUsed
    /\ CacheWithin
    /\ FollowsPlugIns
    /\ EntriesAreTrue

RecInv ==
    /\ SharedInv
    /\ TypeOK
    /\ ResultsAreTrue
    /\ WaitersAreAnswered
    /\ SessionsInv

----------------------------------------------------------------------------
(* The steps, as the shared variables see them.                              *)

(* Requests and disturbances are counted; a file may be written meanwhile.   *)
Counts ==
    /\ UNCHANGED requests \/ Request
    /\ UNCHANGED disturbances \/ Disturb

DiskSteps ==
    \/ UNCHANGED diskVars
    \/ \E f \in Files : clock' = clock + 1 /\ disk' = [disk EXCEPT ![f] = clock + 1]

(* What recognizing a file does to the cache, whether it leaves or not.      *)
CacheSteps(f) ==
    \/ cache' = Searched(f) /\ UNCHANGED addsLeft
    \/ \E c \in {0, disk'[f]} : cache' = DoAdd(Searched(f), Result(f, c)) /\ UNCHANGED addsLeft
    \/ cache' \in DoAddLeaves(Searched(f), DirectoryOf[f]) /\ addsLeft' = addsLeft + 1

(* Something is recognized, with what it does to the cache, or tried to be.  *)
Recognizes ==
    /\ Started /\ Counts /\ DiskSteps
    /\ recognizers' \in {recognizers, Used}
    /\ UNCHANGED cacheVars \/ \E f \in Files : CacheSteps(f)
    /\ UNCHANGED <<plugIns, iLoadRecognizersOnDemand, monitorVars, outdated>>

(* What sessions do among themselves.                                        *)
Stays ==
    /\ Counts
    /\ UNCHANGED <<diskVars, plugIns, recognizerVars, cacheVars, monitorVars, outdated>>

(* A recognition, and one that leaves, are such steps.                       *)
LEMMA RecognizeCases ==
    ASSUME NEW f \in Files, NEW c \in {0, disk'[f]}, Recognize(f, Result(f, c))
    PROVE  CacheSteps(f)
BY DEF Recognize, CacheSteps

(* The same for one that leaves.                                             *)
LEMMA RecognizeLeavesCases ==
    ASSUME NEW f \in Files, NEW c \in {0, disk'[f]}, RecognizeLeaves(f, Result(f, c))
    PROVE  CacheSteps(f)
BY DEF RecognizeLeaves, CacheSteps

(* So is all that is answered at once.                                       *)
LEMMA AskCases == ASSUME Ask PROVE Recognizes
<1> USE DEF Counts, DiskSteps
<1>1. CASE UseRecognizers
  BY <1>1 DEF UseRecognizers, Recognizes, cacheVars
<1>2. ASSUME NEW f \in Files, NEW c \in {0, disk'[f]}, RecognitionFails(f, Result(f, c))
      PROVE  CacheSteps(f) /\ Disturb /\ recognizers' \in {recognizers, Used}
  <2>1. CASE RecognizeLeaves(f, Result(f, c)) /\ recognizers' = Used
    BY <1>2, <2>1, RecognizeLeavesCases DEF RecognitionFails
  <2>2. CASE LoadingMayLeave /\ cache' = Searched(f) /\ UNCHANGED <<recognizers, addsLeft>>
    BY <1>2, <2>2 DEF RecognitionFails, CacheSteps
  <2> QED
    BY <1>2, <2>1, <2>2 DEF RecognitionFails
<1>3. ASSUME NEW f \in Files, RecognizeData(f) PROVE Recognizes
  <2>1. PICK c \in {0, disk'[f]} :
            \/ /\ Recognize(f, Result(f, c)) /\ UNCHANGED disturbances
               /\ recognizers' = IF Hits(f) # {} THEN recognizers ELSE Used
            \/ RecognitionFails(f, Result(f, c))
    BY <1>3 DEF RecognizeData, diskVars
  <2>2. CacheSteps(f) /\ (UNCHANGED disturbances \/ Disturb) /\ recognizers' \in {recognizers, Used}
    BY <1>2, <2>1, RecognizeCases
  <2> QED
    BY <1>3, <2>2 DEF RecognizeData, Recognizes
<1>4. ASSUME NEW f \in Files, RecognizeDataPassedByFileHandle(f) PROVE Recognizes
  <2>1. CASE UNCHANGED <<diskVars, disturbances>> /\ recognizers' = Used /\ Recognize(f, Result(f, disk[f]))
    <3>1. disk[f] \in {0, disk'[f]}
      BY <2>1 DEF diskVars
    <3>2. CacheSteps(f)
      BY <2>1, <3>1, RecognizeCases
    <3> QED
      BY <1>4, <2>1, <3>2 DEF RecognizeDataPassedByFileHandle, Recognizes
  <2>2. CASE WriteFile(f) /\ recognizers' = Used /\ Recognize(f, Result(f, 0))
    <3>1. CacheSteps(f)
      BY <2>2, RecognizeCases
    <3> QED
      BY <1>4, <2>2, <3>1 DEF RecognizeDataPassedByFileHandle, Recognizes, WriteFile
  <2>3. CASE UNCHANGED diskVars /\ RecognitionFails(f, Result(f, disk[f]))
    <3>1. disk[f] \in {0, disk'[f]}
      BY <2>3 DEF diskVars
    <3>2. CacheSteps(f) /\ Disturb /\ recognizers' \in {recognizers, Used}
      BY <1>2, <2>3, <3>1
    <3> QED
      BY <1>4, <2>3, <3>2 DEF RecognizeDataPassedByFileHandle, Recognizes
  <2> QED
    BY <1>4, <2>1, <2>2, <2>3 DEF RecognizeDataPassedByFileHandle
<1> QED
  BY <1>1, <1>3, <1>4 DEF Ask

(* And a file of a session's directory, also when the rest is not done.      *)
LEMMA RecognizeFileCases ==
    ASSUME NEW s \in Sessions, NEW f \in Files, Started,
           RecognizeFile(s, f) \/ RecognizeFileLeaves(s, f)
    PROVE  Recognizes
<1> USE DEF Counts, DiskSteps
<1>1. UNCHANGED diskVars /\ disk[f] \in {0, disk'[f]}
  BY DEF RecognizeFile, Open, RecognizeFileLeaves, diskVars
<1>2. CASE RecognizeFile(s, f)
  <2>1. CASE Recognize(f, Result(f, disk[f])) /\ recognizers' = Used /\ Undisturbed
    BY <1>1, <1>2, <2>1, RecognizeCases DEF RecognizeFile, Recognizes, Undisturbed
  <2>2. CASE RecognizeLeaves(f, Result(f, disk[f])) /\ recognizers' = Used /\ Disturb
    BY <1>1, <1>2, <2>2, RecognizeLeavesCases DEF RecognizeFile, Recognizes
  <2>3. CASE Disturb /\ UNCHANGED <<recognizers, cacheVars>>
    BY <1>1, <1>2, <2>3 DEF RecognizeFile, Recognizes
  <2> QED
    BY <1>2, <2>1, <2>2, <2>3 DEF RecognizeFile
<1>3. CASE RecognizeFileLeaves(s, f)
  <2>1. CASE Disturb /\ recognizers' = Used /\ Recognize(f, Result(f, disk[f]))
    BY <1>1, <1>3, <2>1, RecognizeCases DEF RecognizeFileLeaves, Recognizes
  <2>2. CASE (Undisturbed \/ Disturb) /\ UNCHANGED <<recognizers, cacheVars>>
    BY <1>1, <1>3, <2>2 DEF RecognizeFileLeaves, Recognizes, Undisturbed
  <2> QED
    BY <1>3, <2>1, <2>2 DEF RecognizeFileLeaves
<1> QED
  BY <1>2, <1>3

(* Every step is one of these.                                               *)
SharedStep ==
    \/ Recognizes \/ Stays
    \/ \E f \in Files : Write(f) \/ Delete(f)
    \/ PlugInsChange \/ EComFails
    \/ Start \/ DoUnloadRecognizers \/ EComRunL \/ TimerCallBack \/ StopTimer

(* No step does anything else to the shared variables.                       *)
LEMMA SharedCases ==
    ASSUME TypeOK, SessionsInv, [Next]_vars
    PROVE  SharedStep
<1> USE DEF Counts, UnchangedButRequests, Undisturbed
<1>1. CASE SharedNext
  BY <1>1, AskCases DEF SharedNext, Environment, Handle, SharedStep
<1>2. CASE UNCHANGED vars
  BY <1>2 DEF vars, sharedVars, Stays, SharedStep
<1>3. ASSUME NEW s \in Sessions, NEW d \in Directories, RecognizeFiles(s, d) PROVE Stays
  BY <1>3 DEF RecognizeFiles, Stays
<1>4. ASSUME NEW s \in Sessions, NEW d \in Directories, RecognizeFilesAsync(s, d) PROVE Stays
  BY <1>4 DEF RecognizeFilesAsync, Stays
<1>5. ASSUME NEW s \in Sessions, RecognizeNext(s) PROVE Recognizes
  <2>1. Started
    BY <1>5, SessionAssumption DEF RecognizeNext, SessionsInv, SessionInv
  <2>2. PICK f \in utility[s].iEntryList : RecognizeFile(s, f) \/ RecognizeFileLeaves(s, f)
    BY <1>5 DEF RecognizeNext
  <2>3. f \in Files
    BY <2>2 DEF TypeOK, SessionTypeOK
  <2> QED
    BY <2>1, <2>2, <2>3, RecognizeFileCases
<1>6. ASSUME NEW s \in Sessions, RecognizedAll(s) PROVE Stays
  BY <1>6 DEF RecognizedAll, Stays, sharedVars
<1>7. ASSUME NEW s \in Sessions, Fetch(s) PROVE Stays
  BY <1>7 DEF Fetch, Transfer, DoNotTransfer, Stays
<1>8. ASSUME NEW s \in Sessions, ReadDirectory(s) PROVE Stays
  BY <1>8 DEF ReadDirectory, Stays
<1>9. ASSUME NEW s \in Sessions, RecognizeCurrent(s) PROVE Recognizes
  <2>1. PICK f \in utility[s].iEntryList : RecognizeFile(s, f) \/ RecognizeFileLeaves(s, f)
    BY <1>9 DEF RecognizeCurrent
  <2>2. f \in Files
    BY <2>1 DEF TypeOK, SessionTypeOK
  <2> QED
    BY <1>9, <2>1, <2>2, RecognizeFileCases DEF RecognizeCurrent, Free
<1>10. ASSUME NEW s \in Sessions, Finish(s) PROVE Stays
  BY <1>10 DEF Finish, Stays, sharedVars
<1>11. ASSUME NEW s \in Sessions, FilesRecognized(s) PROVE Stays
  BY <1>11 DEF FilesRecognized, Transfer, DoNotTransfer, Stays
<1>12. ASSUME NEW s \in Sessions, CancelRecognizeFiles(s) PROVE Stays
  BY <1>12 DEF CancelRecognizeFiles, Stays
<1>13. ASSUME NEW s \in Sessions, Disconnect(s) PROVE Stays
  BY <1>13 DEF Disconnect, Stays
<1> QED
  BY <1>1, <1>2, <1>3, <1>4, <1>5, <1>6, <1>7, <1>8, <1>9, <1>10, <1>11, <1>12, <1>13
     DEF Next, SessionNext, UtilityRunL, SharedStep

----------------------------------------------------------------------------
(* The shared variables.                                                     *)

(* The recognizers' type.                                                    *)
Recognizers == [loaded : Nat, iRecognizerUsageCount : Nat, timerOn : BOOLEAN]

(* Using recognizers that are not in use counts one user and stops the timer. *)
LEMMA LoadRecognizersIs ==
    ASSUME NEW r \in Recognizers, r.iRecognizerUsageCount = 0, plugIns \in Nat
    PROVE  /\ LoadRecognizers(r) \in Recognizers
           /\ LoadRecognizers(r).iRecognizerUsageCount = 1
           /\ LoadRecognizers(r).loaded = IF r.timerOn THEN r.loaded ELSE plugIns
           /\ ~LoadRecognizers(r).timerOn
<1> DEFINE ready == IF r.timerOn THEN [r EXCEPT !.timerOn = FALSE] ELSE [r EXCEPT !.loaded = plugIns]
<1>1. /\ ready \in Recognizers /\ ready.iRecognizerUsageCount = 0 /\ ~ready.timerOn
      /\ ready.loaded = IF r.timerOn THEN r.loaded ELSE plugIns
  <2>1. CASE r.timerOn
    BY <2>1 DEF Recognizers
  <2>2. CASE ~r.timerOn
    BY <2>2 DEF Recognizers
  <2> QED
    BY <2>1, <2>2
<1>2. LoadRecognizers(r) = [ready EXCEPT !.iRecognizerUsageCount = @ + 1]
  BY DEF LoadRecognizers
<1> HIDE DEF ready
<1> QED
  BY <1>1, <1>2 DEF Recognizers

(* The last user starts the timer.                                           *)
LEMMA UnloadRecognizersIs ==
    ASSUME NEW r \in Recognizers, r.iRecognizerUsageCount = 1
    PROVE  /\ UnloadRecognizers(r) \in Recognizers
           /\ UnloadRecognizers(r).iRecognizerUsageCount = 0
           /\ UnloadRecognizers(r).loaded = r.loaded
           /\ UnloadRecognizers(r).timerOn
<1> DEFINE left == [r EXCEPT !.iRecognizerUsageCount = @ - 1]
<1>1. left \in Recognizers /\ left.iRecognizerUsageCount = 0 /\ left.loaded = r.loaded
  BY DEF Recognizers
<1>2. UnloadRecognizers(r) = [left EXCEPT !.timerOn = TRUE]
  BY <1>1 DEF UnloadRecognizers
<1> HIDE DEF left
<1> QED
  BY <1>1, <1>2 DEF Recognizers

(* The recognizers once used are loaded, with what is installed now if they  *)
(* were not, and are unloaded later if that is on demand.                    *)
LEMMA UsedIs ==
    ASSUME CacheTypeOK, LoadedWhileUsed
    PROVE  /\ Used \in Recognizers
           /\ Used.iRecognizerUsageCount = 0
           /\ Used.loaded = IF recognizers.loaded = 0 THEN plugIns ELSE recognizers.loaded
           /\ Used.timerOn <=> iLoadRecognizersOnDemand
<1>1. recognizers \in Recognizers /\ recognizers.iRecognizerUsageCount = 0 /\ plugIns \in Nat
  BY DEF CacheTypeOK, LoadedWhileUsed, Recognizers
<1>2. CASE ~iLoadRecognizersOnDemand
  BY <1>1, <1>2 DEF Used, LoadedWhileUsed
<1>3. CASE iLoadRecognizersOnDemand
  <2> DEFINE l == LoadRecognizers(recognizers)
  <2>1. recognizers.timerOn <=> recognizers.loaded # 0
    BY <1>3 DEF LoadedWhileUsed
  <2>2. /\ l \in Recognizers /\ l.iRecognizerUsageCount = 1
        /\ l.loaded = IF recognizers.loaded = 0 THEN plugIns ELSE recognizers.loaded
    BY <1>1, <2>1, LoadRecognizersIs
  <2>3. Used = UnloadRecognizers(l)
    BY <1>3 DEF Used
  <2> HIDE DEF l
  <2> QED
    BY <1>3, <2>2, <2>3, UnloadRecognizersIs
<1> QED
  BY <1>2, <1>3

(* What is added is recognized by recognizers that are loaded, and the cache *)
(* stays within its bound.                                                   *)
LEMMA CacheStepKeeps ==
    ASSUME CacheTypeOK, LoadedWhileUsed, CacheWithin,
           disk' \in [Files -> Nat], NEW f \in Files, CacheSteps(f)
    PROVE  /\ CacheWithin' /\ addsLeft' \in Nat
           /\ \A e \in cache'.entries \ cache.entries :
                /\ e.contents \in {0, e.lastModified}
                /\ e.plugIns = Used.loaded
<1> DEFINE d == DirectoryOf[f]
<1>1. d \in Directories /\ KMaxNumberOfEntries + 1 \in Nat /\ addsLeft \in Nat
  BY CacheAssumption DEF CacheTypeOK
<1>2. /\ Within(Searched(f), KMaxNumberOfEntries + 1, addsLeft)
      /\ Searched(f).entries = cache.entries
  <2>1. CASE Listed(cache, d)
    BY <1>1, <2>1, SearchedWithin, ToFrontLists DEF Searched, CacheWithin, Within, CacheOK
  <2>2. CASE ~Listed(cache, d)
    BY <2>2 DEF Searched, CacheWithin
  <2> QED
    BY <2>1, <2>2
<1>3. CASE cache' = Searched(f) /\ UNCHANGED addsLeft
  BY <1>1, <1>2, <1>3 DEF CacheWithin
<1>4. ASSUME NEW c \in {0, disk'[f]}, cache' = DoAdd(Searched(f), Result(f, c)), UNCHANGED addsLeft
      PROVE  /\ CacheWithin'
             /\ \A e \in cache'.entries \ cache.entries :
                  e.contents \in {0, e.lastModified} /\ e.plugIns = Used.loaded
  <2>1. Result(f, c) \in Entries
    BY UsedIs DEF Result, Entries, Recognizers
  <2>2. Within(cache', KMaxNumberOfEntries + 1, addsLeft)
    BY <1>1, <1>2, <1>4, <2>1, Added
  <2>3. cache'.entries \subseteq cache.entries \cup {Result(f, c)}
    BY <1>1, <1>2, <1>4, <2>1, EntriesAdded
  <2>4. Result(f, c).contents \in {0, Result(f, c).lastModified} /\ Result(f, c).plugIns = Used.loaded
    BY DEF Result
  <2>5. CacheWithin'
    BY <1>4, <2>2 DEF CacheWithin
  <2> QED
    BY <2>3, <2>4, <2>5
<1>5. CASE cache' \in DoAddLeaves(Searched(f), d) /\ addsLeft' = addsLeft + 1
  <2>1. Within(cache', KMaxNumberOfEntries + 1, addsLeft + 1)
    BY <1>1, <1>2, <1>5, NotAdded
  <2>2. cache'.entries \subseteq cache.entries
    BY <1>1, <1>2, <1>5, EntriesNotAdded
  <2> QED
    BY <1>1, <1>5, <2>1, <2>2 DEF CacheWithin
<1> QED
  BY <1>1, <1>3, <1>4, <1>5 DEF CacheSteps

(* An empty cache is within any bound.                                       *)
LEMMA FlushedWithin ==
    ASSUME NEW n \in Nat
    PROVE  Within(Flushed, KMaxNumberOfEntries + 1, n)
<1>1. EmptyDirectories(Flushed) = {} /\ Flushed.iNumberOfEntries = 0 /\ CacheOK(Flushed)
  <2>1. <<>> \in Seq(Directories) /\ Len(<<>>) = 0 /\ DOMAIN <<>> = {}
    BY EmptySeq
  <2> QED
    BY <2>1, FS_EmptySet DEF EmptyDirectories, Listed, CacheOK, Caches, Flushed
<1> QED
  BY <1>1, FS_EmptySet, CacheAssumption DEF Within

(* The files keep their times.                                               *)
LEMMA NextDisk ==
    ASSUME CacheTypeOK, SharedStep
    PROVE  disk' \in [Files -> Nat] /\ clock' \in Nat
<1> USE DEF CacheTypeOK, diskVars
<1>1. CASE Recognizes
  BY <1>1 DEF Recognizes, DiskSteps
<1>2. CASE Stays
  BY <1>2 DEF Stays
<1>3. ASSUME NEW f \in Files, Write(f) \/ Delete(f) PROVE disk' \in [Files -> Nat] /\ clock' \in Nat
  BY <1>3 DEF Write, WriteFile, Delete
<1>4. CASE PlugInsChange \/ EComFails \/ Start \/ DoUnloadRecognizers \/ EComRunL \/ TimerCallBack \/ StopTimer
  BY <1>4 DEF PlugInsChange, EComFails, Start, DoUnloadRecognizers, EComRunL, TimerCallBack, StopTimer
<1> QED
  BY <1>1, <1>2, <1>3, <1>4 DEF SharedStep

(* Nothing but a recognition or a flush changes the cache.                   *)
LEMMA NextCache ==
    ASSUME SharedInv, SharedStep
    PROVE  /\ CacheWithin' /\ addsLeft' \in Nat
           /\ \A e \in cache'.entries \ cache.entries :
                /\ e.contents \in {0, e.lastModified}
                /\ e.plugIns = Used.loaded
<1> USE DEF SharedInv
<1>1. CASE Recognizes
  <2>1. CASE UNCHANGED cacheVars
    BY <2>1 DEF cacheVars, CacheWithin, CacheTypeOK
  <2>2. CASE \E f \in Files : CacheSteps(f)
    BY <2>2, NextDisk, CacheStepKeeps
  <2> QED
    BY <1>1, <2>1, <2>2 DEF Recognizes
<1>2. CASE TimerCallBack
  <2>1. cache' = Flushed /\ addsLeft' = addsLeft /\ addsLeft \in Nat
    BY <1>2 DEF TimerCallBack, UpdatePlugIns, CacheTypeOK
  <2>2. Within(cache', KMaxNumberOfEntries + 1, addsLeft')
    BY <2>1, FlushedWithin
  <2>3. cache'.entries = {}
    BY <2>1 DEF Flushed
  <2> QED
    BY <2>1, <2>2, <2>3 DEF CacheWithin
<1>3. CASE UNCHANGED cacheVars
  BY <1>3 DEF cacheVars, CacheWithin, CacheTypeOK
<1>4. SharedStep => Recognizes \/ TimerCallBack \/ UNCHANGED cacheVars
  BY DEF SharedStep, Stays, Write, Delete, PlugInsChange, EComFails, Start, DoUnloadRecognizers,
         EComRunL, StopTimer
<1> QED
  BY <1>1, <1>2, <1>3, <1>4

(* What is added was recognized as of its time of modification.              *)
LEMMA NextEntriesTrue == ASSUME SharedInv, SharedStep PROVE EntriesAreTrue'
BY NextCache DEF SharedInv, EntriesAreTrue

(* The counting of users.                                                    *)
LEMMA NextLoaded ==
    ASSUME SharedInv, SharedStep
    PROVE  LoadedWhileUsed' /\ recognizers' \in Recognizers /\ plugIns' \in Nat \ {0}
           /\ iLoadRecognizersOnDemand' \in BOOLEAN
<1> USE DEF SharedInv
<1>1. recognizers \in Recognizers /\ plugIns \in Nat \ {0} /\ iLoadRecognizersOnDemand \in BOOLEAN
  BY DEF CacheTypeOK, Recognizers
<1>2. /\ recognizers.iRecognizerUsageCount = 0
      /\ recognizers.timerOn <=> iLoadRecognizersOnDemand /\ recognizers.loaded # 0
      /\ iLoadRecognizersOnDemand \/ recognizers.loaded # 0
  BY DEF LoadedWhileUsed
<1>3. \A e \in cache'.entries : e.plugIns # 0
  <2>1. Used.loaded # 0
    BY <1>1, UsedIs
  <2> QED
    BY <2>1, NextCache DEF LoadedWhileUsed
<1>4. CASE UNCHANGED <<plugIns, recognizerVars>>
  BY <1>1, <1>2, <1>3, <1>4 DEF LoadedWhileUsed, recognizerVars
<1>5. CASE Recognizes /\ recognizers' = Used
  <2>1. Used.loaded # 0
    BY <1>1, UsedIs
  <2> QED
    BY <1>1, <1>3, <1>5, <2>1, UsedIs DEF Recognizes, LoadedWhileUsed
<1>6. CASE DoUnloadRecognizers
  <2>1. recognizers' \in Recognizers /\ recognizers'.iRecognizerUsageCount = 0
        /\ recognizers'.loaded = 0 /\ ~recognizers'.timerOn
    BY <1>1, <1>2, <1>6 DEF DoUnloadRecognizers, Recognizers
  <2> QED
    BY <1>1, <1>2, <1>3, <1>6, <2>1 DEF DoUnloadRecognizers, LoadedWhileUsed
<1>7. CASE PlugInsChange
  BY <1>1, <1>2, <1>3, <1>7 DEF PlugInsChange, LoadedWhileUsed, recognizerVars
<1>8. CASE TimerCallBack
  <2>1. CASE recognizers' = [recognizers EXCEPT !.loaded = plugIns] /\ RecognizersAreLoaded
    <3>1. recognizers' \in Recognizers /\ recognizers'.iRecognizerUsageCount = 0
          /\ recognizers'.loaded = plugIns /\ (recognizers'.timerOn <=> recognizers.timerOn)
      BY <1>1, <1>2, <2>1 DEF Recognizers
    <3>2. recognizers.timerOn <=> iLoadRecognizersOnDemand
      BY <1>2, <2>1 DEF RecognizersAreLoaded
    <3> QED
      BY <1>1, <1>3, <1>8, <3>1, <3>2 DEF TimerCallBack, LoadedWhileUsed
  <2>2. CASE recognizers' = recognizers
    BY <1>1, <1>2, <1>3, <1>8, <2>2 DEF TimerCallBack, LoadedWhileUsed
  <2>3. \/ recognizers' = recognizers
        \/ recognizers' = [recognizers EXCEPT !.loaded = plugIns] /\ RecognizersAreLoaded
    <3>1. [recognizers EXCEPT !.loaded = recognizers.loaded] = recognizers
      BY <1>1 DEF Recognizers
    <3>2. CASE RecognizersAreLoaded
      BY <1>8, <3>2 DEF TimerCallBack, UpdatePlugIns
    <3>3. CASE ~RecognizersAreLoaded
      <4>1. UNCHANGED recognizers \/ recognizers' = [recognizers EXCEPT !.loaded = recognizers.loaded]
        BY <1>8, <3>3, Zenon DEF TimerCallBack, UpdatePlugIns
      <4> QED
        BY <3>1, <4>1
    <3> QED
      BY <3>2, <3>3
  <2> QED
    BY <2>1, <2>2, <2>3
<1>9. SharedStep =>
        \/ UNCHANGED <<plugIns, recognizerVars>>
        \/ Recognizes /\ recognizers' = Used
        \/ DoUnloadRecognizers \/ PlugInsChange \/ TimerCallBack
  <2>1. Recognizes => (Recognizes /\ recognizers' = Used) \/ UNCHANGED <<plugIns, recognizerVars>>
    BY DEF Recognizes, recognizerVars
  <2>2. Stays \/ EComFails \/ Start \/ EComRunL \/ StopTimer => UNCHANGED <<plugIns, recognizerVars>>
    BY DEF Stays, EComFails, Start, EComRunL, StopTimer
  <2>3. (\E f \in Files : Write(f) \/ Delete(f)) => UNCHANGED <<plugIns, recognizerVars>>
    BY DEF Write, Delete
  <2> QED
    BY <2>1, <2>2, <2>3 DEF SharedStep
<1> QED
  BY <1>4, <1>5, <1>6, <1>7, <1>8, <1>9

(* What follows a change of plug-ins.                                        *)
LEMMA NextFollows == ASSUME SharedInv, SharedStep PROVE FollowsPlugIns'
<1> USE DEF SharedInv, FollowsPlugIns, Started
<1>1. plugIns # 0
  BY DEF CacheTypeOK
<1>2. CASE Recognizes
  <2>1. Used.loaded = IF recognizers.loaded = 0 THEN plugIns ELSE recognizers.loaded
    BY UsedIs
  <2>2. notifier' = notifier /\ outdated' = outdated /\ plugIns' = plugIns /\ notifier # "Unstarted"
        /\ recognizers' \in {recognizers, Used}
    BY <1>2 DEF Recognizes, monitorVars
  <2> QED
    BY <2>1, <2>2, NextCache
<1>3. CASE PlugInsChange
  BY <1>1, <1>3 DEF PlugInsChange, cacheVars, recognizerVars
<1>4. CASE TimerCallBack
  <2>1. cache'.entries = {} /\ notifier' = "Armed" /\ plugIns' = plugIns
    BY <1>4 DEF TimerCallBack, UpdatePlugIns, Flushed
  <2>2. ~RecognizersAreLoaded => recognizers.loaded = 0
    BY DEF RecognizersAreLoaded, LoadedWhileUsed
  <2>3. ~outdated' => recognizers'.loaded \in {0, plugIns}
    BY <1>4, <2>2 DEF TimerCallBack, UpdatePlugIns, CacheTypeOK
  <2> QED
    BY <2>1, <2>3
<1>5. CASE DoUnloadRecognizers
  BY <1>5 DEF DoUnloadRecognizers, CacheTypeOK, cacheVars, monitorVars
<1>6. CASE EComFails \/ EComRunL
  BY <1>6 DEF EComFails, EComRunL
<1>7. CASE Start
  BY <1>7 DEF Start, cacheVars, recognizerVars
<1>8. CASE UNCHANGED <<plugIns, recognizers, cache, notifier, outdated>>
  BY <1>8
<1>9. SharedStep =>
        \/ Recognizes \/ PlugInsChange \/ TimerCallBack \/ DoUnloadRecognizers
        \/ EComFails \/ EComRunL \/ Start \/ UNCHANGED <<plugIns, recognizers, cache, notifier, outdated>>
  BY DEF SharedStep, Stays, Write, Delete, StopTimer, recognizerVars, cacheVars, monitorVars
<1> QED
  BY <1>2, <1>3, <1>4, <1>5, <1>6, <1>7, <1>8, <1>9

(* The bounds on requests and disturbances are kept.                         *)
LEMMA NextBounds ==
    ASSUME CacheTypeOK, SharedStep
    PROVE  requests' \in 0 .. MaxRequests /\ disturbances' \in 0 .. MaxDisturbances
<1>1. Counts
  BY DEF SharedStep, Counts, Recognizes, Stays, Write, WriteFile, Delete, PlugInsChange, EComFails, Start,
         DoUnloadRecognizers, EComRunL, TimerCallBack, UpdatePlugIns, StopTimer
<1>2. /\ requests \in 0 .. MaxRequests /\ disturbances \in 0 .. MaxDisturbances
      /\ MaxRequests \in Nat /\ MaxDisturbances \in Nat
  BY CacheAssumption DEF CacheTypeOK
<1> QED
  BY <1>1, <1>2 DEF Counts, Request, Disturb

(* The monitor's variables keep their types.                                 *)
LEMMA NextMonitor ==
    ASSUME CacheTypeOK, SharedStep
    PROVE  /\ notifier' \in {"Unstarted", "Armed", "Changed", "Failed", "Idle", "Dead"}
           /\ iEComHasChanged' \in BOOLEAN /\ iEComTimerOn' \in BOOLEAN /\ outdated' \in BOOLEAN
<1>1. /\ notifier \in {"Unstarted", "Armed", "Changed", "Failed", "Idle", "Dead"}
      /\ iEComHasChanged \in BOOLEAN /\ iEComTimerOn \in BOOLEAN /\ outdated \in BOOLEAN
  BY DEF CacheTypeOK
<1>2. UNCHANGED notifier \/ notifier' \in {"Armed", "Changed", "Failed", "Idle", "Dead"}
  BY DEF SharedStep, Recognizes, Stays, Write, Delete, PlugInsChange, EComFails, Start,
         DoUnloadRecognizers, EComRunL, TimerCallBack, StopTimer, monitorVars
<1>3. /\ UNCHANGED iEComHasChanged \/ iEComHasChanged' \in BOOLEAN
      /\ UNCHANGED iEComTimerOn \/ iEComTimerOn' \in BOOLEAN
  BY DEF SharedStep, Recognizes, Stays, Write, Delete, PlugInsChange, EComFails, Start,
         DoUnloadRecognizers, EComRunL, TimerCallBack, StopTimer, monitorVars
<1>4. UNCHANGED outdated \/ outdated' \in BOOLEAN
  BY DEF SharedStep, Recognizes, Stays, Write, Delete, PlugInsChange, EComFails, Start,
         DoUnloadRecognizers, EComRunL, TimerCallBack, UpdatePlugIns, StopTimer
<1> QED
  BY <1>1, <1>2, <1>3, <1>4

(* The shared variables keep their invariant.                                 *)
LEMMA NextSharedInv == ASSUME SharedInv, SharedStep PROVE SharedInv'
<1>1. CacheTypeOK
  BY DEF SharedInv
<1>2. cache' \in Caches
  BY NextCache DEF CacheWithin, Within, CacheOK
<1>3. CacheTypeOK'
  BY <1>1, <1>2, NextDisk, NextCache, NextLoaded, NextBounds, NextMonitor DEF CacheTypeOK, Caches, Recognizers
<1> QED
  BY <1>3, NextCache, NextLoaded, NextFollows, NextEntriesTrue DEF SharedInv

(* The server as constructed.                                                *)
LEMMA InitSharedInv == ASSUME CacheInit PROVE SharedInv
<1>1. cache = Flushed /\ addsLeft = 0
  BY DEF CacheInit
<1>2. CacheWithin /\ cache.entries = {} /\ cache \in Caches
  BY <1>1, FlushedWithin DEF CacheWithin, Within, CacheOK, Flushed
<1>3. recognizers \in Recognizers /\ recognizers.iRecognizerUsageCount = 0 /\ ~recognizers.timerOn
      /\ recognizers.loaded = (IF iLoadRecognizersOnDemand THEN 0 ELSE 1)
  BY DEF CacheInit, Recognizers
<1>4. disk \in [Files -> Nat] /\ clock \in Nat /\ requests \in 0 .. MaxRequests
      /\ disturbances \in 0 .. MaxDisturbances /\ plugIns = 1
  BY CacheAssumption DEF CacheInit
<1>5. notifier = "Unstarted" /\ ~iEComHasChanged /\ ~iEComTimerOn /\ ~outdated
      /\ iLoadRecognizersOnDemand \in BOOLEAN /\ iEComHasChanged \in BOOLEAN
      /\ iEComTimerOn \in BOOLEAN /\ outdated \in BOOLEAN
  BY DEF CacheInit
<1>6. CacheTypeOK
  BY <1>1, <1>2, <1>3, <1>4, <1>5 DEF CacheTypeOK, Caches, Recognizers
<1>7. LoadedWhileUsed
  BY <1>2, <1>3 DEF LoadedWhileUsed
<1>8. FollowsPlugIns /\ EntriesAreTrue
  BY <1>2, <1>3, <1>4 DEF FollowsPlugIns, EntriesAreTrue
<1> QED
  BY <1>2, <1>6, <1>7, <1>8 DEF SharedInv

----------------------------------------------------------------------------
(* The sessions.                                                             *)

(* The steps of the sessions, one by one.                                    *)
LEMMA SessionCases ==
    ASSUME [Next]_vars
    PROVE  \/ UNCHANGED sessionVars
           \/ \E s \in Sessions, d \in Directories : RecognizeFiles(s, d) \/ RecognizeFilesAsync(s, d)
           \/ \E s \in Sessions :
                \/ RecognizeNext(s) \/ RecognizedAll(s) \/ Fetch(s)
                \/ ReadDirectory(s) \/ RecognizeCurrent(s) \/ Finish(s)
                \/ FilesRecognized(s) \/ CancelRecognizeFiles(s) \/ Disconnect(s)
BY DEF Next, SharedNext, SessionNext, UtilityRunL, vars

(* Results that say what the file held, and no result.                       *)
TrueResults ==
    {r \in Results : \A x \in r.iEntries : x.contents \in {0, x.lastModified}} \cup {Null}

(* They are what ResultsAreTrue speaks of.                                   *)
LEMMA TrueResultsIs ==
    (iRecognitionResult \in [Sessions -> Results \cup {Null}] /\ ResultsAreTrue)
        <=> iRecognitionResult \in [Sessions -> TrueResults]
BY SessionAssumption DEF ResultsAreTrue, TrueResults

(* A file of a directory in hand is recognized as what it holds.             *)
LEMMA FileIsFound ==
    ASSUME SharedInv, NEW s \in Sessions, NEW f \in Files, RecognizeFile(s, f),
           iRecognitionResult \in [Sessions -> TrueResults], iRecognitionResult[s] # Null
    PROVE  /\ iRecognitionResult' \in [Sessions -> TrueResults]
           /\ iRecognitionResult'[s] # Null
           /\ \A t \in Sessions \ {s} : iRecognitionResult'[t] = iRecognitionResult[t]
<1>1. UNCHANGED disk /\ disk \in [Files -> Nat]
  BY DEF RecognizeFile, Open, diskVars, SharedInv, CacheTypeOK
<1>2. CASE UNCHANGED iRecognitionResult
  BY <1>2
<1>3. ASSUME NEW x \in Entries, x.file = f, x.contents \in {0, disk[f]}, Found(s, x)
      PROVE  /\ iRecognitionResult' \in [Sessions -> TrueResults]
             /\ iRecognitionResult'[s] # Null
             /\ \A t \in Sessions \ {s} : iRecognitionResult'[t] = iRecognitionResult[t]
  <2> DEFINE r == iRecognitionResult[s]
             y == [file |-> f, lastModified |-> disk[f], contents |-> x.contents]
             q == [iPath |-> r.iPath, iEntries |-> r.iEntries \cup {y}]
  <2>1. y \in Findings /\ y.contents \in {0, y.lastModified}
    BY <1>1, <1>3 DEF Findings, Entries
  <2>2. r \in Results /\ \A z \in r.iEntries : z.contents \in {0, z.lastModified}
    BY DEF TrueResults
  <2>3. q \in Results /\ q \in TrueResults /\ q # Null
    <3>1. q \in Results
      BY <2>1, <2>2 DEF Results
    <3> QED
      BY <2>1, <2>2, <3>1, SessionAssumption DEF TrueResults
  <2>4. iRecognitionResult' = [iRecognitionResult EXCEPT ![s] = q]
    <3>1. iRecognitionResult' = [iRecognitionResult EXCEPT ![s].iEntries = @ \cup {y}]
      BY <1>1, <1>3 DEF Found
    <3>2. [r EXCEPT !.iEntries = @ \cup {y}] = q
      <4> HIDE DEF r, y
      <4> QED
        BY <2>2 DEF Results
    <3>3. iRecognitionResult' = [iRecognitionResult EXCEPT ![s] = [r EXCEPT !.iEntries = @ \cup {y}]]
      BY <3>1
    <3> HIDE DEF q, y
    <3> QED
      BY <3>2, <3>3
  <2> HIDE DEF q
  <2> QED
    BY <2>3, <2>4
<1>4. \A x \in Hits(f) : x \in Entries /\ x.file = f /\ x.contents \in {0, disk[f]}
  BY DEF SharedInv, CacheTypeOK, EntriesAreTrue, Hits
<1>5. LET e == Result(f, disk[f]) IN e \in Entries /\ e.file = f /\ e.contents \in {0, disk[f]}
  BY <1>1, UsedIs DEF SharedInv, Result, Entries, Recognizers
<1>6. UNCHANGED iRecognitionResult \/ \E x \in Hits(f) \cup {Result(f, disk[f])} : Found(s, x)
  BY DEF RecognizeFile
<1> QED
  BY <1>2, <1>3, <1>4, <1>5, <1>6

(* A session in hand has a result to add to.                                 *)
LEMMA HasResult ==
    ASSUME NEW s \in Sessions, SessionTypeOK, SessionsInv, WaitersAreAnswered
    PROVE  /\ serving = s => iRecognitionResult[s] # Null
           /\ utility[s].active => iRecognitionResult[s] # Null
<1>1. SessionInv(s)
  BY DEF SessionsInv
<1>2. ASSUME utility[s].active PROVE iRecognitionResult[s] # Null
  <2>1. s \in iAsyncRecognitionActive /\ utility[s].iStep # 2
    BY <1>1, <1>2, Zenon DEF SessionInv
  <2>2. utility[s].iStep <= 1
    BY <2>1 DEF SessionTypeOK
  <2>3. client[s] = "Waiting" /\ answer[s] = "None"
    BY <2>1, <2>2 DEF WaitersAreAnswered
  <2> QED
    BY <1>1, <2>1, <2>3 DEF SessionInv
<1> QED
  BY <1>1, <1>2 DEF SessionInv

(* Results stay true.                                                        *)
LEMMA NextResults ==
    ASSUME RecInv, [Next]_vars
    PROVE  iRecognitionResult' \in [Sessions -> TrueResults]
<1> USE DEF RecInv
<1>1. iRecognitionResult \in [Sessions -> TrueResults]
  BY TrueResultsIs DEF TypeOK, SessionTypeOK
<1>2. Null \in TrueResults /\ \A d \in Directories : NoResultYet(d) \in TrueResults
  BY DEF TrueResults, NoResultYet, Results
<1>3. ASSUME NEW s \in Sessions, NEW d \in Directories, RecognizeFiles(s, d)
      PROVE  iRecognitionResult' \in [Sessions -> TrueResults]
  BY <1>1, <1>2, <1>3 DEF RecognizeFiles
<1>4. ASSUME NEW s \in Sessions, NEW d \in Directories, RecognizeFilesAsync(s, d)
      PROVE  iRecognitionResult' \in [Sessions -> TrueResults]
  BY <1>1, <1>2, <1>4 DEF RecognizeFilesAsync
<1>5. ASSUME NEW s \in Sessions, RecognizeNext(s) \/ RecognizeCurrent(s)
      PROVE  iRecognitionResult' \in [Sessions -> TrueResults]
  <2>1. PICK f \in utility[s].iEntryList : RecognizeFile(s, f) \/ RecognizeFileLeaves(s, f)
    BY <1>5 DEF RecognizeNext, RecognizeCurrent
  <2>2. f \in Files
    BY <2>1 DEF TypeOK, SessionTypeOK
  <2>3. iRecognitionResult[s] # Null
    BY <1>5, HasResult DEF RecognizeNext, RecognizeCurrent, TypeOK
  <2> QED
    BY <1>1, <2>1, <2>2, <2>3, FileIsFound DEF RecognizeFileLeaves
<1>6. ASSUME NEW s \in Sessions, Fetch(s) \/ FilesRecognized(s)
      PROVE  iRecognitionResult' \in [Sessions -> TrueResults]
  BY <1>1, <1>2, <1>6 DEF Fetch, FilesRecognized, Transfer, DoNotTransfer
<1>7. ASSUME NEW s \in Sessions, Disconnect(s)
      PROVE  iRecognitionResult' \in [Sessions -> TrueResults]
  BY <1>1, <1>2, <1>7 DEF Disconnect
<1>8. ASSUME NEW s \in Sessions,
             RecognizedAll(s) \/ ReadDirectory(s) \/ Finish(s) \/ CancelRecognizeFiles(s)
      PROVE  iRecognitionResult' \in [Sessions -> TrueResults]
  BY <1>1, <1>8 DEF RecognizedAll, ReadDirectory, Finish, CancelRecognizeFiles
<1>9. CASE UNCHANGED sessionVars
  BY <1>1, <1>9 DEF sessionVars
<1> QED
  BY <1>3, <1>4, <1>5, <1>6, <1>7, <1>8, <1>9, SessionCases

(* What else a session keeps.                                                *)
LEMMA NextSessionTypes ==
    ASSUME RecInv, [Next]_vars
    PROVE  /\ client' \in [Sessions -> {"Idle", "Calling", "Fetching", "Waiting", "Hung"}]
           /\ answer' \in [Sessions -> {"None", "Done", "Error"}]
           /\ iAsyncRecognitionActive' \subseteq Sessions
           /\ serving' \in Sessions \cup {Null}
           /\ abandoned' \subseteq Sessions /\ unfetched' \subseteq Sessions
<1> USE DEF RecInv, TypeOK, SessionTypeOK
<1>1. ASSUME NEW s \in Sessions, NEW d \in Directories, RecognizeFiles(s, d) \/ RecognizeFilesAsync(s, d)
      PROVE  /\ client' \in [Sessions -> {"Idle", "Calling", "Fetching", "Waiting", "Hung"}]
             /\ answer' \in [Sessions -> {"None", "Done", "Error"}]
             /\ iAsyncRecognitionActive' \subseteq Sessions
             /\ serving' \in Sessions \cup {Null}
             /\ abandoned' \subseteq Sessions /\ unfetched' \subseteq Sessions
  BY <1>1 DEF RecognizeFiles, RecognizeFilesAsync
<1>2. ASSUME NEW s \in Sessions,
             \/ RecognizeNext(s) \/ RecognizedAll(s) \/ Fetch(s)
             \/ ReadDirectory(s) \/ RecognizeCurrent(s) \/ Finish(s)
             \/ FilesRecognized(s) \/ CancelRecognizeFiles(s) \/ Disconnect(s)
      PROVE  /\ client' \in [Sessions -> {"Idle", "Calling", "Fetching", "Waiting", "Hung"}]
             /\ answer' \in [Sessions -> {"None", "Done", "Error"}]
             /\ iAsyncRecognitionActive' \subseteq Sessions
             /\ serving' \in Sessions \cup {Null}
             /\ abandoned' \subseteq Sessions /\ unfetched' \subseteq Sessions
  BY <1>2 DEF RecognizeNext, RecognizedAll, Fetch, ReadDirectory, RecognizeCurrent, Finish,
              FilesRecognized, CancelRecognizeFiles, Disconnect, Transfer, DoNotTransfer, Abandon
<1> QED
  BY <1>1, <1>2, SessionCases DEF sessionVars

(* The utilities keep their type.                                            *)
Utilities == [iStep : 0 .. 2, active : BOOLEAN, iEntryList : SUBSET Files]

(* Each step of a session leaves its utility in one of its states.           *)
LEMMA NextUtilities ==
    ASSUME RecInv, [Next]_vars
    PROVE  utility' \in [Sessions -> Utilities]
<1>1. utility \in [Sessions -> Utilities]
  BY DEF RecInv, TypeOK, SessionTypeOK, Utilities
<1>2. \A d : FilesOf(d) \subseteq Files
  BY DEF FilesOf
<1>3. ASSUME NEW s \in Sessions, NEW u \in Utilities, utility' = [utility EXCEPT ![s] = u]
      PROVE  utility' \in [Sessions -> Utilities]
  BY <1>1, <1>3
<1>4. ASSUME NEW s \in Sessions, NEW fs \in SUBSET Files
      PROVE  [utility EXCEPT ![s].iEntryList = fs] \in [Sessions -> Utilities]
  <2> DEFINE u == [utility[s] EXCEPT !.iEntryList = fs]
  <2>1. u \in Utilities
    BY <1>1 DEF Utilities
  <2>2. [utility EXCEPT ![s].iEntryList = fs] = [utility EXCEPT ![s] = u]
    OBVIOUS
  <2> HIDE DEF u
  <2> QED
    BY <1>1, <2>1, <2>2
<1>5. ASSUME NEW s \in Sessions
      PROVE  /\ [utility EXCEPT ![s].active = FALSE] \in [Sessions -> Utilities]
             /\ [utility EXCEPT ![s].active = FALSE, ![s].iStep = 2] \in [Sessions -> Utilities]
             /\ [utility EXCEPT ![s].active = FALSE, ![s].iStep = 0] \in [Sessions -> Utilities]
  <2> DEFINE u == [utility[s] EXCEPT !.active = FALSE]
             v == [u EXCEPT !.iStep = 2]
             w == [u EXCEPT !.iStep = 0]
  <2>1. u \in Utilities
    BY <1>1 DEF Utilities
  <2>2. [utility EXCEPT ![s].active = FALSE] = [utility EXCEPT ![s] = u]
    OBVIOUS
  <2> HIDE DEF u
  <2>3. v \in Utilities /\ w \in Utilities
    BY <2>1 DEF Utilities
  <2>4. /\ [utility EXCEPT ![s].active = FALSE, ![s].iStep = 2] = [utility EXCEPT ![s] = v]
        /\ [utility EXCEPT ![s].active = FALSE, ![s].iStep = 0] = [utility EXCEPT ![s] = w]
    BY <1>1 DEF u
  <2> HIDE DEF v, w
  <2> QED
    BY <1>1, <2>1, <2>2, <2>3, <2>4
<1>6. ASSUME NEW s \in Sessions, NEW d \in Directories, RecognizeFiles(s, d)
      PROVE  utility' \in [Sessions -> Utilities]
  BY <1>1, <1>2, <1>4, <1>6 DEF RecognizeFiles
<1>7. ASSUME NEW s \in Sessions, NEW d \in Directories, RecognizeFilesAsync(s, d)
      PROVE  utility' \in [Sessions -> Utilities]
  <2>1. [iStep |-> 0, active |-> TRUE, iEntryList |-> {}] \in Utilities
    BY DEF Utilities
  <2>2. UNCHANGED utility
        \/ utility' = [utility EXCEPT ![s] = [iStep |-> 0, active |-> TRUE, iEntryList |-> {}]]
    BY <1>7 DEF RecognizeFilesAsync
  <2> QED
    BY <1>1, <1>3, <2>1, <2>2
<1>8. ASSUME NEW s \in Sessions, RecognizeNext(s) \/ RecognizeCurrent(s)
      PROVE  utility' \in [Sessions -> Utilities]
  <2>1. \A f : utility[s].iEntryList \ {f} \subseteq Files
    BY <1>1 DEF Utilities
  <2>2. PICK f \in utility[s].iEntryList :
          \/ utility' = [utility EXCEPT ![s].iEntryList = utility[s].iEntryList \ {f}]
          \/ utility' = [utility EXCEPT ![s].active = FALSE]
    BY <1>8, Zenon DEF RecognizeNext, RecognizeCurrent, Abandon
  <2> QED
    <3>1. utility[s].iEntryList \ {f} \in SUBSET Files
      BY <2>1
    <3>2. CASE utility' = [utility EXCEPT ![s].iEntryList = utility[s].iEntryList \ {f}]
      <4> DEFINE fs == utility[s].iEntryList \ {f}
      <4> HIDE DEF fs
      <4>1. fs \in SUBSET Files /\ utility' = [utility EXCEPT ![s].iEntryList = fs]
        BY <3>1, <3>2 DEF fs
      <4> QED
        BY <1>4, <4>1
    <3>3. CASE utility' = [utility EXCEPT ![s].active = FALSE]
      BY <1>5, <3>3, Zenon
    <3> QED
      BY <2>2, <3>2, <3>3
<1>9. ASSUME NEW s \in Sessions, ReadDirectory(s) PROVE utility' \in [Sessions -> Utilities]
  <2> DEFINE u == [iStep |-> 1, active |-> TRUE, iEntryList |-> FilesOf(iRecognitionResult[s].iPath)]
  <2>1. u \in Utilities
    BY <1>2 DEF Utilities
  <2>2. utility' = [utility EXCEPT ![s] = u] \/ utility' = [utility EXCEPT ![s].active = FALSE]
    BY <1>9 DEF ReadDirectory, Abandon
  <2> HIDE DEF u
  <2> QED
    <3>1. CASE utility' = [utility EXCEPT ![s].active = FALSE]
      BY <1>5, <3>1, Zenon
    <3> QED
      BY <1>3, <2>1, <2>2, <3>1
<1>10. ASSUME NEW s \in Sessions, Finish(s) \/ CancelRecognizeFiles(s)
       PROVE  utility' \in [Sessions -> Utilities]
  <2>1. CASE Finish(s)
    <3>1. \/ utility' = [utility EXCEPT ![s].active = FALSE, ![s].iStep = 2]
          \/ utility' = [utility EXCEPT ![s].active = FALSE]
      BY <2>1 DEF Finish, Abandon
    <3>2. CASE utility' = [utility EXCEPT ![s].active = FALSE]
      BY <1>5, <3>2, Zenon
    <3>3. CASE utility' = [utility EXCEPT ![s].active = FALSE, ![s].iStep = 2]
      BY <1>1, <1>5, <3>3
    <3> QED
      BY <3>1, <3>2, <3>3
  <2>2. CASE CancelRecognizeFiles(s)
    BY <1>1, <1>5, <2>2 DEF CancelRecognizeFiles, CancelRecognitionRequest
  <2> QED
    BY <1>10, <2>1, <2>2
<1>11. ASSUME NEW s \in Sessions, Disconnect(s) PROVE utility' \in [Sessions -> Utilities]
  <2>1. [iStep |-> 0, active |-> FALSE, iEntryList |-> {}] \in Utilities
    BY DEF Utilities
  <2>2. utility' = [utility EXCEPT ![s] = [iStep |-> 0, active |-> FALSE, iEntryList |-> {}]]
    BY <1>11 DEF Disconnect
  <2> QED
    BY <1>3, <2>1, <2>2
<1>12. ASSUME NEW s \in Sessions, RecognizedAll(s) \/ Fetch(s) \/ FilesRecognized(s)
       PROVE  utility' \in [Sessions -> Utilities]
  BY <1>1, <1>12 DEF RecognizedAll, Fetch, FilesRecognized
<1>13. CASE UNCHANGED sessionVars
  BY <1>1, <1>13 DEF sessionVars
<1> QED
  BY <1>6, <1>7, <1>8, <1>9, <1>10, <1>11, <1>12, <1>13, SessionCases

(* The conjunct of WaitersAreAnswered for one session.                       *)
WaiterInv(s) ==
    /\ client[s] # "Hung"
    /\ client[s] = "Waiting" /\ answer[s] = "None" <=>
         s \in iAsyncRecognitionActive /\ utility[s].iStep <= 1
    /\ client[s] = "Waiting" /\ answer[s] = "None" => utility[s].active \/ s \in abandoned
    /\ s \in iAsyncRecognitionActive => client[s] = "Waiting" \/ s \in unfetched

(* All sessions' conjuncts make it.                                          *)
LEMMA WaitersAre == WaitersAreAnswered <=> \A s \in Sessions : WaiterInv(s)
BY DEF WaitersAreAnswered, WaiterInv

(* The monitor once started stays so.                                        *)
LEMMA StartedStays == ASSUME SharedStep, Started PROVE Started'
BY DEF SharedStep, Started, Recognizes, Stays, Write, Delete, PlugInsChange, EComFails, Start,
       DoUnloadRecognizers, EComRunL, TimerCallBack, StopTimer, monitorVars

(* What a session's invariant speaks of is as it was.                        *)
Same(t) ==
    /\ client'[t] = client[t] /\ answer'[t] = answer[t]
    /\ t \in iAsyncRecognitionActive' <=> t \in iAsyncRecognitionActive
    /\ iRecognitionResult'[t] # Null <=> iRecognitionResult[t] # Null
    /\ utility'[t].iStep = utility[t].iStep /\ (utility'[t].active <=> utility[t].active)
    /\ serving' = t <=> serving = t
    /\ t \in abandoned' <=> t \in abandoned
    /\ t \in unfetched' <=> t \in unfetched

(* Then the invariant holds as it did.                                       *)
LEMMA SameKeeps ==
    ASSUME NEW t \in Sessions, SharedStep, Same(t), SessionInv(t), WaiterInv(t)
    PROVE  SessionInv(t)' /\ WaiterInv(t)'
<1>1. Started => Started'
  BY StartedStays
<1>2. SessionInv(t)'
  BY <1>1 DEF Same, SessionInv
<1>3. WaiterInv(t)'
  BY DEF Same, WaiterInv
<1> QED
  BY <1>2, <1>3

(* A step of one session leaves the others alone.                            *)
LEMMA OthersSame ==
    ASSUME RecInv, NEW s \in Sessions, NEW t \in Sessions, t # s,
           \/ \E d \in Directories : RecognizeFiles(s, d) \/ RecognizeFilesAsync(s, d)
           \/ RecognizeNext(s) \/ RecognizedAll(s) \/ Fetch(s)
           \/ ReadDirectory(s) \/ RecognizeCurrent(s) \/ Finish(s)
           \/ FilesRecognized(s) \/ CancelRecognizeFiles(s) \/ Disconnect(s)
    PROVE  Same(t)
<1> USE DEF RecInv, TypeOK, SessionTypeOK
<1>1. client'[t] = client[t] /\ answer'[t] = answer[t]
  BY DEF RecognizeFiles, RecognizeFilesAsync, RecognizeNext, RecognizedAll, Fetch, ReadDirectory,
         RecognizeCurrent, Finish, FilesRecognized, CancelRecognizeFiles, Disconnect
<1>2. /\ t \in iAsyncRecognitionActive' <=> t \in iAsyncRecognitionActive
      /\ t \in abandoned' <=> t \in abandoned
      /\ t \in unfetched' <=> t \in unfetched
  BY DEF RecognizeFiles, RecognizeFilesAsync, RecognizeNext, RecognizedAll, Fetch, ReadDirectory,
         RecognizeCurrent, Finish, FilesRecognized, CancelRecognizeFiles, Disconnect,
         Transfer, DoNotTransfer, Abandon
<1>3. iRecognitionResult'[t] = iRecognitionResult[t]
  BY DEF RecognizeFiles, RecognizeFilesAsync, RecognizeNext, RecognizedAll, Fetch, ReadDirectory,
         RecognizeCurrent, Finish, FilesRecognized, CancelRecognizeFiles, Disconnect,
         Transfer, DoNotTransfer, RecognizeFile, RecognizeFileLeaves, Found
<1>4. utility'[t] = utility[t]
  BY DEF RecognizeFiles, RecognizeFilesAsync, RecognizeNext, RecognizedAll, Fetch, ReadDirectory,
         RecognizeCurrent, Finish, FilesRecognized, CancelRecognizeFiles, Disconnect,
         Abandon, CancelRecognitionRequest
<1>5. serving' = t <=> serving = t
  BY SessionAssumption
     DEF RecognizeFiles, RecognizeFilesAsync, RecognizeNext, RecognizedAll, Fetch, ReadDirectory,
         RecognizeCurrent, Finish, FilesRecognized, CancelRecognizeFiles, Disconnect, Free
<1> QED
  BY <1>1, <1>2, <1>3, <1>4, <1>5 DEF Same

(* What a session's invariant says, with its types.                          *)
LEMMA SessionHas ==
    ASSUME RecInv, NEW s \in Sessions
    PROVE  /\ SessionInv(s) /\ WaiterInv(s)
           /\ client \in [Sessions -> {"Idle", "Calling", "Fetching", "Waiting", "Hung"}]
           /\ answer \in [Sessions -> {"None", "Done", "Error"}]
           /\ iRecognitionResult \in [Sessions -> Results \cup {Null}]
           /\ utility \in [Sessions -> Utilities]
           /\ utility[s].iStep <= 1 <=> utility[s].iStep # 2
           /\ s # Null
<1>1. utility \in [Sessions -> Utilities]
  BY DEF RecInv, TypeOK, SessionTypeOK, Utilities
<1>2. utility[s].iStep \in 0 .. 2
  BY <1>1 DEF Utilities
<1> QED
  BY <1>1, <1>2, WaitersAre, SessionAssumption DEF RecInv, TypeOK, SessionTypeOK, SessionsInv

(* A session refuses, or recognizes at once.                                 *)
LEMMA OwnRecognizeFiles ==
    ASSUME RecInv, SharedStep, NEW s \in Sessions, NEW d \in Directories, RecognizeFiles(s, d)
    PROVE  SessionInv(s)' /\ WaiterInv(s)'
<1>1. Started'
  BY StartedStays DEF RecognizeFiles, Free
<1>2. NoResultYet(d) # Null
  BY SessionAssumption DEF NoResultYet, Results
<1>3. client[s] = "Idle" /\ answer'[s] = answer[s] /\ serving = Null
      /\ UNCHANGED <<answer, iAsyncRecognitionActive, abandoned, unfetched>>
  BY DEF RecognizeFiles, Free
<1>4. utility'[s].iStep = utility[s].iStep /\ (utility'[s].active <=> utility[s].active)
  <2>1. UNCHANGED utility \/ utility' = [utility EXCEPT ![s].iEntryList = FilesOf(d)]
    BY DEF RecognizeFiles
  <2> QED
    BY <2>1, SessionHas DEF Utilities
<1>5. \/ client'[s] = "Idle" /\ serving' = Null
      \/ /\ client'[s] = "Calling" /\ serving' = s /\ s \notin iAsyncRecognitionActive
         /\ iRecognitionResult'[s] # Null
  BY <1>2, <1>3, SessionHas DEF RecognizeFiles
<1>6. SessionInv(s)'
  BY <1>1, <1>3, <1>4, <1>5, SessionHas DEF SessionInv
<1>7. WaiterInv(s)'
  BY <1>3, <1>4, <1>5, SessionHas DEF WaiterInv
<1> QED
  BY <1>6, <1>7

(* A request waits only when the utility has begun.                          *)
LEMMA OwnRecognizeFilesAsync ==
    ASSUME RecInv, SharedStep, NEW s \in Sessions, NEW d \in Directories, RecognizeFilesAsync(s, d)
    PROVE  SessionInv(s)' /\ WaiterInv(s)'
<1>1. client[s] = "Idle" /\ client'[s] = "Waiting" /\ answer[s] = "None"
      /\ serving = Null /\ serving' = Null /\ unfetched' = unfetched
  BY SessionHas DEF RecognizeFilesAsync, Free, SessionInv
<1>2. CASE /\ answer'[s] = "Error" /\ UNCHANGED <<iAsyncRecognitionActive, utility, abandoned>>
  <2>1. SessionInv(s)'
    BY <1>1, <1>2, SessionHas DEF SessionInv
  <2> QED
    BY <1>1, <1>2, <2>1, SessionHas DEF WaiterInv
<1>3. CASE /\ s \in iAsyncRecognitionActive' /\ answer' = answer
           /\ iRecognitionResult' = [iRecognitionResult EXCEPT ![s] = NoResultYet(d)]
           /\ utility' = [utility EXCEPT ![s] = [iStep |-> 0, active |-> TRUE, iEntryList |-> {}]]
  <2>1. iRecognitionResult'[s] # Null
    BY <1>3, SessionHas, SessionAssumption DEF NoResultYet, Results
  <2>2. utility'[s].iStep = 0 /\ utility'[s].active
    BY <1>3, SessionHas
  <2>3. SessionInv(s)'
    BY <1>1, <1>3, <2>1, <2>2, SessionHas DEF SessionInv
  <2> QED
    BY <1>1, <1>3, <2>2, <2>3 DEF WaiterInv
<1>4. s \in iAsyncRecognitionActive \cup {s}
  OBVIOUS
<1> QED
  BY <1>2, <1>3, <1>4, SessionHas DEF RecognizeFilesAsync

(* Files recognized at once.                                                 *)
LEMMA OwnRecognizeNext ==
    ASSUME RecInv, SharedStep, [Next]_vars, NEW s \in Sessions, RecognizeNext(s) \/ RecognizedAll(s)
    PROVE  SessionInv(s)' /\ WaiterInv(s)'
<1>1. /\ serving = s /\ client[s] = "Calling" /\ answer[s] = "None" /\ Started'
      /\ s \notin iAsyncRecognitionActive /\ iRecognitionResult[s] # Null /\ ~utility[s].active
  BY SessionHas, StartedStays DEF RecognizeNext, RecognizedAll, SessionInv
<1>2. UNCHANGED <<answer, iAsyncRecognitionActive, abandoned, unfetched>>
  BY DEF RecognizeNext, RecognizedAll
<1>3. utility'[s].iStep = utility[s].iStep /\ (utility'[s].active <=> utility[s].active)
  <2>1. UNCHANGED utility
        \/ \E f \in utility[s].iEntryList : utility' = [utility EXCEPT ![s].iEntryList = @ \ {f}]
    BY DEF RecognizeNext, RecognizedAll
  <2> QED
    BY <2>1, SessionHas DEF Utilities
<1>4. \/ client'[s] \in {"Idle", "Fetching"} /\ serving' = Null
      \/ RecognizeNext(s) /\ client'[s] = "Calling" /\ serving' = s /\ iRecognitionResult'[s] # Null
  <2>1. CASE RecognizedAll(s)
    BY <2>1, SessionHas DEF RecognizedAll
  <2>2. CASE RecognizeNext(s)
    <3>1. PICK f \in utility[s].iEntryList :
            \/ RecognizeFile(s, f) /\ UNCHANGED <<client, serving>>
            \/ serving' = Null /\ client' = [client EXCEPT ![s] = "Idle"]
      BY <2>2 DEF RecognizeNext
    <3>2. f \in Files
      BY DEF RecInv, TypeOK, SessionTypeOK
    <3>3. iRecognitionResult \in [Sessions -> TrueResults]
      BY TrueResultsIs DEF RecInv, TypeOK, SessionTypeOK
    <3>4. RecognizeFile(s, f) => iRecognitionResult'[s] # Null
      BY <1>1, <3>2, <3>3, FileIsFound DEF RecInv
    <3> QED
      BY <1>1, <2>2, <3>1, <3>4, SessionHas
  <2> QED
    BY <2>1, <2>2
<1>5. SessionInv(s)'
  BY <1>1, <1>2, <1>3, <1>4, SessionHas DEF SessionInv
<1>6. WaiterInv(s)'
  BY <1>1, <1>2, <1>4 DEF WaiterInv
<1> QED
  BY <1>5, <1>6

(* The utility at work for a client that waits.                              *)
LEMMA OwnUtility ==
    ASSUME RecInv, SharedStep, NEW s \in Sessions, ReadDirectory(s) \/ RecognizeCurrent(s)
    PROVE  SessionInv(s)' /\ WaiterInv(s)'
<1>1. /\ utility[s].active /\ serving = Null
      /\ UNCHANGED <<client, answer, iAsyncRecognitionActive, serving, unfetched>>
  BY DEF ReadDirectory, RecognizeCurrent, Free
<1>2. /\ s \in iAsyncRecognitionActive /\ utility[s].iStep # 2 /\ client[s] = "Waiting" /\ answer[s] = "None"
      /\ iRecognitionResult[s] # Null
  <2>1. s \in iAsyncRecognitionActive /\ utility[s].iStep # 2
    BY <1>1, SessionHas, Zenon DEF SessionInv
  <2>2. client[s] = "Waiting" /\ answer[s] = "None"
    BY <2>1, SessionHas DEF WaiterInv
  <2> QED
    BY <2>1, <2>2, SessionHas DEF SessionInv
<1>3. iRecognitionResult'[s] # Null
  <2>1. CASE ReadDirectory(s)
    BY <1>2, <2>1 DEF ReadDirectory
  <2>2. CASE RecognizeCurrent(s)
    <3>1. PICK f \in utility[s].iEntryList : RecognizeFile(s, f) \/ UNCHANGED iRecognitionResult
      BY <2>2 DEF RecognizeCurrent, RecognizeFileLeaves
    <3>2. f \in Files
      BY DEF RecInv, TypeOK, SessionTypeOK
    <3>3. iRecognitionResult \in [Sessions -> TrueResults]
      BY TrueResultsIs DEF RecInv, TypeOK, SessionTypeOK
    <3> QED
      BY <1>2, <3>1, <3>2, <3>3, FileIsFound DEF RecInv
  <2> QED
    BY <2>1, <2>2
<1>4. utility'[s].iStep # 2 /\ utility'[s].iStep <= 1 /\ (utility'[s].active \/ s \in abandoned')
  <2>1. \/ utility'[s].iStep = 1 /\ utility'[s].active
        \/ utility'[s].iStep = utility[s].iStep /\ utility'[s].active
        \/ utility'[s].iStep = utility[s].iStep /\ s \in abandoned'
    BY <1>1, SessionHas DEF ReadDirectory, RecognizeCurrent, Abandon, Utilities
  <2> QED
    BY <1>2, <2>1, SessionHas
<1>5. SessionInv(s)'
  BY <1>1, <1>2, <1>3, <1>4, SessionHas DEF SessionInv
<1>6. WaiterInv(s)'
  BY <1>1, <1>2, <1>4, SessionHas DEF WaiterInv
<1> QED
  BY <1>5, <1>6

(* It completes the message once, or abandons it.                            *)
LEMMA OwnFinish ==
    ASSUME RecInv, SharedStep, NEW s \in Sessions, Finish(s)
    PROVE  SessionInv(s)' /\ WaiterInv(s)'
<1>1. utility[s].active /\ serving = Null
      /\ UNCHANGED <<client, iAsyncRecognitionActive, iRecognitionResult, serving, unfetched>>
  BY DEF Finish, Free
<1>2. /\ s \in iAsyncRecognitionActive /\ client[s] = "Waiting" /\ iRecognitionResult[s] # Null
      /\ utility[s].iStep # 2 /\ answer[s] = "None"
  <2>1. s \in iAsyncRecognitionActive /\ utility[s].iStep # 2
    BY <1>1, SessionHas, Zenon DEF SessionInv
  <2>2. client[s] = "Waiting" /\ answer[s] = "None"
    BY <2>1, SessionHas DEF WaiterInv
  <2> QED
    BY <2>1, <2>2, SessionHas DEF SessionInv
<1>3. ~utility'[s].active
  BY SessionHas DEF Finish, Utilities, Abandon
<1>4. \/ utility'[s].iStep = 2 /\ answer'[s] = "Done" /\ abandoned' = abandoned
      \/ utility'[s].iStep = utility[s].iStep /\ answer' = answer /\ abandoned' = abandoned \cup {s}
  BY SessionHas DEF Finish, Utilities, Abandon
<1>5. SessionInv(s)'
  BY <1>1, <1>2, <1>3, <1>4, SessionHas DEF SessionInv
<1>6. WaiterInv(s)'
  BY <1>1, <1>2, <1>3, <1>4, SessionHas DEF WaiterInv
<1> QED
  BY <1>5, <1>6

(* A client fetches what it was promised.                                    *)
LEMMA OwnFetch ==
    ASSUME RecInv, SharedStep, NEW s \in Sessions, Fetch(s) \/ FilesRecognized(s)
    PROVE  SessionInv(s)' /\ WaiterInv(s)'
<1>1. /\ client[s] \in {"Fetching", "Waiting"} /\ serving # s /\ UNCHANGED <<utility, serving, abandoned>>
      /\ client'[s] = "Idle" /\ answer'[s] = "None"
  BY SessionHas DEF Fetch, FilesRecognized, SessionInv
<1>2. ~(s \in iAsyncRecognitionActive /\ utility[s].iStep <= 1)
  BY SessionHas DEF Fetch, FilesRecognized, WaiterInv
<1>3. s \in iAsyncRecognitionActive' => s \in iAsyncRecognitionActive /\ s \in unfetched'
  <2>1. CASE DoNotTransfer(s)
    BY <2>1 DEF DoNotTransfer
  <2>2. CASE Transfer(s) /\ (client[s] = "Fetching" \/ answer[s] = "Done")
    BY <2>2, SessionHas DEF Transfer, SessionInv, Fetch, FilesRecognized
  <2>3. CASE answer[s] = "Error" /\ client[s] = "Waiting" /\ UNCHANGED <<iAsyncRecognitionActive, unfetched>>
    BY <2>3, SessionHas DEF SessionInv
  <2> QED
    BY <2>1, <2>2, <2>3, SessionHas DEF Fetch, FilesRecognized
<1>4. ~utility[s].active
  BY <1>2, SessionHas, Zenon DEF SessionInv
<1>5. SessionInv(s)'
  BY <1>1, <1>3, <1>4, SessionHas DEF SessionInv
<1>6. WaiterInv(s)'
  BY <1>1, <1>2, <1>3 DEF WaiterInv
<1> QED
  BY <1>5, <1>6

(* Cancelling completes what has not been completed.                         *)
LEMMA OwnCancel ==
    ASSUME RecInv, SharedStep, NEW s \in Sessions, CancelRecognizeFiles(s)
    PROVE  SessionInv(s)' /\ WaiterInv(s)'
<1>1. /\ client[s] = "Waiting" /\ serving = Null /\ serving' = Null
      /\ answer'[s] = "None" /\ s \notin iAsyncRecognitionActive'
  BY SessionHas DEF CancelRecognizeFiles, Free
<1>2. client'[s] = "Idle"
  <2>1. answer[s] # "None" \/ Completes(s)
    BY <1>1, SessionHas DEF Completes, WaiterInv
  <2> QED
    BY <2>1, SessionHas DEF CancelRecognizeFiles
<1>3. ~utility'[s].active
  <2>1. \/ utility' = utility /\ ~utility[s].active
        \/ utility' = [utility EXCEPT ![s].active = FALSE, ![s].iStep = 0]
    <3>1. CASE utility[s].active
      <4>1. s \in iAsyncRecognitionActive /\ utility[s].iStep # 2
        BY <3>1, SessionHas, Zenon DEF SessionInv
      <4>2. utility[s].iStep <= 1
        BY <4>1, SessionHas
      <4> QED
        BY <3>1, <4>1, <4>2, Zenon DEF CancelRecognizeFiles, CancelRecognitionRequest
    <3>2. CASE ~utility[s].active
      BY <3>2, Zenon DEF CancelRecognizeFiles, CancelRecognitionRequest
    <3> QED
      BY <3>1, <3>2
  <2> QED
    BY <2>1, SessionHas DEF Utilities
<1>4. SessionInv(s)'
  BY <1>1, <1>2, <1>3, SessionHas DEF SessionInv
<1>5. WaiterInv(s)'
  BY <1>1, <1>2 DEF WaiterInv
<1> QED
  BY <1>4, <1>5

(* A session that ends has nothing left in hand.                             *)
LEMMA OwnDisconnect ==
    ASSUME RecInv, SharedStep, NEW s \in Sessions, Disconnect(s)
    PROVE  SessionInv(s)' /\ WaiterInv(s)'
<1>1. /\ serving # s /\ serving' = serving /\ client'[s] = "Idle"
      /\ answer'[s] = "None" /\ s \notin iAsyncRecognitionActive'
  BY SessionHas DEF Disconnect
<1>2. ~utility'[s].active
  BY SessionHas DEF Disconnect
<1>3. SessionInv(s)'
  BY <1>1, <1>2 DEF SessionInv
<1>4. WaiterInv(s)'
  BY <1>1 DEF WaiterInv
<1> QED
  BY <1>3, <1>4

----------------------------------------------------------------------------

(* A session's invariant is kept by its own steps and those of others.       *)
LEMMA NextSessions ==
    ASSUME RecInv, SharedStep, [Next]_vars, NEW t \in Sessions
    PROVE  SessionInv(t)' /\ WaiterInv(t)'
<1>1. CASE UNCHANGED sessionVars
  <2>1. Same(t)
    BY <1>1 DEF Same, sessionVars
  <2> QED
    BY <2>1, SessionHas, SameKeeps
<1>2. ASSUME NEW s \in Sessions,
             \/ \E d \in Directories : RecognizeFiles(s, d) \/ RecognizeFilesAsync(s, d)
             \/ RecognizeNext(s) \/ RecognizedAll(s) \/ Fetch(s)
             \/ ReadDirectory(s) \/ RecognizeCurrent(s) \/ Finish(s)
             \/ FilesRecognized(s) \/ CancelRecognizeFiles(s) \/ Disconnect(s)
      PROVE  SessionInv(t)' /\ WaiterInv(t)'
  <2>1. CASE t # s
    BY <1>2, <2>1, SessionHas, OthersSame, SameKeeps
  <2>2. SessionInv(s)' /\ WaiterInv(s)'
    BY <1>2, OwnRecognizeFiles, OwnRecognizeFilesAsync, OwnRecognizeNext, OwnFetch, OwnUtility,
       OwnFinish, OwnCancel, OwnDisconnect
  <2> QED
    BY <2>1, <2>2
<1> QED
  BY <1>1, <1>2, SessionCases

(* The whole invariant is kept.                                               *)
LEMMA NextRecInv == RecInv /\ [Next]_vars => RecInv'
<1> SUFFICES ASSUME RecInv, [Next]_vars PROVE RecInv'
  OBVIOUS
<1>1. SharedStep
  BY SharedCases DEF RecInv
<1>2. SharedInv'
  BY <1>1, NextSharedInv DEF RecInv
<1>3. ResultsAreTrue' /\ iRecognitionResult' \in [Sessions -> Results \cup {Null}]
  <2>1. iRecognitionResult' \in [Sessions -> TrueResults]
    BY NextResults
  <2> QED
    BY <2>1, SessionAssumption DEF TrueResults, ResultsAreTrue
<1>4. SessionTypeOK'
  BY <1>3, NextSessionTypes, NextUtilities DEF SessionTypeOK, Utilities
<1>5. SessionsInv'
  BY <1>1, NextSessions DEF SessionsInv
<1>6. WaitersAreAnswered'
  <2>1. \A t \in Sessions : WaiterInv(t)'
    BY <1>1, NextSessions
  <2> QED
    BY <2>1 DEF WaitersAreAnswered, WaiterInv
<1> QED
  BY <1>2, <1>3, <1>4, <1>5, <1>6 DEF RecInv, SharedInv, TypeOK

(* No session has anything in hand at first.                                 *)
LEMMA InitRecInv == Init => RecInv
<1> SUFFICES ASSUME Init PROVE RecInv
  OBVIOUS
<1>1. SharedInv
  BY InitSharedInv DEF Init
<1>2. SessionTypeOK
  <2>1. [iStep |-> 0, active |-> FALSE, iEntryList |-> {}] \in Utilities
    BY DEF Utilities
  <2>2. utility \in [Sessions -> Utilities]
    BY <2>1 DEF Init
  <2> QED
    BY <2>2 DEF Init, SessionTypeOK, Utilities
<1>3. \A s \in Sessions : /\ client[s] = "Idle" /\ answer[s] = "None" /\ iRecognitionResult[s] = Null
                          /\ serving # s
  BY SessionAssumption DEF Init
<1>4. \A s \in Sessions : ~utility[s].active
  BY DEF Init
<1>5. iAsyncRecognitionActive = {}
  BY DEF Init
<1>6. ResultsAreTrue /\ WaitersAreAnswered /\ SessionsInv
  BY <1>3, <1>4, <1>5 DEF ResultsAreTrue, WaitersAreAnswered, SessionsInv, SessionInv
<1> QED
  BY <1>1, <1>2, <1>6 DEF RecInv, SharedInv, TypeOK

(* The invariant is kept by every step of the server, its clients, the files *)
(* and the installed plug-ins.                                               *)
THEOREM Invariance == Spec => []RecInv
<1>1. Init => RecInv
  BY InitRecInv
<1>2. RecInv /\ [Next]_vars => RecInv'
  BY NextRecInv
<1> QED
  BY <1>1, <1>2, PTL DEF Spec

(* The variables keep their types; of the recognizers' count (LoadRecognizersL *)
(* and UnloadRecognizers) that is that it never falls below zero.            *)
THEOREM TypeCorrect == Spec => []TypeOK
<1>1. RecInv => TypeOK
  BY DEF RecInv
<1> QED
  BY <1>1, Invariance, PTL

(* Recognizers loaded on demand stay loaded until the timer unloads them, and *)
(* nothing is recognized without them (LoadRecognizersL, DoUnloadRecognizers). *)
THEOREM LoadedWhenUsed == Spec => []LoadedWhileUsed
<1>1. RecInv => LoadedWhileUsed
  BY DEF RecInv, SharedInv
<1> QED
  BY <1>1, Invariance, PTL

(* With the monitor waiting for the next change of plug-ins, nothing is at   *)
(* work that was loaded or cached before the last (UpdatePlugIns).           *)
THEOREM CacheFollows == Spec => []CacheFollowsPlugIns
<1>1. RecInv => CacheFollowsPlugIns
  BY DEF RecInv, SharedInv, FollowsPlugIns, CacheFollowsPlugIns
<1> QED
  BY <1>1, Invariance, PTL

(* Whatever is added, cleaned up or left half added, the cache counts its    *)
(* entries right and keeps its bound (DoAddL, Cleanup).                      *)
THEOREM CacheBounded == Spec => []CacheIsBounded
<1>1. ASSUME CacheTypeOK, CacheWithin PROVE CacheIsBounded
  <2>1. Cardinality(EmptyDirectories(cache)) \in Nat
    BY <1>1, FS_CardinalityType DEF CacheWithin, Within
  <2>2. cache.iNumberOfEntries + Cardinality(EmptyDirectories(cache)) <= (KMaxNumberOfEntries + 1) + addsLeft
        /\ cache.iNumberOfEntries \in Nat /\ addsLeft \in Nat
    BY <1>1 DEF CacheWithin, Within, CacheTypeOK
  <2>3. cache.iNumberOfEntries <= KMaxNumberOfEntries + 1 + addsLeft
    BY <2>1, <2>2, CacheAssumption
  <2> QED
    BY <1>1, <2>3 DEF CacheIsBounded, CacheWithin, Within, CacheOK
<1>2. RecInv => CacheIsBounded
  BY <1>1 DEF RecInv, SharedInv
<1> QED
  BY <1>2, Invariance, PTL

(* The server names a file by what it held when it was last modified, cached *)
(* or not, unless a client had named it (RecognizeFileL).                    *)
THEOREM ResultsTrue == Spec => []ResultsAreTrue
<1>1. RecInv => ResultsAreTrue
  BY DEF RecInv
<1> QED
  BY <1>1, Invariance, PTL

(* No client is left waiting by a session that has nothing in hand for it,   *)
(* and none hangs when it cancels (CancelRecognizeFiles).                    *)
THEOREM WaitersAnswered == Spec => []WaitersAreAnswered
<1>1. RecInv => WaitersAreAnswered
  BY DEF RecInv
<1> QED
  BY <1>1, Invariance, PTL

=============================================================================
