--------------------------- MODULE DirCacheProofs ---------------------------
(***************************************************************************)
(* What add_cache_entry and remove_file_from_cache do to a sorted cache,   *)
(* for every cache, entry and position that cache_name_pos may return.     *)
(***************************************************************************)
EXTENDS DirCache, TLAPS

-----------------------------------------------------------------------------
\* Numbers and lengths

LEMMA LengthIsNat ==
  ASSUME NEW S, NEW s \in Seq(S)
  PROVE  Len(s) \in Nat
OBVIOUS

LEMMA PositiveNat == \A n \in Nat \ {0} : n \in Nat /\ n > 0
OBVIOUS

LEMMA EmptyLength == Len(<<>>) = 0
OBVIOUS

LEMMA EmptyRange ==
  ASSUME NEW s, s = <<>>
  PROVE  1 .. Len(s) = {}
OBVIOUS

LEMMA AppendLonger ==
  ASSUME NEW S, NEW s \in Seq(S), NEW e \in S
  PROVE  Len(Append(s, e)) = Len(s) + 1
OBVIOUS

LEMMA Between ==
  ASSUME NEW n \in Nat, NEW m \in Nat
  PROVE  /\ m <= n => m \in 0 .. n /\ m <= n + 1 /\ m + 1 <= n + 1
         /\ m > 0 /\ m <= n => m \in 1 .. n
         /\ m < n => m + 1 <= n
OBVIOUS

LEMMA AtMost ==
  ASSUME NEW n \in Nat
  PROVE  /\ n <= n /\ 0 <= n /\ 1 <= n + 1
         /\ n \in 0 .. n /\ n \in 0 .. n + 1 /\ n + 1 \in 0 .. n + 1
         /\ \A m \in 0 .. n - 1 : m \in 0 .. n /\ m < n
         /\ \A m \in 0 .. n : m \in Nat /\ m <= n /\ m \in 0 .. n + 1
         /\ \A m \in Nat : m = n - 1 => m \in 0 .. n
OBVIOUS

\* A set of numbers has a least element.  The modules with a proof by induction
\* extend WellFoundedInduction and show it; here it is a hypothesis, so that the
\* others can do without that module.
LeastNumbers == \A S \in SUBSET Nat : S # {} => \E n \in S : \A m \in S : n <= m

\* Induction up to n, for a set instead of a predicate.
LEMMA InductionUpTo ==
  ASSUME LeastNumbers,
         NEW n \in Nat, NEW S, 0 \in S, \A k \in 1 .. n : k - 1 \in S => k \in S
  PROVE  0 .. n \subseteq S
<1> SUFFICES ASSUME (0 .. n) \ S # {} PROVE FALSE
  OBVIOUS
<1>1. (0 .. n) \ S \in SUBSET Nat
  OBVIOUS
<1>2. PICK k \in (0 .. n) \ S : \A m \in (0 .. n) \ S : k <= m
  BY <1>1 DEF LeastNumbers
<1>3. k \in 1 .. n
  BY <1>2
<1>4. k - 1 \in S
  BY <1>2, <1>3
<1>5. QED
  BY <1>2, <1>3, <1>4

\* f is computed step by step: f[k] from k and f[k - 1].
Iterates(f, n, S, a, step) ==
  f \in [0 .. n -> S] /\ f[0] = a /\ \A k \in 1 .. n : f[k] = step[k][f[k - 1]]

\* Such a function exists, which is what the recursive definitions need.
LEMMA IteratesExist ==
  ASSUME LeastNumbers,
         NEW n \in Nat, NEW S, NEW a \in S, NEW step \in [1 .. n -> [S -> S]]
  PROVE  \E f : Iterates(f, n, S, a, step)
<1> DEFINE T == {m \in 0 .. n : \E f : Iterates(f, m, S, a, step)}
<1>1. 0 \in T
  <2> DEFINE f == [i \in 0 .. 0 |-> a]
  <2>1. Iterates(f, 0, S, a, step)
    BY DEF Iterates
  <2> HIDE DEF f
  <2>2. QED
    BY <2>1
<1>2. ASSUME NEW m \in 1 .. n, m - 1 \in T PROVE m \in T
  <2>1. PICK f : Iterates(f, m - 1, S, a, step)
    BY <1>2
  <2>2. /\ f \in [0 .. m - 1 -> S] /\ f[0] = a
        /\ \A k \in 1 .. m - 1 : f[k] = step[k][f[k - 1]]
    BY <2>1 DEF Iterates
  <2> DEFINE g == [i \in 0 .. m |-> IF i = m THEN step[m][f[m - 1]] ELSE f[i]]
  <2>3. f[m - 1] \in S /\ step[m][f[m - 1]] \in S
    BY <2>2
  <2>4. g \in [0 .. m -> S] /\ g[0] = a /\ g[m] = step[m][f[m - 1]]
    BY <2>2, <2>3
  <2>5. \A i \in 0 .. m - 1 : g[i] = f[i]
    OBVIOUS
  <2> HIDE DEF g
  <2>6. ASSUME NEW k \in 1 .. m PROVE g[k] = step[k][g[k - 1]]
    <3>1. g[k - 1] = f[k - 1]
      BY <2>5
    <3>2. CASE k = m
      BY <2>4, <3>1, <3>2
    <3>3. CASE k # m
      BY <2>2, <2>5, <3>1, <3>3
    <3>4. QED
      BY <3>2, <3>3
  <2>7. Iterates(g, m, S, a, step)
    BY <2>4, <2>6 DEF Iterates
  <2>8. QED
    BY <2>7
<1>3. 0 .. n \subseteq T
  <2> HIDE DEF T
  <2>1. QED
    BY <1>1, <1>2, InductionUpTo
<1>4. QED
  BY <1>3

-----------------------------------------------------------------------------
\* The array

\* An object file that has all its bytes is neither missing nor torn.
LEMMA FilledHeld ==
  \A b : Filled(b) \in Held /\ Filled(b) \in {"cut", "whole"}
         /\ Filled(b) # "absent" /\ Filled(b) # "partial"
BY DEF Filled, Held

\* Names are numbers, so that they can be compared.
LEMMA NamesAreNumbers ==
  ASSUME NEW c \in Seq(Entry)
  PROVE  /\ Len(c) \in Nat
         /\ \A i \in 1 .. Len(c) : c[i] \in Entry /\ c[i].name \in Nat
<1>1. \A i \in 1 .. Len(c) : c[i] \in Entry
  OBVIOUS
<1>2. \A i \in 1 .. Len(c) : c[i].name \in Nat
  BY <1>1, PathAssumption DEF Entry
<1>3. QED
  BY <1>1, <1>2

\* The result of an insertion at pos, slot by slot.
LEMMA InsertSlots ==
  ASSUME NEW c \in Seq(Entry), NEW e \in Entry, NEW pos \in 0 .. Len(c)
  PROVE  /\ AddCacheEntry(c, pos, e) \in Seq(Entry)
         /\ Len(AddCacheEntry(c, pos, e)) = Len(c) + 1
         /\ \A i \in 1 .. Len(c) + 1 :
              AddCacheEntry(c, pos, e)[i] =
                IF i <= pos THEN c[i] ELSE IF i = pos + 1 THEN e ELSE c[i - 1]
<1> DEFINE longer == Append(c, e)
           moved == MemMove(longer, pos + 2, pos + 1, Len(c) - pos)
<1>1. /\ longer \in Seq(Entry) /\ Len(longer) = Len(c) + 1 /\ Len(c) \in Nat
      /\ \A i \in 1 .. Len(c) : longer[i] = c[i]
      /\ longer[Len(c) + 1] = e
  OBVIOUS
<1>2. \A i \in 1 .. Len(c) + 1 :
        moved[i] = IF i >= pos + 2 THEN c[i - 1] ELSE longer[i]
  BY <1>1 DEF MemMove
<1>3. DOMAIN moved = 1 .. Len(c) + 1
  BY <1>1 DEF MemMove
<1>4. AddCacheEntry(c, pos, e) = [moved EXCEPT ![pos + 1] = e]
  BY DEF AddCacheEntry
<1> DEFINE r == AddCacheEntry(c, pos, e)
<1>5. \A i \in 1 .. Len(c) + 1 :
        r[i] = IF i <= pos THEN c[i] ELSE IF i = pos + 1 THEN e ELSE c[i - 1]
  <2> HIDE DEF moved, longer
  <2> QED BY <1>1, <1>2, <1>3, <1>4
<1>6. r = [i \in 1 .. Len(c) + 1 |-> r[i]]
  <2> HIDE DEF moved
  <2> QED BY <1>3, <1>4
<1>7. \A i \in 1 .. Len(c) + 1 : r[i] \in Entry
  <2> HIDE DEF r
  <2> QED BY <1>1, <1>5
<1>8. QED
  <2> HIDE DEF r
  <2>1. r \in Seq(Entry) /\ Len(r) = Len(c) + 1
    BY <1>1, <1>6, <1>7
  <2>2. QED
    BY <2>1, <1>5 DEF r

\* The result of a replacement, slot by slot.
LEMMA ReplaceSlots ==
  ASSUME NEW c \in Seq(Entry), NEW e \in Entry, NEW k \in 1 .. Len(c)
  PROVE  /\ AddCacheEntry(c, -k, e) \in Seq(Entry)
         /\ Len(AddCacheEntry(c, -k, e)) = Len(c)
         /\ \A i \in 1 .. Len(c) :
              AddCacheEntry(c, -k, e)[i] = IF i = k THEN e ELSE c[i]
<1>1. -k < 0 /\ -(-k) = k
  OBVIOUS
<1>2. AddCacheEntry(c, -k, e) = [c EXCEPT ![k] = e]
  BY <1>1 DEF AddCacheEntry
<1>3. QED
  BY <1>2

(***************************************************************************)
(* add_cache_entry keeps the cache sorted, puts the entry in, keeps every  *)
(* entry of another name, and adds no others.                              *)
(***************************************************************************)
THEOREM AddKeepsSorted ==
  ASSUME NEW c \in Seq(Entry), Sorted(c), NEW e \in Entry,
         NEW pos \in NamePositions(c, e.name)
  PROVE  /\ AddCacheEntry(c, pos, e) \in Seq(Entry)
         /\ Sorted(AddCacheEntry(c, pos, e))
         /\ Len(AddCacheEntry(c, pos, e)) = IF pos < 0 THEN Len(c) ELSE Len(c) + 1
         /\ \A i \in 1 .. Len(AddCacheEntry(c, pos, e)) :
              \/ AddCacheEntry(c, pos, e)[i] = e
              \/ \E j \in 1 .. Len(c) : AddCacheEntry(c, pos, e)[i] = c[j]
         /\ \E i \in 1 .. Len(AddCacheEntry(c, pos, e)) : AddCacheEntry(c, pos, e)[i] = e
         /\ \A j \in 1 .. Len(c) : c[j].name # e.name =>
              \E i \in 1 .. Len(AddCacheEntry(c, pos, e)) : AddCacheEntry(c, pos, e)[i] = c[j]
<1> DEFINE r == AddCacheEntry(c, pos, e)
<1>1. /\ pos \in Int /\ IsNamePos(c, e.name, pos) /\ Len(c) \in Nat /\ e.name \in Nat
      /\ \A i \in 1 .. Len(c) : c[i] \in Entry /\ c[i].name \in Nat
  <2>1. pos \in Int /\ IsNamePos(c, e.name, pos)
    BY DEF NamePositions
  <2>2. e.name \in Nat
    BY PathAssumption DEF Entry
  <2>3. QED
    BY <2>1, <2>2, NamesAreNumbers
<1>2. CASE pos < 0
  <2>1. PICK k \in 1 .. Len(c) : pos = -k /\ c[k].name = e.name
    BY <1>1, <1>2 DEF IsNamePos
  <2>2. /\ r \in Seq(Entry) /\ Len(r) = Len(c)
        /\ \A i \in 1 .. Len(c) : r[i] = IF i = k THEN e ELSE c[i]
    BY <2>1, ReplaceSlots
  <2> HIDE DEF r
  <2>3. Sorted(r)
    BY <1>1, <2>1, <2>2 DEF Sorted
  <2>4. QED
    BY <1>1, <1>2, <2>1, <2>2, <2>3 DEF r
<1>3. CASE pos >= 0
  <2>1. /\ pos \in 0 .. Len(c)
        /\ \A i \in 1 .. pos : c[i].name < e.name
        /\ \A i \in pos + 1 .. Len(c) : e.name < c[i].name
    BY <1>1, <1>3 DEF IsNamePos
  <2>2. /\ r \in Seq(Entry) /\ Len(r) = Len(c) + 1
        /\ \A i \in 1 .. Len(c) + 1 :
             r[i] = IF i <= pos THEN c[i] ELSE IF i = pos + 1 THEN e ELSE c[i - 1]
    BY <2>1, InsertSlots
  <2> HIDE DEF r
  <2>3. Sorted(r)
    <3> SUFFICES ASSUME NEW i \in 1 .. Len(c) + 1, NEW j \in 1 .. Len(c) + 1, i < j
                 PROVE  r[i].name <= r[j].name
      BY <2>2 DEF Sorted
    <3>1. CASE j <= pos
      <4>1. r[i] = c[i] /\ r[j] = c[j] /\ i \in 1 .. Len(c) /\ j \in 1 .. Len(c)
        BY <1>1, <2>1, <2>2, <3>1
      <4>2. QED
        BY <4>1 DEF Sorted
    <3>2. CASE j = pos + 1
      <4>1. r[i] = c[i] /\ r[j] = e /\ i \in 1 .. pos /\ i \in 1 .. Len(c)
        BY <1>1, <2>1, <2>2, <3>2
      <4>2. QED
        BY <1>1, <2>1, <4>1
    <3>3. CASE j > pos + 1 /\ i = pos + 1
      <4>1. r[i] = e /\ r[j] = c[j - 1] /\ j - 1 \in pos + 1 .. Len(c) /\ j - 1 \in 1 .. Len(c)
        BY <1>1, <2>1, <2>2, <3>3
      <4>2. QED
        BY <1>1, <2>1, <4>1
    <3>4. CASE j > pos + 1 /\ i <= pos
      <4>1. /\ r[i] = c[i] /\ r[j] = c[j - 1]
            /\ i \in 1 .. Len(c) /\ j - 1 \in 1 .. Len(c) /\ i < j - 1
        BY <1>1, <2>1, <2>2, <3>4
      <4>2. QED
        BY <4>1 DEF Sorted
    <3>5. CASE j > pos + 1 /\ i > pos + 1
      <4>1. r[i] = c[i - 1] /\ r[j] = c[j - 1]
        BY <2>1, <2>2, <3>5
      <4>2. i - 1 \in 1 .. Len(c) /\ j - 1 \in 1 .. Len(c) /\ i - 1 < j - 1
        BY <1>1, <2>1, <3>5
      <4>3. QED
        BY <4>1, <4>2 DEF Sorted
    <3>6. QED
      BY <2>1, <3>1, <3>2, <3>3, <3>4, <3>5
  <2>4. \A i \in 1 .. Len(r) : r[i] = e \/ \E j \in 1 .. Len(c) : r[i] = c[j]
    <3> SUFFICES ASSUME NEW i \in 1 .. Len(c) + 1, r[i] # e
                 PROVE  \E j \in 1 .. Len(c) : r[i] = c[j]
      BY <2>2
    <3>1. CASE i <= pos
      BY <1>1, <2>1, <2>2, <3>1
    <3>2. CASE i > pos + 1
      BY <1>1, <2>1, <2>2, <3>2
    <3>3. QED
      BY <2>1, <2>2, <3>1, <3>2
  <2>5. r[pos + 1] = e /\ pos + 1 \in 1 .. Len(r)
    BY <1>1, <2>1, <2>2
  <2>6. \A j \in 1 .. Len(c) : \E i \in 1 .. Len(r) : r[i] = c[j]
    <3> TAKE j \in 1 .. Len(c)
    <3>1. CASE j <= pos
      BY <1>1, <2>1, <2>2, <3>1
    <3>2. CASE j > pos
      <4>1. /\ j + 1 \in 1 .. Len(c) + 1 /\ ~(j + 1 <= pos) /\ j + 1 # pos + 1
            /\ (j + 1) - 1 = j
        BY <1>1, <2>1, <3>2
      <4>2. r[j + 1] = c[j] /\ j + 1 \in 1 .. Len(r)
        <5>1. r[j + 1] = IF j + 1 <= pos THEN c[j + 1]
                         ELSE IF j + 1 = pos + 1 THEN e ELSE c[(j + 1) - 1]
          BY <2>2, <4>1, Zenon
        <5>2. r[j + 1] = c[(j + 1) - 1]
          BY <4>1, <5>1, Zenon
        <5>3. QED
          BY <2>2, <4>1, <5>2, Zenon
      <4>3. QED
        BY <4>2, Zenon
    <3>3. QED
      BY <2>1, <3>1, <3>2
  <2>7. QED
    BY <1>1, <1>3, <2>2, <2>3, <2>4, <2>5, <2>6 DEF r
<1>4. QED
  BY <1>1, <1>2, <1>3

(***************************************************************************)
(* remove_file_from_cache, for all its lost last move, keeps the cache     *)
(* sorted, makes it one entry shorter when the name was there, and invents *)
(* no entry.                                                               *)
(***************************************************************************)
THEOREM RemoveKeepsSorted ==
  ASSUME NEW c \in Seq(Entry), Sorted(c), NEW n \in Path,
         NEW pos \in NamePositions(c, n)
  PROVE  /\ RemoveFileFromCache(c, pos) \in Seq(Entry)
         /\ Sorted(RemoveFileFromCache(c, pos))
         /\ Len(RemoveFileFromCache(c, pos)) = IF pos < 0 THEN Len(c) - 1 ELSE Len(c)
         /\ \A i \in 1 .. Len(RemoveFileFromCache(c, pos)) :
              \E j \in 1 .. Len(c) : RemoveFileFromCache(c, pos)[i] = c[j]
<1> DEFINE r == RemoveFileFromCache(c, pos)
<1>1. /\ pos \in Int /\ IsNamePos(c, n, pos) /\ Len(c) \in Nat
      /\ \A i \in 1 .. Len(c) : c[i] \in Entry /\ c[i].name \in Nat
  BY NamesAreNumbers DEF NamePositions
<1>2. CASE pos >= 0
  <2>1. r = c
    BY <1>2 DEF RemoveFileFromCache
  <2>2. QED
    BY <1>1, <1>2, <2>1
<1>3. CASE pos < 0
  <2>1. PICK k \in 1 .. Len(c) : pos = -k
    BY <1>1, <1>3 DEF IsNamePos
  <2> DEFINE nr == Len(c) - 1
             moved == MemMove(c, k, k + 1, nr - (k - 1) - 1)
  <2>2. r = SubSeq(moved, 1, nr)
    BY <1>3, <2>1 DEF RemoveFileFromCache
  <2>3. \A i \in 1 .. Len(c) :
          moved[i] = IF i \in k .. nr - 1 THEN c[i + 1] ELSE c[i]
    BY <1>1, <2>1 DEF MemMove
  <2>4. moved = [i \in 1 .. Len(c) |-> moved[i]]
    BY DEF MemMove
  <2>5. \A i \in 1 .. Len(c) : moved[i] \in Entry
    <3> HIDE DEF moved
    <3> TAKE i \in 1 .. Len(c)
    <3>1. CASE i \in k .. nr - 1
      <4>1. i + 1 \in 1 .. Len(c)
        BY <1>1, <2>1, <3>1
      <4>2. QED
        BY <1>1, <2>3, <3>1, <4>1
    <3>2. CASE i \notin k .. nr - 1
      BY <1>1, <2>3, <3>2
    <3>3. QED
      BY <3>1, <3>2
  <2>6. moved \in Seq(Entry) /\ Len(moved) = Len(c)
    <3> HIDE DEF moved
    <3> QED BY <1>1, <2>4, <2>5
  <2>7. /\ r \in Seq(Entry) /\ Len(r) = nr
        /\ \A i \in 1 .. nr : r[i] = moved[i]
    <3> HIDE DEF moved, r
    <3> QED BY <1>1, <2>1, <2>2, <2>6
  <2>8. \A i \in 1 .. nr : r[i] = IF i \in k .. nr - 1 THEN c[i + 1] ELSE c[i]
    <3> HIDE DEF moved, r
    <3> QED BY <1>1, <2>1, <2>3, <2>7
  <2> HIDE DEF moved, r
  <2>9. Sorted(r)
    <3> SUFFICES ASSUME NEW i \in 1 .. nr, NEW j \in 1 .. nr, i < j
                 PROVE  r[i].name <= r[j].name
      BY <2>7 DEF Sorted
    <3>1. CASE i \in k .. nr - 1 /\ j \in k .. nr - 1
      <4>1. r[i] = c[i + 1] /\ r[j] = c[j + 1]
        BY <2>8, <3>1
      <4>2. i + 1 \in 1 .. Len(c) /\ j + 1 \in 1 .. Len(c) /\ i + 1 < j + 1
        BY <1>1, <2>1, <3>1
      <4>3. QED
        BY <4>1, <4>2 DEF Sorted
    <3>2. CASE i \in k .. nr - 1 /\ j = nr
      <4>1. r[i] = c[i + 1] /\ r[j] = c[j]
        BY <1>1, <2>8, <3>2
      <4>2. i + 1 = j \/ i + 1 < j
        OBVIOUS
      <4>3. QED
        BY <1>1, <4>1, <4>2 DEF Sorted
    <3>3. CASE i \notin k .. nr - 1
      <4>1. r[i] = c[i] /\ i \in 1 .. Len(c)
        BY <1>1, <2>8, <3>3
      <4>2. PICK m \in 1 .. Len(c) : m >= j /\ r[j] = c[m]
        <5>1. CASE j \in k .. nr - 1
          <6>1. j + 1 \in 1 .. Len(c) /\ r[j] = c[j + 1] /\ j + 1 >= j
            BY <1>1, <2>1, <2>8, <5>1
          <6>2. QED
            BY <6>1
        <5>2. CASE j \notin k .. nr - 1
          <6>1. j \in 1 .. Len(c) /\ r[j] = c[j] /\ j >= j
            BY <1>1, <2>8, <5>2
          <6>2. QED
            BY <6>1
        <5>3. QED
          BY <5>1, <5>2
      <4>3. i < m
        BY <4>2
      <4>4. QED
        BY <4>1, <4>2, <4>3 DEF Sorted
    <3>4. QED
      BY <1>1, <2>1, <3>1, <3>2, <3>3
  <2>10. \A i \in 1 .. nr : \E j \in 1 .. Len(c) : r[i] = c[j]
    <3> TAKE i \in 1 .. nr
    <3>1. CASE i \in k .. nr - 1
      <4>1. r[i] = c[i + 1]
        BY <2>8, <3>1
      <4>2. i + 1 \in 1 .. Len(c)
        BY <1>1, <2>1, <3>1
      <4>3. QED
        BY <4>1, <4>2
    <3>2. CASE i \notin k .. nr - 1
      BY <1>1, <2>8, <3>2
    <3>3. QED
      BY <3>1, <3>2
  <2>11. QED
    BY <1>1, <1>3, <2>7, <2>9, <2>10 DEF r
<1>4. QED
  BY <1>1, <1>2, <1>3

\* The array has room for one more entry after add_cache_entry grew it.
LEMMA AllocRoom ==
  ASSUME NEW c \in Seq(Entry), NEW a \in Nat, NEW pos \in Int, Len(c) <= a
  PROVE  /\ AllocAfterAdd(c, pos, a) \in Nat
         /\ Len(c) <= AllocAfterAdd(c, pos, a)
         /\ pos >= 0 => Len(c) + 1 <= AllocAfterAdd(c, pos, a)
BY AllocSlackAssumption DEF AllocAfterAdd, AllocNr

\* A negative position is that of the entry with the name.
LEMMA PositionSign ==
  ASSUME NEW c, NEW n, NEW pos \in NamePositions(c, n), Len(c) \in Nat
  PROVE  /\ pos >= 0 \/ pos < 0
         /\ pos < 0 => \E k \in 1 .. Len(c) : pos = -k /\ c[k].name = n
BY DEF NamePositions, IsNamePos

\* Adding an entry makes the cache longer by one at most.
LEMMA AddGrows ==
  ASSUME NEW c \in Seq(Entry), Sorted(c), NEW e \in Entry,
         NEW pos \in NamePositions(c, e.name)
  PROVE  Len(AddCacheEntry(c, pos, e)) \in 0 .. Len(c) + 1
<1>1. /\ Len(AddCacheEntry(c, pos, e)) = Len(c) \/ Len(AddCacheEntry(c, pos, e)) = Len(c) + 1
      /\ Len(c) \in Nat
  BY AddKeepsSorted
<1>2. QED
  BY <1>1

\* Removing one does not make it longer.
LEMMA RemoveShortens ==
  ASSUME NEW c \in Seq(Entry), Sorted(c), NEW n \in Path,
         NEW pos \in NamePositions(c, n)
  PROVE  Len(RemoveFileFromCache(c, pos)) \in 0 .. Len(c)
<1>1. /\ \/ Len(RemoveFileFromCache(c, pos)) = Len(c)
         \/ Len(RemoveFileFromCache(c, pos)) = Len(c) - 1
      /\ Len(c) \in Nat /\ Len(RemoveFileFromCache(c, pos)) \in Nat
  BY RemoveKeepsSorted
<1>2. QED
  BY <1>1

(***************************************************************************)
(* add_cache_entry keeps names unique: it replaces the entry of the name,  *)
(* or inserts where no entry has it.                                       *)
(***************************************************************************)
THEOREM AddKeepsUnique ==
  ASSUME NEW c \in Seq(Entry), Unique(c), NEW e \in Entry,
         NEW pos \in NamePositions(c, e.name)
  PROVE  Unique(AddCacheEntry(c, pos, e))
<1> DEFINE r == AddCacheEntry(c, pos, e)
<1>1. /\ pos \in Int /\ IsNamePos(c, e.name, pos) /\ Len(c) \in Nat /\ e.name \in Nat
      /\ \A i \in 1 .. Len(c) : c[i].name \in Nat
  <2>1. pos \in Int /\ IsNamePos(c, e.name, pos)
    BY DEF NamePositions
  <2>2. e.name \in Nat
    BY PathAssumption DEF Entry
  <2>3. QED
    BY <2>1, <2>2, NamesAreNumbers
<1>2. ASSUME NEW k \in 1 .. Len(c), pos = -k, c[k].name = e.name PROVE Unique(r)
  <2>1. Len(r) = Len(c) /\ \A i \in 1 .. Len(c) : r[i] = IF i = k THEN e ELSE c[i]
    BY <1>2, ReplaceSlots
  <2>2. \A i \in 1 .. Len(c) : r[i].name = c[i].name
    BY <1>2, <2>1
  <2>3. QED
    BY <2>1, <2>2 DEF Unique
<1>3. ASSUME pos \in 0 .. Len(c),
             \A i \in 1 .. pos : c[i].name < e.name,
             \A i \in pos + 1 .. Len(c) : e.name < c[i].name
      PROVE  Unique(r)
  <2>1. /\ Len(r) = Len(c) + 1
        /\ \A i \in 1 .. Len(c) + 1 :
             r[i] = IF i <= pos THEN c[i] ELSE IF i = pos + 1 THEN e ELSE c[i - 1]
    BY <1>3, InsertSlots
  <2>2. \A i \in 1 .. Len(c) : c[i].name # e.name
    BY <1>1, <1>3
  <2>3. \A i \in 1 .. Len(r) : i # pos + 1 =>
          \E k \in 1 .. Len(c) : r[i] = c[k] /\ k = IF i <= pos THEN i ELSE i - 1
    BY <1>1, <1>3, <2>1
  <2>4. r[pos + 1] = e
    BY <1>1, <1>3, <2>1
  <2>5. ASSUME NEW i \in 1 .. Len(r), NEW j \in 1 .. Len(r), i # j
        PROVE  r[i].name # r[j].name
    <3>1. CASE i = pos + 1
      BY <2>2, <2>3, <2>4, <2>5, <3>1
    <3>2. CASE j = pos + 1
      BY <2>2, <2>3, <2>4, <2>5, <3>2
    <3>3. CASE i # pos + 1 /\ j # pos + 1
      <4>1. PICK k \in 1 .. Len(c) : r[i] = c[k] /\ k = IF i <= pos THEN i ELSE i - 1
        BY <2>3, <3>3
      <4>2. PICK l \in 1 .. Len(c) : r[j] = c[l] /\ l = IF j <= pos THEN j ELSE j - 1
        BY <2>3, <3>3
      <4>3. k # l
        BY <1>1, <1>3, <2>1, <2>5, <3>3, <4>1, <4>2
      <4>4. QED
        BY <4>1, <4>2, <4>3 DEF Unique
    <3>4. QED
      BY <3>1, <3>2, <3>3
  <2>6. QED
    BY <2>5 DEF Unique
<1>4. QED
  BY <1>1, <1>2, <1>3 DEF IsNamePos

(***************************************************************************)
(* remove_file_from_cache is exact for the last entry, where its memmove   *)
(* has nothing to move: that entry goes and the others keep their slots.   *)
(***************************************************************************)
THEOREM RemoveLastIsExact ==
  ASSUME NEW c \in Seq(Entry), Len(c) > 0
  PROVE  LET r == RemoveFileFromCache(c, -Len(c))
         IN  /\ r \in Seq(Entry)
             /\ Len(r) = Len(c) - 1
             /\ \A i \in 1 .. Len(r) : r[i] = c[i]
<1> DEFINE r == RemoveFileFromCache(c, -Len(c))
           moved == MemMove(c, Len(c), Len(c) + 1, (Len(c) - 1) - (Len(c) - 1) - 1)
<1>1. Len(c) \in Nat /\ -Len(c) < 0 /\ -(-Len(c)) = Len(c)
  OBVIOUS
<1>2. r = SubSeq(moved, 1, Len(c) - 1)
  BY <1>1 DEF RemoveFileFromCache
<1>3. moved = [i \in 1 .. Len(c) |-> c[i]]
  <2>1. \A i \in 1 .. Len(c) :
          i \notin Len(c) .. Len(c) + ((Len(c) - 1) - (Len(c) - 1) - 1) - 1
    BY <1>1
  <2>2. QED
    BY <2>1 DEF MemMove
<1>4. moved \in Seq(Entry) /\ Len(moved) = Len(c) /\ \A i \in 1 .. Len(c) : moved[i] = c[i]
  <2> HIDE DEF moved
  <2> QED BY <1>1, <1>3
<1> HIDE DEF moved, r
<1>5. r \in Seq(Entry) /\ Len(r) = Len(c) - 1 /\ \A i \in 1 .. Len(r) : r[i] = c[i]
  BY <1>1, <1>2, <1>4
<1>6. QED
  BY <1>5 DEF r
=============================================================================
