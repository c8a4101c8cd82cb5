--------------------------- MODULE LayoutProofs -----------------------------
(***************************************************************************)
(* What is under .dircache.  Files as bytes: the layout of the index, for  *)
(* any number of entries and any lengths of names, and object files from   *)
(* the buffer of the writer to the buffer of the reader, for objects of    *)
(* any length up to the bounds of ObjectFileAssumption.  And directories:  *)
(* git --init for any number of processes, invocations, faults and fan-out *)
(* directories.                                                            *)
(***************************************************************************)
EXTENDS IndexLayout, ObjectFile, InitDb, DirCacheProofs, WellFoundedInduction

\* A set of numbers has a least element.
LEMMA LeastNumber == LeastNumbers
<1> SUFFICES ASSUME NEW S \in SUBSET Nat, S # {} PROVE \E n \in S : \A m \in S : n <= m
  BY DEF LeastNumbers
<1>1. PICK n \in S : \A m \in S : ~(<<m, n>> \in OpToRel(<, Nat))
  BY WFMin, NatLessThanWellFounded
<1>2. \A m \in S : ~(m < n)
  BY <1>1 DEF OpToRel
<1>3. QED
  BY <1>2

-----------------------------------------------------------------------------
\* The layout of the index: write_cache and read_cache

\* An entry has room for its name and a NUL.
LEMMA CeSizeFacts ==
  ASSUME NEW len \in Nat
  PROVE  CeSize(len) \in Nat /\ CeSize(len) > NameOffset + len
<1>1. PICK n \in Nat : n = 62 + len
  OBVIOUS
<1>2. ((n + 8) \div 8) * 8 \in Nat /\ ((n + 8) \div 8) * 8 > n
  OBVIOUS
<1>3. QED
  BY <1>1, <1>2 DEF CeSize, NameOffset

LensOK == lens \in Seq(Nat)

LEMMA LensFacts ==
  ASSUME LensOK
  PROVE  /\ Len(lens) \in Nat
         /\ \A k \in 1 .. Len(lens) : lens[k] \in Nat /\ CeSize(lens[k]) \in Nat
<1>1. Len(lens) \in Nat /\ \A k \in 1 .. Len(lens) : lens[k] \in Nat
  BY DEF LensOK
<1>2. QED
  BY <1>1, CeSizeFacts

\* f is the function of Total.
Sums(f) == f = [k \in 0 .. Len(lens) |-> IF k = 0 THEN 0 ELSE f[k - 1] + CeSize(lens[k])]

LEMMA SumsExist == ASSUME LensOK PROVE \E f : Sums(f)
<1> DEFINE n == Len(lens)
           add == [k \in 1 .. n |-> [q \in Nat |-> q + CeSize(lens[k])]]
<1>1. n \in Nat /\ add \in [1 .. n -> [Nat -> Nat]] /\ 0 \in Nat
  BY LensFacts
<1>2. \A k \in 1 .. n, q \in Nat : add[k][q] = q + CeSize(lens[k])
  OBVIOUS
<1> HIDE DEF add
<1>3. PICK f : Iterates(f, n, Nat, 0, add)
  BY <1>1, IteratesExist, LeastNumber, Zenon
<1>4. f \in [0 .. n -> Nat] /\ f[0] = 0
  BY <1>3 DEF Iterates
<1>5. ASSUME NEW k \in 1 .. n PROVE f[k] = f[k - 1] + CeSize(lens[k])
  <2>1. f[k - 1] \in Nat
    <3>1. k - 1 \in 0 .. n
      BY <1>1
    <3>2. QED
      BY <1>4, <3>1, Zenon
  <2>2. f[k] = add[k][f[k - 1]]
    BY <1>3 DEF Iterates
  <2>3. QED
    BY <1>2, <2>1, <2>2
<1>6. Sums(f)
  <2>1. ASSUME NEW k \in 0 .. n PROVE f[k] = IF k = 0 THEN 0 ELSE f[k - 1] + CeSize(lens[k])
    <3>1. k = 0 \/ k \in 1 .. n
      BY <1>1
    <3>2. QED
      BY <1>4, <1>5, <3>1, Zenon
  <2>2. QED
    BY <1>4, <2>1, Zenon DEF Sums
<1>7. QED
  BY <1>6

LEMMA TotalSums == ASSUME LensOK PROVE Sums(Total)
<1>1. PICK f : Sums(f)
  BY SumsExist
<1>2. f = [k \in 0 .. Len(lens) |-> IF k = 0 THEN 0 ELSE f[k - 1] + CeSize(lens[k])]
  BY <1>1 DEF Sums
<1> DEFINE sum[k \in 0 .. Len(lens)] == IF k = 0 THEN 0 ELSE sum[k - 1] + CeSize(lens[k])
<1>3. sum = [k \in 0 .. Len(lens) |-> IF k = 0 THEN 0 ELSE sum[k - 1] + CeSize(lens[k])]
  BY <1>2
<1>4. Total = sum
  BY DEF Total
<1> HIDE DEF sum
<1>5. QED
  BY <1>3, <1>4 DEF Sums

\* The entries follow each other, so no two begin at the same place.
LEMMA TotalFacts ==
  ASSUME LensOK
  PROVE  /\ Total[0] = 0
         /\ \A k \in 0 .. Len(lens) : Total[k] \in Nat
         /\ \A k \in 1 .. Len(lens) : Total[k] = Total[k - 1] + CeSize(lens[k])
         /\ \A k \in 0 .. Len(lens), j \in 0 .. Len(lens) : j < k => Total[j] < Total[k]
<1>1. Len(lens) \in Nat /\ Sums(Total)
  BY LensFacts, TotalSums
<1>2. Total[0] = 0
  <2>1. 0 \in 0 .. Len(lens)
    BY <1>1
  <2>2. QED
    BY <1>1, <2>1 DEF Sums
<1>3. ASSUME NEW k \in 1 .. Len(lens) PROVE Total[k] = Total[k - 1] + CeSize(lens[k])
  <2>1. k \in 0 .. Len(lens) /\ k # 0
    BY <1>1
  <2>2. QED
    BY <1>1, <2>1, Zenon DEF Sums
<1> DEFINE Good(k) == Total[k] \in Nat /\ \A j \in 0 .. Len(lens) :
                        j < k => Total[j] \in Nat /\ Total[j] < Total[k]
           T == {k \in 0 .. Len(lens) : Good(k)}
<1>4. 0 \in T
  BY <1>1, <1>2
<1>5. ASSUME NEW k \in 1 .. Len(lens), k - 1 \in T PROVE k \in T
  <2>1. k - 1 \in 0 .. Len(lens) /\ Good(k - 1) /\ k \in 0 .. Len(lens)
    BY <1>1, <1>5
  <2>2. PICK a \in Nat : a = Total[k - 1]
    BY <2>1
  <2>3. PICK z \in Nat : z = CeSize(lens[k]) /\ z > 0
    <3>1. lens[k] \in Nat
      BY LensFacts
    <3>2. CeSize(lens[k]) \in Nat /\ CeSize(lens[k]) > NameOffset + lens[k]
      BY <3>1, CeSizeFacts
    <3>3. QED
      BY <3>1, <3>2 DEF NameOffset
  <2>4. Total[k] = a + z
    BY <1>3, <2>2, <2>3
  <2>5. ASSUME NEW j \in 0 .. Len(lens), j < k PROVE Total[j] \in Nat /\ Total[j] < Total[k]
    <3>1. CASE j = k - 1
      BY <2>2, <2>3, <2>4, <3>1
    <3>2. CASE j < k - 1
      <4>1. Total[j] < a /\ Total[j] \in Nat
        BY <2>1, <2>2, <3>2
      <4>2. QED
        BY <2>3, <2>4, <4>1
    <3>3. QED
      BY <1>1, <2>5, <3>1, <3>2
  <2>6. QED
    BY <2>1, <2>4, <2>5
<1>6. 0 .. Len(lens) \subseteq T
  <2> HIDE DEF T
  <2> QED BY <1>1, <1>4, <1>5, InductionUpTo, LeastNumber
<1>7. QED
  BY <1>2, <1>3, <1>6

-----------------------------------------------------------------------------

\* Where entry k begins.
StartOf(k) == HeaderSize + Total[k - 1]

LayoutTypes ==
  /\ LensOK /\ starts \in Seq(Nat) /\ found \in Seq(Nat)
  /\ phase \in {"header", "entries", "verify", "walk", "loaded", "refused", "died"}
  /\ slot \in 0 .. Len(lens)
  /\ size \in Nat /\ offset \in Nat
  /\ hash.entries \in Nat /\ hash.bytes \in Nat
  /\ hash = [entries |-> hash.entries, bytes |-> hash.bytes]

\* The writer: every entry begins where the one before it ends.
WriterInv ==
  /\ phase = "header" => slot = 0 /\ Len(starts) = 0
  /\ phase # "header" => hash.entries = Len(lens) /\ hash.bytes = Total[Len(lens)]
  /\ phase = "entries" => slot = Len(starts) /\ size = HeaderSize + Total[slot]
  /\ phase \notin {"header", "entries"} => Len(starts) = Len(lens)
  /\ Len(starts) <= Len(lens) /\ \A k \in 1 .. Len(starts) : starts[k] = StartOf(k)

\* The reader: it is where entry slot + 1 begins.
ReaderInv ==
  /\ phase \in {"header", "entries", "verify"} => Len(found) = 0
  /\ phase \in {"walk", "loaded"} =>
       /\ size = HeaderSize + Total[Len(lens)]
       /\ slot = Len(found) /\ offset = HeaderSize + Total[slot]
       /\ \A k \in 1 .. Len(found) : found[k] = lens[k]
  /\ phase = "loaded" => slot = Len(lens)

\* The inductive invariant.
LayoutInv == LayoutTypes /\ WriterInv /\ ReaderInv

LEMMA LayoutInitInv == LayoutInit => LayoutInv
<1> SUFFICES ASSUME LayoutInit PROVE LayoutInv
  OBVIOUS
<1>1. LensOK
  <2>1. PICK n \in 1 .. MaxIndexed : lens \in [1 .. n -> NameLens]
    BY DEF LayoutInit
  <2>2. n \in Nat
    BY LayoutAssumption
  <2>3. NameLens \subseteq Nat
    BY LayoutAssumption
  <2>4. lens \in [1 .. n -> Nat]
    BY <2>1, <2>3
  <2>5. QED
    BY <2>2, <2>4 DEF LensOK
<1>2. Len(lens) \in Nat
  BY <1>1, LensFacts
<1>3. /\ starts = <<>> /\ found = <<>> /\ phase = "header" /\ slot = 0 /\ size = 0 /\ offset = 0
      /\ hash.entries = 0 /\ hash.bytes = 0 /\ hash = [entries |-> 0, bytes |-> 0]
  BY DEF LayoutInit
<1>4. <<>> \in Seq(Nat) /\ Len(<<>>) = 0
  OBVIOUS
<1>5. LayoutTypes
  BY <1>1, <1>2, <1>3, <1>4 DEF LayoutTypes
<1>6. WriterInv /\ ReaderInv
  BY <1>2, <1>3, <1>4 DEF WriterInv, ReaderInv
<1>7. QED
  BY <1>5, <1>6 DEF LayoutInv

\* The steps leave lens alone, and with it Total.
LEMMA SameLens ==
  ASSUME lens' = lens
  PROVE  Total' = Total /\ LensOK' = LensOK /\ \A k : StartOf(k)' = StartOf(k)
BY DEF Total, LensOK, StartOf

LEMMA WriteHeaderInv == ASSUME LayoutInv, WriteHeader PROVE LayoutInv'
<1>1. /\ phase = "header" /\ phase' = "entries" /\ size' = HeaderSize
      /\ hash' = [entries |-> Len(lens), bytes |-> Total[Len(lens)]]
      /\ lens' = lens /\ slot' = slot /\ starts' = starts /\ offset' = offset /\ found' = found
  BY DEF WriteHeader
<1>2. LensOK /\ slot = 0 /\ Len(starts) = 0 /\ Len(found) = 0
  BY <1>1 DEF LayoutInv, LayoutTypes, WriterInv, ReaderInv
<1>3. Len(lens) \in Nat /\ Total[0] = 0 /\ Total[Len(lens)] \in Nat
  <2>1. Len(lens) \in 0 .. Len(lens) /\ Len(lens) \in Nat
    BY <1>2, LensFacts
  <2>2. QED
    BY <1>2, <2>1, TotalFacts
<1>4. hash'.entries = Len(lens) /\ hash'.bytes = Total[Len(lens)]
  BY <1>1
<1>5. LayoutTypes'
  BY <1>1, <1>3, <1>4, SameLens DEF LayoutInv, LayoutTypes, HeaderSize
<1>6. WriterInv'
  <2>1. size' = HeaderSize + Total[slot']
    BY <1>1, <1>2, <1>3 DEF HeaderSize
  <2>2. QED
    BY <1>1, <1>2, <1>3, <1>4, <2>1, SameLens DEF WriterInv
<1>7. ReaderInv'
  BY <1>1, <1>2 DEF ReaderInv
<1>8. QED
  BY <1>5, <1>6, <1>7 DEF LayoutInv

LEMMA WriteEntryInv == ASSUME LayoutInv, WriteEntry PROVE LayoutInv'
<1>1. /\ phase = "entries" /\ phase' = phase /\ slot < Len(lens) /\ slot' = slot + 1
      /\ starts' = Append(starts, size) /\ size' = size + CeSize(lens[slot + 1])
      /\ lens' = lens /\ hash' = hash /\ offset' = offset /\ found' = found
  BY DEF WriteEntry
<1>2. /\ LensOK /\ starts \in Seq(Nat) /\ slot \in 0 .. Len(lens) /\ size \in Nat
      /\ slot = Len(starts) /\ size = HeaderSize + Total[slot]
      /\ \A k \in 1 .. Len(starts) : starts[k] = StartOf(k)
  BY <1>1 DEF LayoutInv, LayoutTypes, WriterInv
<1>3. Len(lens) \in Nat /\ slot + 1 \in 1 .. Len(lens) /\ slot \in Nat
  BY <1>1, <1>2, LensFacts
<1>4. /\ starts' \in Seq(Nat) /\ Len(starts') = slot + 1 /\ starts'[slot + 1] = size
      /\ \A k \in 1 .. slot : starts'[k] = starts[k]
  BY <1>1, <1>2, <1>3
<1>5. size' = HeaderSize + Total[slot + 1] /\ size' \in Nat
  <2>1. PICK z \in Nat : z = CeSize(lens[slot + 1])
    BY <1>2, <1>3, LensFacts
  <2>2. slot + 1 - 1 = slot
    BY <1>3
  <2>3. PICK a \in Nat : a = Total[slot]
    BY <1>2, TotalFacts
  <2>4. Total[slot + 1] = a + z
    BY <1>2, <1>3, <2>1, <2>2, <2>3, TotalFacts
  <2>5. size = 32 + a
    BY <1>2, <2>3 DEF HeaderSize
  <2>6. size' = size + z
    BY <1>1, <2>1
  <2>7. size' = 32 + (a + z) /\ size' \in Nat
    BY <2>5, <2>6
  <2>8. QED
    BY <2>4, <2>7 DEF HeaderSize
<1>6. ASSUME NEW k \in 1 .. Len(starts') PROVE starts'[k] = StartOf(k)
  <2>1. CASE k = slot + 1
    <3>1. k - 1 = slot
      BY <1>3, <2>1
    <3>2. QED
      BY <1>2, <1>4, <2>1, <3>1 DEF StartOf
  <2>2. CASE k # slot + 1
    <3>1. k \in 1 .. slot
      BY <1>3, <1>4, <2>2
    <3>2. QED
      BY <1>2, <1>4, <3>1
  <2>3. QED
    BY <2>1, <2>2
<1>7. slot' \in 0 .. Len(lens)
  BY <1>1, <1>3
<1>8. LayoutTypes'
  BY <1>1, <1>4, <1>5, <1>7, SameLens DEF LayoutInv, LayoutTypes
<1>9. WriterInv'
  <2>1. Len(starts') <= Len(lens)
    BY <1>3, <1>4
  <2>2. QED
    BY <1>1, <1>4, <1>5, <1>6, <2>1, SameLens DEF LayoutInv, WriterInv
<1>10. ReaderInv'
  BY <1>1 DEF LayoutInv, ReaderInv
<1>11. QED
  BY <1>8, <1>9, <1>10 DEF LayoutInv

LEMMA WrittenInv == ASSUME LayoutInv, Written PROVE LayoutInv'
<1>1. /\ phase = "entries" /\ slot = Len(lens) /\ phase' = "verify" /\ lens' = lens /\ slot' = slot
      /\ starts' = starts /\ hash' = hash /\ offset' = offset /\ found' = found
  BY DEF Written
<1>2. size' \in Nat
  <2>1. PICK cut \in {0} \cup Cuts : cut <= size /\ size' = size - cut
    BY DEF Written
  <2>2. cut \in Nat /\ size \in Nat
    BY <2>1, LayoutAssumption DEF LayoutInv, LayoutTypes
  <2>3. QED
    BY <2>1, <2>2 DEF HeaderSize
<1>3. LayoutTypes'
  BY <1>1, <1>2, SameLens DEF LayoutInv, LayoutTypes
<1>4. WriterInv'
  BY <1>1, SameLens DEF LayoutInv, WriterInv
<1>5. ReaderInv'
  BY <1>1 DEF LayoutInv, ReaderInv
<1>6. QED
  BY <1>3, <1>4, <1>5 DEF LayoutInv

LEMMA VerifyInv == ASSUME LayoutInv, Verify PROVE LayoutInv'
<1>1. /\ phase = "verify" /\ phase' = (IF HashMatches THEN "walk" ELSE "refused")
      /\ offset' = HeaderSize /\ slot' = 0
      /\ lens' = lens /\ starts' = starts /\ hash' = hash /\ size' = size /\ found' = found
  BY DEF Verify
<1>2. LensOK /\ Len(found) = 0 /\ size \in Nat /\ hash.bytes = Total[Len(lens)]
  BY <1>1 DEF LayoutInv, LayoutTypes, WriterInv, ReaderInv
<1>3. Total[0] = 0 /\ Len(lens) \in Nat /\ Total[Len(lens)] \in Nat
  <2>1. Len(lens) \in 0 .. Len(lens) /\ Len(lens) \in Nat
    BY <1>2, LensFacts
  <2>2. QED
    BY <1>2, <2>1, TotalFacts
<1>4. LayoutTypes'
  BY <1>1, <1>3, SameLens DEF LayoutInv, LayoutTypes, HeaderSize
<1>5. WriterInv'
  BY <1>1, SameLens DEF LayoutInv, WriterInv
<1>6. HashMatches => size = HeaderSize + Total[Len(lens)]
  <2> SUFFICES ASSUME HashMatches PROVE size = HeaderSize + Total[Len(lens)]
    OBVIOUS
  <2>1. hash.bytes = size - HeaderSize
    BY DEF HashMatches
  <2>2. QED
    BY <1>2, <1>3, <2>1 DEF HeaderSize
<1>7. ReaderInv'
  <2>1. phase' = "walk" => size' = HeaderSize + Total[Len(lens)]
    BY <1>1, <1>6
  <2>2. offset' = HeaderSize + Total[slot']
    BY <1>1, <1>3 DEF HeaderSize
  <2>3. phase' \in {"walk", "refused"}
    BY <1>1
  <2>4. QED
    BY <1>1, <1>2, <2>1, <2>2, <2>3, SameLens DEF ReaderInv
<1>8. QED
  BY <1>4, <1>5, <1>7 DEF LayoutInv

\* The reader finds the length the writer put there.
LEMMA NameLenFound ==
  ASSUME LayoutInv, phase = "walk", slot < Len(lens)
  PROVE  NameLenAt(offset) = lens[slot + 1] /\ slot + 1 \in 1 .. Len(lens) /\ slot \in Nat
<1>1. /\ LensOK /\ slot \in 0 .. Len(lens) /\ Len(starts) = Len(lens)
      /\ offset = HeaderSize + Total[slot]
      /\ \A k \in 1 .. Len(starts) : starts[k] = StartOf(k)
  BY DEF LayoutInv, LayoutTypes, WriterInv, ReaderInv
<1>2. Len(lens) \in Nat /\ slot \in Nat /\ slot + 1 \in 1 .. Len(lens)
  BY <1>1, LensFacts
<1>3. starts[slot + 1] = offset
  <2>1. slot + 1 - 1 = slot
    BY <1>2
  <2>2. QED
    BY <1>1, <1>2, <2>1 DEF StartOf
<1>4. ASSUME NEW k \in 1 .. Len(starts), starts[k] = offset PROVE k = slot + 1
  <2>1. HeaderSize + Total[k - 1] = HeaderSize + Total[slot]
    BY <1>1, <1>4 DEF StartOf
  <2>2. k - 1 \in 0 .. Len(lens) /\ slot \in 0 .. Len(lens)
    BY <1>1, <1>2
  <2>3. /\ Total[k - 1] \in Nat /\ Total[slot] \in Nat
        /\ k - 1 < slot => Total[k - 1] < Total[slot]
        /\ slot < k - 1 => Total[slot] < Total[k - 1]
    BY <1>1, <2>2, TotalFacts
  <2>4. Total[k - 1] = Total[slot]
    BY <2>1, <2>3 DEF HeaderSize
  <2>5. QED
    BY <1>2, <2>2, <2>3, <2>4
<1>5. (CHOOSE k \in 1 .. Len(starts) : starts[k] = offset) = slot + 1
  BY <1>1, <1>2, <1>3, <1>4
<1>6. QED
  BY <1>1, <1>2, <1>3, <1>5 DEF NameLenAt

LEMMA WalkInv == ASSUME LayoutInv, Walk PROVE LayoutInv'
<1>1. /\ phase = "walk" /\ phase' = phase /\ slot < hash.entries /\ slot' = slot + 1
      /\ found' = Append(found, NameLenAt(offset)) /\ offset' = offset + CeSize(NameLenAt(offset))
      /\ lens' = lens /\ starts' = starts /\ size' = size /\ hash' = hash
  BY DEF Walk
<1>2. /\ LensOK /\ found \in Seq(Nat) /\ slot = Len(found) /\ offset = HeaderSize + Total[slot]
      /\ (\A k \in 1 .. Len(found) : found[k] = lens[k]) /\ slot < Len(lens)
      /\ size = HeaderSize + Total[Len(lens)]
  BY <1>1 DEF LayoutInv, LayoutTypes, WriterInv, ReaderInv
<1>3. NameLenAt(offset) = lens[slot + 1] /\ slot + 1 \in 1 .. Len(lens) /\ slot \in Nat
  BY <1>1, <1>2, NameLenFound
<1>4. lens[slot + 1] \in Nat /\ Len(lens) \in Nat
  BY <1>2, <1>3, LensFacts
<1>5. /\ found' \in Seq(Nat) /\ Len(found') = slot + 1 /\ found'[slot + 1] = lens[slot + 1]
      /\ \A k \in 1 .. slot : found'[k] = found[k]
  BY <1>1, <1>2, <1>3, <1>4
<1>6. offset' = HeaderSize + Total[slot + 1] /\ offset' \in Nat
  <2>1. PICK z \in Nat : z = CeSize(lens[slot + 1])
    BY <1>2, <1>3, LensFacts
  <2>2. slot + 1 - 1 = slot /\ slot \in 0 .. Len(lens)
    BY <1>3, <1>4
  <2>3. PICK a \in Nat : a = Total[slot]
    BY <1>2, <2>2, TotalFacts
  <2>4. Total[slot + 1] = a + z
    BY <1>2, <1>3, <2>1, <2>2, <2>3, TotalFacts
  <2>5. offset = 32 + a
    BY <1>2, <2>3 DEF HeaderSize
  <2>6. offset' = offset + z
    BY <1>1, <1>3, <2>1
  <2>7. offset' = 32 + (a + z) /\ offset' \in Nat
    BY <2>5, <2>6
  <2>8. QED
    BY <2>4, <2>7 DEF HeaderSize
<1>7. \A k \in 1 .. Len(found') : found'[k] = lens[k]
  <2> SUFFICES ASSUME NEW k \in 1 .. Len(found') PROVE found'[k] = lens[k]
    OBVIOUS
  <2>1. k = slot + 1 \/ k \in 1 .. slot
    BY <1>3, <1>5
  <2>2. QED
    BY <1>2, <1>5, <2>1
<1>8. slot' \in 0 .. Len(lens)
  BY <1>1, <1>3, <1>4
<1>9. LayoutTypes'
  BY <1>1, <1>5, <1>6, <1>8, SameLens DEF LayoutInv, LayoutTypes
<1>10. WriterInv'
  BY <1>1, SameLens DEF LayoutInv, WriterInv
<1>11. ReaderInv'
  BY <1>1, <1>2, <1>5, <1>6, <1>7, SameLens DEF ReaderInv
<1>12. QED
  BY <1>9, <1>10, <1>11 DEF LayoutInv

LEMMA LayoutNextInv == LayoutInv /\ [LayoutNext]_layout => LayoutInv'
<1> SUFFICES ASSUME LayoutInv, [LayoutNext]_layout PROVE LayoutInv'
  OBVIOUS
<1>1. CASE WalkDone
  <2>1. /\ phase = "walk" /\ slot = hash.entries /\ phase' = "loaded" /\ lens' = lens
        /\ slot' = slot /\ starts' = starts /\ size' = size /\ hash' = hash /\ offset' = offset
        /\ found' = found
    BY <1>1 DEF WalkDone
  <2>2. LayoutTypes'
    BY <2>1, SameLens DEF LayoutInv, LayoutTypes
  <2>3. WriterInv'
    BY <2>1, SameLens DEF LayoutInv, WriterInv
  <2>4. slot = Len(lens)
    BY <2>1 DEF LayoutInv, WriterInv
  <2>5. ReaderInv'
    BY <2>1, <2>4, SameLens DEF LayoutInv, ReaderInv
  <2>6. QED
    BY <2>2, <2>3, <2>5 DEF LayoutInv
<1>2. CASE UNCHANGED layout
  BY <1>2, SameLens DEF layout, LayoutInv, LayoutTypes, WriterInv, ReaderInv
<1>3. CASE NotMapped
  <2>1. /\ phase = "verify" /\ phase' = "died" /\ lens' = lens
        /\ slot' = slot /\ starts' = starts /\ size' = size /\ hash' = hash /\ offset' = offset
        /\ found' = found
    BY <1>3 DEF NotMapped
  <2>2. LayoutTypes'
    BY <2>1, SameLens DEF LayoutInv, LayoutTypes
  <2>3. WriterInv'
    BY <2>1, SameLens DEF LayoutInv, WriterInv
  <2>4. ReaderInv'
    BY <2>1 DEF LayoutInv, ReaderInv
  <2>5. QED
    BY <2>2, <2>3, <2>4 DEF LayoutInv
<1>4. QED
  BY <1>1, <1>2, <1>3, WriteHeaderInv, WriteEntryInv, WrittenInv, VerifyInv, WalkInv DEF LayoutNext

\* What LayoutInv says when the walk is over.
LEMMA LayoutInvWalk == LayoutInv => WalkFindsAll
<1> SUFFICES ASSUME LayoutInv, phase = "loaded"
    PROVE  /\ found = lens /\ offset = size
           /\ \A k \in 1 .. Len(starts) :
                starts[k] + NameOffset + lens[k] <
                  (IF k < Len(starts) THEN starts[k + 1] ELSE size)
  BY DEF WalkFindsAll
<1>1. /\ LensOK /\ found \in Seq(Nat) /\ Len(found) = Len(lens) /\ Len(starts) = Len(lens)
      /\ \A k \in 1 .. Len(found) : found[k] = lens[k]
      /\ \A k \in 1 .. Len(starts) : starts[k] = StartOf(k)
      /\ offset = HeaderSize + Total[Len(lens)] /\ size = HeaderSize + Total[Len(lens)]
  BY DEF LayoutInv, LayoutTypes, WriterInv, ReaderInv
<1>2. found = lens
  BY <1>1 DEF LensOK
<1>3. ASSUME NEW k \in 1 .. Len(starts)
      PROVE  starts[k] + NameOffset + lens[k] <
               (IF k < Len(starts) THEN starts[k + 1] ELSE size)
  <2>1. k \in 1 .. Len(lens) /\ Len(lens) \in Nat /\ k - 1 \in 0 .. Len(lens)
    BY <1>1, LensFacts
  <2>2. PICK l \in Nat : l = lens[k]
    BY <1>1, <2>1, LensFacts
  <2>3. PICK z \in Nat : z = CeSize(lens[k]) /\ z > NameOffset + l
    BY <2>2, CeSizeFacts
  <2>4. PICK a \in Nat : a = Total[k - 1]
    BY <1>1, <2>1, TotalFacts
  <2>5. Total[k] = a + z
    BY <1>1, <2>1, <2>3, <2>4, TotalFacts
  <2>6. starts[k] = HeaderSize + a
    BY <1>1, <2>4 DEF StartOf
  <2>7. (IF k < Len(starts) THEN starts[k + 1] ELSE size) = HeaderSize + (a + z)
    <3>1. CASE k < Len(starts)
      <4>1. k + 1 \in 1 .. Len(starts) /\ (k + 1) - 1 = k
        BY <1>1, <2>1, <3>1
      <4>2. starts[k + 1] = HeaderSize + Total[k]
        BY <1>1, <4>1 DEF StartOf
      <4>3. QED
        BY <2>5, <3>1, <4>2
    <3>2. CASE ~(k < Len(starts))
      <4>1. k = Len(lens)
        BY <1>1, <2>1, <3>2
      <4>2. QED
        BY <1>1, <2>5, <3>2, <4>1
    <3>3. QED
      BY <3>1, <3>2
  <2>8. z > 62 + l
    BY <2>3 DEF NameOffset
  <2>9. (32 + a) + 62 + l < 32 + (a + z)
    BY <2>8
  <2>10. QED
    BY <2>2, <2>6, <2>7, <2>9 DEF HeaderSize, NameOffset
<1>4. QED
  BY <1>1, <1>2, <1>3

(***************************************************************************)
(* read_cache finds every entry that write_cache wrote and ends at the end *)
(* of the file, and every name ends before the next entry, for any number  *)
(* of entries and any lengths.                                             *)
(***************************************************************************)
THEOREM WalkFindsEverything == LayoutSpec => []WalkFindsAll
BY LayoutInvWalk, LayoutInitInv, LayoutNextInv, PTL DEF LayoutSpec

\* The entry that the walk reads next ends where the following one begins.
LEMMA LayoutInvInside == LayoutInv => WalkStaysInside
<1> SUFFICES ASSUME LayoutInv, phase = "walk", slot < hash.entries
             PROVE  offset + CeSize(NameLenAt(offset)) <= size
  BY DEF WalkStaysInside
<1>1. /\ LensOK /\ hash.entries = Len(lens) /\ offset = HeaderSize + Total[slot]
      /\ size = HeaderSize + Total[Len(lens)]
  BY DEF LayoutInv, LayoutTypes, WriterInv, ReaderInv
<1>2. slot < Len(lens)
  BY <1>1
<1>3. NameLenAt(offset) = lens[slot + 1] /\ slot + 1 \in 1 .. Len(lens) /\ slot \in Nat
  BY <1>2, NameLenFound
<1>4. Len(lens) \in Nat
  BY <1>1, LensFacts
<1>5. PICK z \in Nat : z = CeSize(lens[slot + 1])
  BY <1>1, <1>3, LensFacts
<1>6. (slot + 1) - 1 = slot /\ slot \in 0 .. Len(lens) /\ slot + 1 \in 0 .. Len(lens)
  BY <1>3, <1>4
<1>7. PICK a \in Nat : a = Total[slot]
  BY <1>1, <1>6, TotalFacts
<1>8. Total[slot + 1] = a + z
  BY <1>1, <1>3, <1>5, <1>6, <1>7, TotalFacts
<1>9. Total[slot + 1] <= Total[Len(lens)]
  <2>1. CASE slot + 1 = Len(lens)
    <3>1. Total[Len(lens)] = a + z
      BY <1>8, <2>1
    <3>2. QED
      BY <1>8, <3>1
  <2>2. CASE slot + 1 < Len(lens)
    <3>1. Len(lens) \in 0 .. Len(lens)
      BY <1>4
    <3>2. Total[slot + 1] < Total[Len(lens)] /\ Total[Len(lens)] \in Nat
      BY <1>1, <1>6, <2>2, <3>1, TotalFacts
    <3>3. QED
      BY <1>8, <3>2
  <2>3. QED
    BY <1>3, <1>4, <2>1, <2>2
<1>10. PICK t \in Nat : t = Total[Len(lens)] /\ a + z <= t
  <2>1. Len(lens) \in 0 .. Len(lens)
    BY <1>4
  <2>2. Total[Len(lens)] \in Nat
    BY <1>1, <2>1, TotalFacts
  <2>3. QED
    BY <1>8, <1>9, <2>2
<1>11. (HeaderSize + a) + z <= HeaderSize + t
  BY <1>10 DEF HeaderSize
<1>12. QED
  BY <1>1, <1>3, <1>5, <1>7, <1>10, <1>11

(***************************************************************************)
(* read_cache reads no byte behind the end of the index it has mapped,     *)
(* for any number of entries, any lengths and a file cut at any byte.  The *)
(* argument: a file that passes verify_hdr has the length of all entries,  *)
(* and the walk stands where the writer put the next one.                  *)
(***************************************************************************)
THEOREM WalkReadsTheFileOnly == LayoutSpec => []WalkStaysInside
BY LayoutInvInside, LayoutInitInv, LayoutNextInv, PTL DEF LayoutSpec

(***************************************************************************)
(* The loop variables of write_cache and read_cache stay within the        *)
(* entries of the index.                                                   *)
(***************************************************************************)
THEOREM LayoutTypesHold == LayoutSpec => []LayoutTypeOK
<1>1. LayoutInv => LayoutTypeOK
  BY DEF LayoutInv, LayoutTypes, LayoutTypeOK, LensOK
<1>2. QED
  BY <1>1, LayoutInitInv, LayoutNextInv, PTL DEF LayoutSpec

-----------------------------------------------------------------------------
\* Object files: the number in the header

\* f is the function of Value.
Reads(f, v, s) == f = [k \in 0 .. Len(s) |-> IF k = 0 THEN v ELSE 10 * f[k - 1] + s[k]]

LEMMA ReadsExist ==
  ASSUME NEW v \in Nat, NEW s \in Seq(Nat)
  PROVE  \E f : Reads(f, v, s)
<1> DEFINE n == Len(s)
           add == [k \in 1 .. n |-> [q \in Nat |-> 10 * q + s[k]]]
<1>1. n \in Nat /\ \A k \in 1 .. n : s[k] \in Nat
  OBVIOUS
<1>2. add \in [1 .. n -> [Nat -> Nat]]
  BY <1>1
<1>3. \A k \in 1 .. n, q \in Nat : add[k][q] = 10 * q + s[k]
  OBVIOUS
<1> HIDE DEF add
<1>4. PICK f : Iterates(f, n, Nat, v, add)
  BY <1>1, <1>2, IteratesExist, LeastNumber, Zenon
<1>5. f \in [0 .. n -> Nat] /\ f[0] = v
  BY <1>4 DEF Iterates
<1>6. ASSUME NEW k \in 1 .. n PROVE f[k] = 10 * f[k - 1] + s[k]
  <2>1. f[k - 1] \in Nat
    <3>1. k - 1 \in 0 .. n
      BY <1>1
    <3>2. QED
      BY <1>5, <3>1, Zenon
  <2>2. f[k] = add[k][f[k - 1]]
    BY <1>4 DEF Iterates
  <2>3. QED
    BY <1>3, <2>1, <2>2
<1>7. Reads(f, v, s)
  <2>1. ASSUME NEW k \in 0 .. n PROVE f[k] = IF k = 0 THEN v ELSE 10 * f[k - 1] + s[k]
    <3>1. k = 0 \/ k \in 1 .. n
      BY <1>1
    <3>2. QED
      BY <1>5, <1>6, <3>1, Zenon
  <2>2. QED
    BY <1>5, <2>1, Zenon DEF Reads
<1>8. QED
  BY <1>7

LEMMA ValueReads ==
  ASSUME NEW v \in Nat, NEW s \in Seq(Nat)
  PROVE  \E f : Reads(f, v, s) /\ Value(v, s) = f[Len(s)]
<1>1. PICK f : Reads(f, v, s)
  BY ReadsExist
<1>2. f = [k \in 0 .. Len(s) |-> IF k = 0 THEN v ELSE 10 * f[k - 1] + s[k]]
  BY <1>1 DEF Reads
<1> DEFINE upTo[k \in 0 .. Len(s)] == IF k = 0 THEN v ELSE 10 * upTo[k - 1] + s[k]
<1>3. upTo = [k \in 0 .. Len(s) |-> IF k = 0 THEN v ELSE 10 * upTo[k - 1] + s[k]]
  BY <1>2
<1>4. Value(v, s) = upTo[Len(s)]
  BY DEF Value
<1> HIDE DEF upTo
<1>5. Reads(upTo, v, s)
  BY <1>3 DEF Reads
<1>6. QED
  BY <1>4, <1>5

\* The same, step by step.
Follows(f, v, s) == f[0] = v /\ \A k \in 1 .. Len(s) : f[k] = 10 * f[k - 1] + s[k]

LEMMA ValueFollows ==
  ASSUME NEW v \in Nat, NEW s \in Seq(Nat)
  PROVE  \E f : Follows(f, v, s) /\ Value(v, s) = f[Len(s)]
<1>1. PICK f : Reads(f, v, s) /\ Value(v, s) = f[Len(s)]
  BY ValueReads
<1>2. Len(s) \in Nat /\ 0 \in 0 .. Len(s)
  OBVIOUS
<1>3. f[0] = v
  BY <1>1, <1>2, Zenon DEF Reads
<1>4. ASSUME NEW k \in 1 .. Len(s) PROVE f[k] = 10 * f[k - 1] + s[k]
  <2>1. k \in 0 .. Len(s) /\ k # 0
    BY <1>2
  <2>2. QED
    BY <1>1, <2>1, Zenon DEF Reads
<1>5. Follows(f, v, s)
  BY <1>3, <1>4 DEF Follows
<1>6. QED
  BY <1>1, <1>5

LEMMA ValueOfNone == ASSUME NEW v \in Nat PROVE Value(v, <<>>) = v
<1>1. <<>> \in Seq(Nat) /\ Len(<<>>) = 0
  OBVIOUS
<1>2. PICK f : Follows(f, v, <<>>) /\ Value(v, <<>>) = f[Len(<<>>)]
  BY <1>1, ValueFollows
<1>3. QED
  BY <1>1, <1>2 DEF Follows

\* A digit put in front of the others.
LEMMA Prepended ==
  ASSUME NEW S, NEW d \in S, NEW s \in Seq(S)
  PROVE  /\ <<d>> \o s \in Seq(S) /\ Len(<<d>> \o s) = Len(s) + 1
         /\ (<<d>> \o s)[1] = d
         /\ \A k \in 1 .. Len(s) : (<<d>> \o s)[k + 1] = s[k]
OBVIOUS

\* Reading the digit in front first is reading the rest behind ten times as much.
LEMMA ValuePrepended ==
  ASSUME NEW v \in Nat, NEW d \in Nat, NEW s \in Seq(Nat)
  PROVE  Value(v, <<d>> \o s) = Value(10 * v + d, s)
<1>1. PICK r : r = <<d>> \o s
  OBVIOUS
<1>2. /\ r \in Seq(Nat) /\ Len(r) = Len(s) + 1 /\ r[1] = d
      /\ \A k \in 1 .. Len(s) : r[k + 1] = s[k]
  BY <1>1, Prepended
<1>3. PICK w \in Nat : w = 10 * v + d
  OBVIOUS
<1>4. PICK f : Follows(f, v, r) /\ Value(v, r) = f[Len(r)]
  BY <1>2, ValueFollows
<1>5. PICK g : Follows(g, w, s) /\ Value(w, s) = g[Len(s)]
  BY <1>3, ValueFollows
<1>6. f[0] = v /\ \A k \in 1 .. Len(r) : f[k] = 10 * f[k - 1] + r[k]
  BY <1>4 DEF Follows
<1>7. g[0] = w /\ \A k \in 1 .. Len(s) : g[k] = 10 * g[k - 1] + s[k]
  BY <1>5 DEF Follows
<1>8. PICK n \in Nat : n = Len(s)
  OBVIOUS
<1> DEFINE T == {k \in 0 .. n : g[k] = f[k + 1]}
<1>9. 0 \in T
  <2>1. 1 \in 1 .. Len(r)
    BY <1>2, <1>8
  <2>2. f[1] = 10 * v + d
    BY <1>2, <1>6, <2>1
  <2>3. QED
    BY <1>3, <1>7, <2>2
<1>10. ASSUME NEW k \in 1 .. n, k - 1 \in T PROVE k \in T
  <2>1. g[k - 1] = f[(k - 1) + 1] /\ (k - 1) + 1 = k
    BY <1>10
  <2>2. k \in 1 .. Len(s) /\ k + 1 \in 1 .. Len(r) /\ (k + 1) - 1 = k
    BY <1>2, <1>8
  <2>3. g[k] = 10 * g[k - 1] + s[k]
    BY <1>7, <2>2
  <2>4. f[k + 1] = 10 * f[k] + r[k + 1]
    BY <1>6, <2>2
  <2>5. r[k + 1] = s[k]
    BY <1>2, <2>2
  <2>6. g[k] = f[k + 1]
    BY <2>1, <2>3, <2>4, <2>5
  <2>7. QED
    BY <2>6
<1> HIDE DEF T
<1>11. 0 .. n \subseteq T
  BY <1>9, <1>10, InductionUpTo, LeastNumber
<1>12. g[n] = f[n + 1]
  BY <1>11 DEF T
<1>13. QED
  BY <1>1, <1>2, <1>3, <1>4, <1>5, <1>8, <1>12

-----------------------------------------------------------------------------
\* Object files: the buffers and the reader

Digit == 0 .. 9

ObjectTypes ==
  /\ kind \in {"tree", "commit"}
  /\ step \in {"body", "digits", "tag", "write", "open", "inflate", "unpack", "end"}
  /\ count \in 0 .. MaxEntries
  /\ entries \in Seq(Nat) /\ listed \in Seq(Nat) /\ digits \in Seq(Digit)
  /\ used \in Nat /\ alloc \in Nat /\ val \in Nat /\ head \in Int
  /\ file \in Nat /\ bytes \in Nat /\ rest \in Nat
  /\ got \in {"none", "null", "garbage", "buf"}

\* What an entry takes at most, and the largest body.
EntryMax == 4128
BodyMax  == 2100 * 1000 * 1000

\* The buffer of a tree is large enough; that of a commit is the one of
\* init_buffer, or the size in use rounded up.
BufferInv ==
  /\ used >= OrigOffset /\ used - OrigOffset <= BodyMax
  /\ kind = "tree" => /\ used <= alloc /\ Len(entries) <= count
                      /\ used - OrigOffset <= EntryMax * Len(entries)
  /\ kind = "commit" => \/ alloc = Blocking /\ used <= Round
                        \/ alloc = RoundUp(used) /\ used <= alloc

\* What is left to print when n digits are there.
Left(n) ==
  CASE n = 0 -> 10 * 1000 * 1000 * 1000
    [] n = 1 -> 1000 * 1000 * 1000
    [] n = 2 -> 100 * 1000 * 1000
    [] n = 3 -> 10 * 1000 * 1000
    [] n = 4 -> 1000 * 1000
    [] n = 5 -> 100 * 1000
    [] n = 6 -> 10 * 1000
    [] n = 7 -> 1000
    [] n = 8 -> 100
    [] n = 9 -> 10
    [] OTHER -> 1

\* The digits printed, read behind what is left to print, are the length.
HeaderInv ==
  /\ step = "body" => digits = <<>> /\ head = OrigOffset
  /\ step = "digits" => /\ Len(digits) <= 9 /\ head = OrigOffset - 1 - Len(digits)
                        /\ val > 0 /\ val < Left(Len(digits)) /\ Value(val, digits) = Body
  /\ step \notin {"body", "digits"} =>
       /\ Len(digits) \in 1 .. 10 /\ digits[1] # 0 /\ Value(0, digits) = Body
       /\ head = OrigOffset - 1 - Len(digits) - (IF step = "tag" THEN 0 ELSE TagLen)

\* The reader has the body, or as much of it as the file or the buffer holds.
ReadInv ==
  /\ step \in {"body", "digits", "tag", "write", "open", "inflate"} => got = "none"
  /\ step = "inflate" => file >= HeaderLen /\ bytes = Min2(file, InflateSize) - HeaderLen
  /\ step = "unpack" => kind = "tree" /\ got = "buf" /\ file = ObjectLen /\ bytes = Body
  /\ step = "end" /\ file = ObjectLen => got = "buf" /\ bytes = Body

\* f[k]: the bytes of the first k of n entries.
Running(f, n, es) ==
  /\ f \in [0 .. n -> Nat] /\ f[0] = 0
  /\ \A k \in 1 .. n : f[k] = f[k - 1] + (es[k] + HashLen)
  /\ \A k \in 0 .. n : f[k] <= f[n]

EntrySums(f) ==
  /\ Running(f, Len(entries), entries)
  /\ kind = "tree" => Body = f[Len(entries)]
  /\ step = "unpack" => rest = Body - f[Len(listed)]

\* unpack stands where the next entry begins.
ListInv ==
  /\ Len(listed) <= Len(entries) /\ \A k \in 1 .. Len(listed) : listed[k] = entries[k]
  /\ step \notin {"unpack", "end"} => Len(listed) = 0
  /\ kind = "tree" /\ step = "end" /\ file = ObjectLen => Len(listed) = Len(entries)
  /\ \E f : EntrySums(f)

\* The inductive invariant.
ObjectInv == ObjectTypes /\ BufferInv /\ HeaderInv /\ ReadInv /\ ListInv

LEMMA ObjectInitInv == ObjectInit => ObjectInv
<1> SUFFICES ASSUME ObjectInit PROVE ObjectInv
  OBVIOUS
<1>1. /\ step = "body" /\ entries = <<>> /\ listed = <<>> /\ used = 40 /\ val = 0 /\ head = 40
      /\ digits = <<>> /\ file = 0 /\ bytes = 0 /\ got = "none" /\ rest = 0
  BY DEF ObjectInit, OrigOffset
<1>2. \/ kind = "tree" /\ count \in 1 .. MaxEntries /\ alloc = count * 40 + 400
      \/ kind = "commit" /\ count = 0 /\ alloc = 16 * 1024
  BY DEF ObjectInit, Blocking
<1>3. MaxEntries \in Nat
  BY ObjectFileAssumption
<1>4. /\ <<>> \in Seq(Nat) /\ <<>> \in Seq(Digit) /\ Len(<<>>) = 0
  OBVIOUS
<1>5. count \in 0 .. MaxEntries /\ alloc \in Nat /\ kind \in {"tree", "commit"}
  BY <1>2, <1>3
<1>6. ObjectTypes
  BY <1>1, <1>4, <1>5 DEF ObjectTypes
<1>7. BufferInv
  <2>1. 40 <= alloc
    BY <1>2, <1>3
  <2>2. QED
    BY <1>1, <1>2, <1>3, <1>4, <1>5, <2>1
    DEF BufferInv, OrigOffset, BodyMax, EntryMax, Blocking, Round
<1>8. HeaderInv /\ ReadInv
  BY <1>1 DEF HeaderInv, ReadInv, OrigOffset
<1>9. ListInv
  <2> DEFINE f == [k \in 0 .. 0 |-> 0]
  <2>1. /\ f \in [0 .. 0 -> Nat] /\ f[0] = 0 /\ \A k \in 0 .. 0 : f[k] <= f[0]
    OBVIOUS
  <2> HIDE DEF f
  <2>2. \A k \in 1 .. 0 : FALSE
    OBVIOUS
  <2>3. Body = 0
    BY <1>1 DEF Body, OrigOffset
  <2>4. EntrySums(f)
    BY <1>1, <1>4, <2>1, <2>2, <2>3 DEF EntrySums, Running
  <2>5. QED
    BY <1>1, <1>4, <2>2, <2>4 DEF ListInv
<1>10. QED
  BY <1>6, <1>7, <1>8, <1>9 DEF ObjectInv

\* What the steps behind the body leave alone.
LEMMA SameBuffer ==
  ASSUME UNCHANGED building
  PROVE  /\ kind' = kind /\ count' = count /\ entries' = entries /\ used' = used /\ alloc' = alloc
         /\ Body' = Body /\ TagLen' = TagLen /\ BufferInv' = BufferInv
BY DEF building, Body, TagLen, BufferInv, RoundUp

LEMMA SameHeader ==
  ASSUME UNCHANGED building, UNCHANGED header
  PROVE  /\ val' = val /\ head' = head /\ digits' = digits
         /\ HeaderLen' = HeaderLen /\ ObjectLen' = ObjectLen /\ Size' = Size
BY DEF building, header, HeaderLen, ObjectLen, Size, Value, TagLen

\* A longer tree.
LEMMA SumsLonger ==
  ASSUME NEW n \in Nat, NEW es, NEW f, Running(f, n, es),
         NEW len \in Nat, NEW ls, ls[n + 1] = len, \A k \in 1 .. n : ls[k] = es[k]
  PROVE  \E g : Running(g, n + 1, ls) /\ g[n + 1] = f[n] + len + HashLen
<1> USE DEF Running
<1>1. n \in 0 .. n /\ \A k \in 0 .. n : f[k] \in Nat
  OBVIOUS
<1>2. PICK a \in Nat : a = f[n]
  BY <1>1
<1> DEFINE g == [k \in 0 .. n + 1 |-> IF k = n + 1 THEN a + len + HashLen ELSE f[k]]
<1>3. \A k \in 0 .. n : g[k] = f[k] /\ f[k] \in Nat
  BY <1>1
<1>4. g[n + 1] = a + len + HashLen /\ a + len + HashLen \in Nat
  BY DEF HashLen
<1>5. g \in [0 .. n + 1 -> Nat]
  <2>1. ASSUME NEW k \in 0 .. n + 1 PROVE g[k] \in Nat
    <3>1. k = n + 1 \/ k \in 0 .. n
      OBVIOUS
    <3>2. QED
      BY <1>3, <1>4, <3>1
  <2>2. QED
    BY <2>1
<1> HIDE DEF g
<1>6. ASSUME NEW k \in 1 .. n + 1 PROVE g[k] = g[k - 1] + (ls[k] + HashLen)
  <2>1. CASE k = n + 1
    <3>1. k - 1 = n /\ n \in 0 .. n /\ ls[k] = len
      BY <1>1, <2>1
    <3>2. g[k - 1] = a
      BY <1>2, <1>3, <3>1
    <3>3. QED
      BY <1>4, <2>1, <3>1, <3>2 DEF HashLen
  <2>2. CASE k # n + 1
    <3>1. k \in 1 .. n /\ k \in 0 .. n /\ k - 1 \in 0 .. n
      BY <2>2
    <3>2. f[k] = f[k - 1] + (es[k] + HashLen) /\ ls[k] = es[k]
      BY <1>1, <3>1
    <3>3. g[k] = f[k] /\ g[k - 1] = f[k - 1]
      BY <1>3, <3>1
    <3>4. QED
      BY <3>2, <3>3
  <2>3. QED
    BY <2>1, <2>2
<1>7. ASSUME NEW k \in 0 .. n + 1 PROVE g[k] <= g[n + 1]
  <2>1. CASE k = n + 1
    BY <1>4, <2>1
  <2>2. CASE k # n + 1
    <3>1. k \in 0 .. n
      BY <2>2
    <3>2. f[k] <= a
      BY <1>1, <1>2, <3>1
    <3>3. QED
      BY <1>3, <1>4, <3>1, <3>2 DEF HashLen
  <2>3. QED
    BY <2>1, <2>2
<1>8. g[0] = 0
  BY <1>3
<1>9. g[n + 1] = f[n] + len + HashLen
  BY <1>2, <1>4
<1>10. QED
  BY <1>5, <1>6, <1>7, <1>8, <1>9, Zenon

LEMMA WriteTreeEntryInv == ASSUME ObjectInv, WriteTreeEntry PROVE ObjectInv'
<1>1. PICK e \in EntryTexts : /\ alloc' = TreeAlloc(e.name)
                              /\ used' = used + TextLen(e) + HashLen
                              /\ entries' = Append(entries, TextLen(e))
  BY DEF WriteTreeEntry
<1>2. /\ step = "body" /\ kind = "tree" /\ Len(entries) < count /\ kind' = kind /\ step' = step
      /\ count' = count /\ val' = val /\ head' = head /\ digits' = digits
      /\ file' = file /\ bytes' = bytes /\ got' = got /\ rest' = rest /\ listed' = listed
  BY DEF WriteTreeEntry, header, reading
<1>3. PICK mode \in 1 .. 11 : mode = e.mode
  <2>1. e.mode \in 1 .. 11
    BY TextLengthsAssumption
  <2>2. QED
    BY <2>1, Zenon
<1>3a. PICK nm \in 1 .. NameMax : nm = e.name
  <2>1. e.name \in 1 .. NameMax
    BY TextLengthsAssumption
  <2>2. QED
    BY <2>1, Zenon
<1>3b. nm \in Nat /\ nm <= 4095
  BY DEF NameMax
<1>4. PICK len \in Nat : len = mode + 1 + nm + 1
  BY <1>3b
<1>4a. len = TextLen(e)
  BY <1>3, <1>3a, <1>4 DEF TextLen
<1>4b. len <= nm + 13
  BY <1>3b, <1>4
<1>5. /\ used \in Nat /\ alloc \in Nat /\ entries \in Seq(Nat) /\ count \in 0 .. MaxEntries
  BY DEF ObjectInv, ObjectTypes
<1>6. /\ used >= 40 /\ used <= alloc /\ used - 40 <= 4128 * Len(entries)
  BY <1>2 DEF ObjectInv, BufferInv, OrigOffset, EntryMax
<1>7. /\ entries' \in Seq(Nat) /\ Len(entries') = Len(entries) + 1 /\ Len(entries) \in Nat
      /\ entries'[Len(entries) + 1] = len /\ \A k \in 1 .. Len(entries) : entries'[k] = entries[k]
  BY <1>1, <1>4a, <1>5
<1>8. used' = used + len + 20 /\ used' \in Nat /\ used' >= 40
  <2>1. used' = used + len + 20
    BY <1>1, <1>4a DEF HashLen
  <2>2. QED
    BY <1>5, <1>6, <2>1
<1>9. alloc' \in Nat /\ used' <= alloc'
  <2>1. PICK m \in Nat : m = used + nm + 60
    BY <1>3b, <1>5
  <2>2. alloc' = IF m > alloc THEN ((m + 16) * 3) \div 2 ELSE alloc
    BY <1>1, <1>3a, <2>1 DEF TreeAlloc
  <2>3. used' <= m
    BY <1>3b, <1>4b, <1>5, <1>8, <2>1
  <2>4. ((m + 16) * 3) \div 2 \in Nat /\ m <= ((m + 16) * 3) \div 2
    OBVIOUS
  <2>5. QED
    BY <1>5, <1>8, <2>2, <2>3, <2>4
<1>10. /\ Len(entries') <= count /\ used' - 40 <= 4128 * Len(entries') /\ used' - 40 <= BodyMax
  <2>1. PICK n \in Nat : n = Len(entries)
    BY <1>7
  <2>2. count \in Nat /\ count <= 500 * 1000
    BY <1>5, ObjectFileAssumption
  <2>3. used' - 40 <= 4128 * (n + 1) /\ n + 1 <= count
    <3>1. n < count /\ used - 40 <= 4128 * n
      BY <1>2, <1>6, <2>1
    <3>2. used' = used + len + 20 /\ used \in Nat
      BY <1>5, <1>8
    <3>3. len <= 4108
      BY <1>3b, <1>4b
    <3>4. used' - 40 <= 4128 * n + 4128
      BY <3>1, <3>2, <3>3
    <3>5. QED
      BY <2>2, <3>1, <3>4
  <2>4. used' - 40 <= BodyMax
    BY <1>8, <2>2, <2>3 DEF BodyMax
  <2>5. QED
    BY <1>7, <2>1, <2>3, <2>4
<1>11. ObjectTypes'
  BY <1>2, <1>7, <1>8, <1>9 DEF ObjectInv, ObjectTypes
<1>12. BufferInv'
  BY <1>2, <1>8, <1>9, <1>10 DEF BufferInv, OrigOffset, EntryMax
<1>13. HeaderInv' /\ ReadInv'
  BY <1>2 DEF ObjectInv, HeaderInv, ReadInv
<1>14. ListInv'
  <2>1. PICK f : EntrySums(f)
    BY DEF ObjectInv, ListInv
  <2> DEFINE n == Len(entries)
  <2>2. Running(f, n, entries) /\ Body = f[n]
    BY <1>2, <2>1 DEF EntrySums
  <2>3. PICK g : Running(g, n + 1, entries') /\ g[n + 1] = f[n] + len + HashLen
    <3> HIDE DEF n
    <3>1. n \in Nat /\ entries'[n + 1] = len /\ \A k \in 1 .. n : entries'[k] = entries[k]
      BY <1>7 DEF n
    <3>2. QED
      BY <2>2, <3>1, SumsLonger
  <2>4. Body' = g[n + 1]
    <3>1. used - 40 = f[n]
      BY <2>2 DEF Body, OrigOffset
    <3>2. g[n + 1] = (used - 40) + len + 20
      BY <2>3, <3>1 DEF HashLen
    <3>3. QED
      BY <1>5, <1>8, <3>2 DEF Body, OrigOffset
  <2>5. EntrySums(g)'
    BY <1>2, <1>7, <2>3, <2>4 DEF EntrySums
  <2>6. Len(listed) = 0 /\ \A k \in 1 .. 0 : FALSE
    BY <1>2 DEF ObjectInv, ListInv
  <2>7. QED
    BY <1>2, <1>7, <2>5, <2>6 DEF ListInv
<1>15. QED
  BY <1>11, <1>12, <1>13, <1>14 DEF ObjectInv

\* Rounding up.
LEMMA RoundUpFacts ==
  ASSUME NEW n \in Nat, NEW m \in Nat
  PROVE  /\ RoundUp(n) \in Nat /\ n <= RoundUp(n)
         /\ n <= m /\ m <= RoundUp(n) => RoundUp(m) = RoundUp(n)
         /\ 0 < n /\ n <= 32 * 1024 => RoundUp(n) = 32 * 1024
<1>1. \A k : RoundUp(k) = ((k + 32 * 1024 - 1) \div (32 * 1024)) * (32 * 1024)
  <2>1. ASSUME NEW k PROVE RoundUp(k) = ((k + 32 * 1024 - 1) \div (32 * 1024)) * (32 * 1024)
    BY DEF RoundUp, Round
  <2>2. QED
    BY <2>1
<1>2. QED
  BY <1>1

LEMMA AddBufferInv == ASSUME ObjectInv, AddBuffer PROVE ObjectInv'
<1>1. PICK len \in LineLengths : /\ used + len <= MaxText /\ alloc' = CommitAlloc(len)
                                 /\ used' = used + len
  BY DEF AddBuffer
<1>2. /\ step = "body" /\ kind = "commit" /\ kind' = kind /\ step' = step /\ entries' = entries
      /\ count' = count /\ val' = val /\ head' = head /\ digits' = digits
      /\ file' = file /\ bytes' = bytes /\ got' = got /\ rest' = rest /\ listed' = listed
  BY DEF AddBuffer, header, reading
<1>3. len \in Nat /\ len > 0 /\ MaxText \in Nat /\ MaxText <= BodyMax
  BY TextLengthsAssumption, ObjectFileAssumption DEF BodyMax
<1>4. used \in Nat /\ alloc \in Nat /\ entries \in Seq(Nat)
  BY DEF ObjectInv, ObjectTypes
<1>5. /\ used >= 40
      /\ \/ alloc = 16 * 1024 /\ used <= 32 * 1024
         \/ alloc = RoundUp(used) /\ used <= alloc
  BY <1>2 DEF ObjectInv, BufferInv, OrigOffset, Blocking, Round
<1>6. used' \in Nat /\ used' >= 40 /\ used' - 40 <= BodyMax /\ used <= used'
  BY <1>1, <1>3, <1>4, <1>5 DEF BodyMax
<1>7. alloc' = IF used' > RoundUp(used) THEN RoundUp(used') ELSE alloc
  BY <1>1 DEF CommitAlloc
<1>8. /\ alloc' \in Nat
      /\ \/ alloc' = 16 * 1024 /\ used' <= 32 * 1024
         \/ alloc' = RoundUp(used') /\ used' <= alloc'
  <2>1. /\ RoundUp(used) \in Nat /\ RoundUp(used') \in Nat /\ used' <= RoundUp(used')
        /\ used' <= RoundUp(used) => RoundUp(used') = RoundUp(used)
        /\ used <= 32 * 1024 => RoundUp(used) = 32 * 1024
    <3>1. 0 < used
      BY <1>4, <1>5
    <3>2. QED
      BY <1>4, <1>6, <3>1, RoundUpFacts
  <2>2. CASE used' > RoundUp(used)
    BY <1>7, <2>1, <2>2
  <2>3. CASE ~(used' > RoundUp(used))
    <3>1. alloc' = alloc /\ used' <= RoundUp(used)
      BY <1>6, <1>7, <2>1, <2>3
    <3>2. QED
      BY <1>4, <1>5, <2>1, <3>1
  <2>4. QED
    BY <2>2, <2>3
<1>9. ObjectTypes'
  BY <1>2, <1>6, <1>8 DEF ObjectInv, ObjectTypes
<1>10. BufferInv'
  BY <1>2, <1>6, <1>8 DEF BufferInv, OrigOffset, Blocking, Round
<1>11. HeaderInv' /\ ReadInv'
  BY <1>2 DEF ObjectInv, HeaderInv, ReadInv
<1>12. ListInv'
  <2>1. PICK f : EntrySums(f)
    BY DEF ObjectInv, ListInv
  <2>2. EntrySums(f)'
    BY <1>2, <2>1 DEF EntrySums
  <2>3. QED
    BY <1>2, <2>2 DEF ObjectInv, ListInv
<1>13. QED
  BY <1>9, <1>10, <1>11, <1>12 DEF ObjectInv

LEMMA BeginHeaderInv == ASSUME ObjectInv, BeginHeader PROVE ObjectInv'
<1>1. /\ step = "body" /\ used > OrigOffset /\ val' = Body /\ head' = OrigOffset - 1
      /\ step' = "digits" /\ digits' = digits /\ UNCHANGED building
      /\ file' = file /\ bytes' = bytes /\ got' = got /\ rest' = rest /\ listed' = listed
  BY DEF BeginHeader, reading
<1>2. /\ kind' = kind /\ count' = count /\ entries' = entries /\ used' = used /\ alloc' = alloc
      /\ Body' = Body /\ BufferInv'
  BY <1>1, SameBuffer DEF ObjectInv
<1>3. used \in Nat /\ used - 40 <= BodyMax /\ digits = <<>> /\ got = "none"
  BY <1>1 DEF ObjectInv, ObjectTypes, BufferInv, HeaderInv, ReadInv, OrigOffset
<1>4. val' = used - 40 /\ head' = 39 /\ used > 40
  BY <1>1 DEF Body, OrigOffset
<1>5. val' \in Nat /\ val' > 0 /\ val' < Left(0)
  BY <1>3, <1>4 DEF BodyMax, Left
<1>6. ObjectTypes'
  BY <1>1, <1>2, <1>4, <1>5 DEF ObjectInv, ObjectTypes
<1>7. HeaderInv'
  <2>1. digits' = <<>> /\ Len(<<>>) = 0
    BY <1>1, <1>3
  <2>2. Value(val', <<>>) = Body'
    BY <1>1, <1>2, <1>5, ValueOfNone
  <2>3. QED
    BY <1>1, <1>4, <1>5, <2>1, <2>2 DEF HeaderInv, OrigOffset
<1>8. ReadInv'
  BY <1>1, <1>3 DEF ReadInv
<1>9. ListInv'
  BY <1>1, <1>2 DEF ObjectInv, ListInv, EntrySums
<1>10. QED
  BY <1>2, <1>6, <1>7, <1>8, <1>9 DEF ObjectInv

\* One digit less is left to print.
LEMMA LeftLess ==
  ASSUME NEW v \in Nat, NEW n \in Nat, n <= 9, v < Left(n)
  PROVE  /\ v \div 10 \in Nat /\ v % 10 \in 0 .. 9 /\ 10 * (v \div 10) + (v % 10) = v
         /\ v \div 10 < Left(n + 1) /\ (n = 9 => v \div 10 = 0)
<1>1. v \div 10 \in Nat /\ v % 10 \in 0 .. 9 /\ 10 * (v \div 10) + (v % 10) = v
  OBVIOUS
<1>2. n \in {0, 1, 2, 3, 4, 5, 6, 7, 8, 9}
  OBVIOUS
<1>3. Left(n) = 10 * Left(n + 1)
  BY <1>2 DEF Left
<1>4. Left(n + 1) \in Nat /\ (n = 9 => Left(n + 1) = 1)
  BY <1>2 DEF Left
<1>5. QED
  BY <1>1, <1>3, <1>4

LEMMA PrependDigitInv == ASSUME ObjectInv, PrependDigit PROVE ObjectInv'
<1>1. /\ step = "digits" /\ digits' = <<val % 10>> \o digits /\ head' = head - 1
      /\ val' = val \div 10 /\ step' = (IF val' = 0 THEN "tag" ELSE "digits") /\ UNCHANGED building
      /\ file' = file /\ bytes' = bytes /\ got' = got /\ rest' = rest /\ listed' = listed
  BY DEF PrependDigit, reading
<1>2. /\ kind' = kind /\ count' = count /\ entries' = entries /\ used' = used /\ alloc' = alloc
      /\ Body' = Body /\ BufferInv'
  BY <1>1, SameBuffer DEF ObjectInv
<1>3. /\ val \in Nat /\ digits \in Seq(Digit) /\ Len(digits) <= 9 /\ head = 39 - Len(digits)
      /\ val > 0 /\ val < Left(Len(digits)) /\ Value(val, digits) = Body /\ got = "none"
  BY <1>1 DEF ObjectInv, ObjectTypes, HeaderInv, ReadInv, OrigOffset
<1>4. PICK n \in Nat : n = Len(digits)
  BY <1>3
<1>5. /\ val \div 10 \in Nat /\ val % 10 \in 0 .. 9 /\ 10 * (val \div 10) + (val % 10) = val
      /\ val \div 10 < Left(n + 1) /\ (n = 9 => val \div 10 = 0)
  BY <1>3, <1>4, LeftLess
<1>6. PICK d \in Nat : d = val % 10 /\ d \in Digit
  BY <1>5 DEF Digit
<1>7. digits' \in Seq(Digit) /\ Len(digits') = n + 1 /\ digits'[1] = d
  BY <1>1, <1>3, <1>4, <1>6, Prepended
<1>8. Value(val', digits') = Body
  <2>1. digits \in Seq(Nat)
    BY <1>3 DEF Digit
  <2>2. Value(val', <<d>> \o digits) = Value(10 * val' + d, digits)
    BY <1>1, <1>5, <2>1, ValuePrepended
  <2>3. 10 * val' + d = val
    BY <1>1, <1>5, <1>6
  <2>4. QED
    BY <1>1, <1>3, <1>6, <2>2, <2>3
<1>9. head' = 39 - (n + 1) /\ head' \in Int /\ val' \in Nat /\ n <= 9
  BY <1>1, <1>3, <1>4, <1>5
<1>10. step' \in {"tag", "digits"}
  BY <1>1
<1>11. ObjectTypes'
  BY <1>1, <1>2, <1>7, <1>9, <1>10 DEF ObjectInv, ObjectTypes
<1>12. HeaderInv'
  <2>1. CASE val' = 0
    <3>1. d # 0
      BY <1>1, <1>3, <1>5, <1>6, <2>1
    <3>2. Len(digits') \in 1 .. 10 /\ head' = 39 - Len(digits')
      BY <1>7, <1>9
    <3>3. step' = "tag" /\ head' = 39 - Len(digits') - 0
      BY <1>1, <1>7, <1>9, <2>1
    <3>4. QED
      BY <1>2, <1>7, <1>8, <2>1, <3>1, <3>2, <3>3 DEF HeaderInv, OrigOffset
  <2>2. CASE val' # 0
    <3>1. val' > 0 /\ n + 1 <= 9
      BY <1>1, <1>5, <1>9, <2>2
    <3>2. val' < Left(Len(digits')) /\ step' = "digits" /\ Len(digits') <= 9
      BY <1>1, <1>5, <1>7, <2>2, <3>1
    <3>3. QED
      BY <1>2, <1>7, <1>8, <1>9, <3>1, <3>2 DEF HeaderInv, OrigOffset
  <2>3. QED
    BY <2>1, <2>2
<1>13. ReadInv'
  BY <1>1, <1>3, <1>10 DEF ReadInv
<1>14. ListInv'
  BY <1>1, <1>2, <1>10 DEF ObjectInv, ListInv, EntrySums
<1>15. QED
  BY <1>2, <1>11, <1>12, <1>13, <1>14 DEF ObjectInv

LEMMA PutTagInv == ASSUME ObjectInv, PutTag PROVE ObjectInv'
<1>1. /\ step = "tag" /\ head' = head - TagLen /\ step' = "write" /\ UNCHANGED building
      /\ val' = val /\ digits' = digits
      /\ file' = file /\ bytes' = bytes /\ got' = got /\ rest' = rest /\ listed' = listed
  BY DEF PutTag, reading
<1>2. /\ kind' = kind /\ count' = count /\ entries' = entries /\ used' = used /\ alloc' = alloc
      /\ Body' = Body /\ BufferInv' /\ TagLen' = TagLen
  BY <1>1, SameBuffer DEF ObjectInv
<1>3. /\ head \in Int /\ Len(digits) \in 1 .. 10 /\ digits[1] # 0 /\ Value(0, digits) = Body
      /\ head = 40 - 1 - Len(digits) - 0 /\ got = "none"
  BY <1>1 DEF ObjectInv, ObjectTypes, HeaderInv, ReadInv, OrigOffset
<1>4. TagLen \in Nat
  BY DEF TagLen
<1>5. head' = 40 - 1 - Len(digits) - TagLen /\ head' \in Int
  BY <1>1, <1>3, <1>4
<1>6. ObjectTypes'
  BY <1>1, <1>2, <1>5 DEF ObjectInv, ObjectTypes
<1>7. HeaderInv'
  BY <1>1, <1>2, <1>3, <1>5 DEF HeaderInv, OrigOffset
<1>8. ReadInv'
  BY <1>1, <1>3 DEF ReadInv
<1>9. ListInv'
  BY <1>1, <1>2 DEF ObjectInv, ListInv, EntrySums
<1>10. QED
  BY <1>2, <1>6, <1>7, <1>8, <1>9 DEF ObjectInv

\* The header stands right in front of the body.
LEMMA HeaderFacts ==
  ASSUME ObjectInv, step \notin {"body", "digits", "tag"}
  PROVE  /\ Size = Body /\ Body \in Nat /\ HeaderLen \in 1 .. 18
         /\ ObjectLen = HeaderLen + Body /\ ObjectLen \in Nat
<1>1. /\ used \in Nat /\ used >= 40 /\ Len(digits) \in 1 .. 10 /\ Value(0, digits) = Body
      /\ head = 40 - 1 - Len(digits) - TagLen
  BY DEF ObjectInv, ObjectTypes, BufferInv, HeaderInv, OrigOffset
<1>2. PICK t \in 5 .. 7 : t = TagLen
  BY DEF TagLen
<1>3. PICK l \in 1 .. 10 : l = Len(digits)
  BY <1>1
<1>4. head = 39 - l - t
  BY <1>1, <1>2, <1>3
<1>5. Body = used - 40 /\ HeaderLen = t + l + 1 /\ ObjectLen = used - head
  BY <1>2, <1>3 DEF Body, HeaderLen, ObjectLen, OrigOffset
<1>6. QED
  BY <1>1, <1>4, <1>5 DEF Size

\* From here on the object stays as it is.
LEMMA WrittenObject ==
  ASSUME ObjectInv, UNCHANGED building, UNCHANGED header,
         step \notin {"body", "digits", "tag"}, step' \notin {"body", "digits", "tag"}
  PROVE  BufferInv' /\ HeaderInv'
<1>1. BufferInv'
  BY SameBuffer DEF ObjectInv
<1>2. /\ Len(digits) \in 1 .. 10 /\ digits[1] # 0 /\ Value(0, digits) = Body
      /\ head = OrigOffset - 1 - Len(digits) - TagLen
  BY DEF ObjectInv, HeaderInv
<1>3. digits' = digits /\ head' = head /\ Body' = Body /\ TagLen' = TagLen
  BY SameBuffer, SameHeader
<1>4. HeaderInv'
  BY <1>2, <1>3 DEF HeaderInv
<1>5. QED
  BY <1>1, <1>4

LEMMA WriteFileInv == ASSUME ObjectInv, WriteFile PROVE ObjectInv'
<1>1. /\ step = "write" /\ file' \in {ObjectLen} \cup (Torn(ObjectLen) \cap 0 .. ObjectLen - 1)
      /\ step' = "open" /\ UNCHANGED building /\ UNCHANGED header
      /\ bytes' = bytes /\ got' = got /\ rest' = rest /\ listed' = listed
  BY DEF WriteFile
<1>2. BufferInv' /\ HeaderInv'
  BY <1>1, WrittenObject
<1>3. /\ kind' = kind /\ count' = count /\ entries' = entries /\ used' = used /\ alloc' = alloc
      /\ val' = val /\ head' = head /\ digits' = digits /\ Body' = Body
  BY <1>1, SameBuffer, SameHeader
<1>4. file' \in Nat
  <2>1. ObjectLen \in Nat
    BY <1>1, HeaderFacts
  <2>2. file' = ObjectLen \/ file' \in 0 .. ObjectLen - 1
    BY <1>1
  <2>3. QED
    BY <2>1, <2>2
<1>5. ObjectTypes'
  BY <1>1, <1>3, <1>4 DEF ObjectInv, ObjectTypes
<1>6. ReadInv'
  BY <1>1 DEF ObjectInv, ReadInv
<1>7. ListInv'
  BY <1>1, <1>3 DEF ObjectInv, ListInv, EntrySums
<1>8. QED
  BY <1>2, <1>5, <1>6, <1>7 DEF ObjectInv

\* What is shorter than its header is not the whole object.
LEMMA ReadFailsInv == ASSUME ObjectInv, ReadEmpty \/ ReadGarbage PROVE ObjectInv'
<1>1. /\ step = "open" /\ step' = "end" /\ got' \in {"null", "garbage"}
      /\ UNCHANGED building /\ UNCHANGED header
      /\ file' = file /\ bytes' = bytes /\ rest' = rest /\ listed' = listed
      /\ (file = 0 \/ file \in 1 .. HeaderLen - 1)
  BY DEF ReadEmpty, ReadGarbage, Return
<1>2. BufferInv' /\ HeaderInv'
  BY <1>1, WrittenObject
<1>3. /\ kind' = kind /\ count' = count /\ entries' = entries /\ used' = used /\ alloc' = alloc
      /\ val' = val /\ head' = head /\ digits' = digits /\ Body' = Body
      /\ HeaderLen' = HeaderLen /\ ObjectLen' = ObjectLen
  BY <1>1, SameBuffer, SameHeader
<1>4. file # ObjectLen
  <2>1. HeaderLen \in 1 .. 18 /\ Body \in Nat /\ ObjectLen = HeaderLen + Body
    BY <1>1, HeaderFacts
  <2>2. QED
    BY <1>1, <2>1
<1>5. ObjectTypes'
  BY <1>1, <1>3 DEF ObjectInv, ObjectTypes
<1>6. ReadInv'
  BY <1>1, <1>3, <1>4 DEF ReadInv
<1>7. ListInv'
  BY <1>1, <1>3, <1>4 DEF ObjectInv, ListInv, EntrySums
<1>8. QED
  BY <1>2, <1>5, <1>6, <1>7 DEF ObjectInv

LEMMA InflateFirstInv == ASSUME ObjectInv, InflateFirst PROVE ObjectInv'
<1>1. /\ step = "open" /\ file >= HeaderLen /\ bytes' = Min2(file, InflateSize) - HeaderLen
      /\ step' = "inflate" /\ UNCHANGED building /\ UNCHANGED header
      /\ file' = file /\ got' = got /\ rest' = rest /\ listed' = listed
  BY DEF InflateFirst
<1>2. BufferInv' /\ HeaderInv'
  BY <1>1, WrittenObject
<1>3. /\ kind' = kind /\ count' = count /\ entries' = entries /\ used' = used /\ alloc' = alloc
      /\ val' = val /\ head' = head /\ digits' = digits /\ Body' = Body
      /\ HeaderLen' = HeaderLen /\ ObjectLen' = ObjectLen
  BY <1>1, SameBuffer, SameHeader
<1>4. bytes' \in Nat
  <2>1. HeaderLen \in 1 .. 18 /\ file \in Nat
    BY <1>1, HeaderFacts DEF ObjectInv, ObjectTypes
  <2>2. QED
    BY <1>1, <2>1 DEF Min2, InflateSize
<1>5. ObjectTypes'
  BY <1>1, <1>3, <1>4 DEF ObjectInv, ObjectTypes
<1>6. ReadInv'
  BY <1>1, <1>3 DEF ObjectInv, ReadInv, Min2
<1>7. ListInv'
  BY <1>1, <1>3 DEF ObjectInv, ListInv, EntrySums
<1>8. QED
  BY <1>2, <1>5, <1>6, <1>7 DEF ObjectInv

LEMMA InflateRestInv == ASSUME ObjectInv, InflateRest PROVE ObjectInv'
<1>1. /\ step = "inflate" /\ bytes' = MoreBytes /\ got' = "buf"
      /\ step' = (IF kind = "tree" /\ file = ObjectLen THEN "unpack" ELSE "end")
      /\ rest' = Size /\ UNCHANGED building /\ UNCHANGED header /\ file' = file /\ listed' = listed
  BY DEF InflateRest
<1>2. step' \in {"unpack", "end"}
  BY <1>1
<1>3. BufferInv' /\ HeaderInv'
  BY <1>1, <1>2, WrittenObject
<1>4. /\ kind' = kind /\ count' = count /\ entries' = entries /\ used' = used /\ alloc' = alloc
      /\ val' = val /\ head' = head /\ digits' = digits /\ Body' = Body
      /\ HeaderLen' = HeaderLen /\ ObjectLen' = ObjectLen
  BY <1>1, SameBuffer, SameHeader
<1>5. /\ Size = Body /\ Body \in Nat /\ HeaderLen \in 1 .. 18 /\ ObjectLen = HeaderLen + Body
  BY <1>1, HeaderFacts
<1>6. /\ file \in Nat /\ bytes \in Nat /\ file >= HeaderLen
      /\ bytes = Min2(file, InflateSize) - HeaderLen /\ Len(listed) = 0
  BY <1>1 DEF ObjectInv, ObjectTypes, ReadInv, ListInv
<1>7. bytes' \in Nat /\ (file = ObjectLen => bytes' = Body)
  <2>1. bytes <= file - HeaderLen
    BY <1>5, <1>6 DEF Min2, InflateSize
  <2>2. bytes' = IF bytes < Body THEN (IF Body < file - HeaderLen THEN Body ELSE file - HeaderLen)
                 ELSE bytes
    BY <1>1, <1>5 DEF MoreBytes, Min2
  <2>3. QED
    BY <1>5, <1>6, <2>1, <2>2
<1>8. ObjectTypes'
  BY <1>1, <1>2, <1>4, <1>5, <1>7 DEF ObjectInv, ObjectTypes
<1>9. ReadInv'
  BY <1>1, <1>2, <1>4, <1>7 DEF ReadInv
<1>10. ListInv'
  <2>1. PICK f : EntrySums(f)
    BY DEF ObjectInv, ListInv
  <2>2. Body = Body - f[0]
    BY <1>5, <2>1 DEF EntrySums, Running
  <2>3. EntrySums(f)'
    BY <1>1, <1>4, <1>5, <1>6, <2>1, <2>2 DEF EntrySums
  <2>4. ~(kind' = "tree" /\ step' = "end" /\ file' = ObjectLen')
    BY <1>1, <1>4
  <2>5. QED
    BY <1>1, <1>2, <1>4, <2>3, <2>4 DEF ObjectInv, ListInv
<1>11. QED
  BY <1>3, <1>8, <1>9, <1>10 DEF ObjectInv

\* Where unpack stands, and what is left.
LEMMA UnpackFacts ==
  ASSUME ObjectInv, step = "unpack", NEW f, EntrySums(f)
  PROVE  /\ rest = 0 => Len(listed) = Len(entries)
         /\ rest # 0 => /\ Len(listed) + 1 \in 1 .. Len(entries)
                        /\ entries[Len(listed) + 1] \in Nat
                        /\ rest >= entries[Len(listed) + 1] + HashLen
                        /\ rest - (entries[Len(listed) + 1] + HashLen) = Body - f[Len(listed) + 1]
<1>1. /\ Len(listed) <= Len(entries) /\ Running(f, Len(entries), entries)
      /\ Body = f[Len(entries)] /\ rest = Body - f[Len(listed)]
      /\ entries \in Seq(Nat) /\ listed \in Seq(Nat)
  BY DEF ObjectInv, ObjectTypes, ReadInv, ListInv, EntrySums
<1>2. PICK n \in Nat : n = Len(entries)
  BY <1>1
<1>3. PICK m \in Nat : m = Len(listed) /\ m <= n
  BY <1>1, <1>2
<1>4. /\ \A k \in 0 .. n : f[k] \in Nat /\ f[k] <= f[n]
      /\ \A k \in 1 .. n : f[k] = f[k - 1] + (entries[k] + HashLen)
  BY <1>1, <1>2 DEF Running
<1>5. PICK z \in Nat : z = f[n]
  BY <1>4
<1>6. PICK a \in Nat : a = f[m]
  BY <1>3, <1>4
<1>7. rest = z - a
  BY <1>1, <1>2, <1>3, <1>5, <1>6
<1>8. CASE m = n
  BY <1>2, <1>3, <1>5, <1>6, <1>7, <1>8
<1>9. CASE m < n
  <2>1. m + 1 \in 1 .. n /\ m + 1 \in 0 .. n /\ (m + 1) - 1 = m
    BY <1>9
  <2>2. PICK e \in Nat : e = entries[m + 1]
    BY <1>1, <1>2, <2>1
  <2>3. f[m + 1] = a + (e + 20)
    BY <1>4, <1>6, <2>1, <2>2 DEF HashLen
  <2>4. a + (e + 20) <= z
    BY <1>4, <1>5, <2>1, <2>3
  <2>5. rest >= e + 20 /\ rest # 0 /\ rest - (e + 20) = z - (a + (e + 20))
    BY <1>7, <2>4
  <2>6. QED
    BY <1>1, <1>2, <1>3, <1>5, <2>1, <2>2, <2>3, <2>5 DEF HashLen
<1>10. QED
  BY <1>3, <1>8, <1>9

LEMMA UnpackEntryInv == ASSUME ObjectInv, UnpackEntry PROVE ObjectInv'
<1> DEFINE len == entries[Len(listed) + 1]
<1>1. /\ step = "unpack" /\ rest # 0 /\ rest' = rest - (len + HashLen) /\ listed' = Append(listed, len)
      /\ UNCHANGED building /\ UNCHANGED header
      /\ file' = file /\ bytes' = bytes /\ got' = got /\ step' = step /\ rest >= len + HashLen
  BY DEF UnpackEntry
<1>2. BufferInv' /\ HeaderInv'
  BY <1>1, WrittenObject
<1>3. /\ kind' = kind /\ count' = count /\ entries' = entries /\ used' = used /\ alloc' = alloc
      /\ val' = val /\ head' = head /\ digits' = digits /\ Body' = Body
      /\ HeaderLen' = HeaderLen /\ ObjectLen' = ObjectLen
  BY <1>1, SameBuffer, SameHeader
<1>4. PICK f : EntrySums(f)
  BY DEF ObjectInv, ListInv
<1>5. /\ Len(listed) + 1 \in 1 .. Len(entries) /\ len \in Nat
      /\ rest - (len + HashLen) = Body - f[Len(listed) + 1]
  BY <1>1, <1>4, UnpackFacts
<1>6. /\ listed \in Seq(Nat) /\ entries \in Seq(Nat) /\ rest \in Nat
      /\ \A k \in 1 .. Len(listed) : listed[k] = entries[k]
  BY DEF ObjectInv, ObjectTypes, ListInv
<1> HIDE DEF len
<1>7. rest' \in Nat
  BY <1>1, <1>5, <1>6 DEF HashLen
<1>8. /\ listed' \in Seq(Nat) /\ Len(listed') = Len(listed) + 1 /\ listed'[Len(listed) + 1] = len
      /\ \A k \in 1 .. Len(listed) : listed'[k] = listed[k]
  BY <1>1, <1>5, <1>6
<1>9. ObjectTypes'
  BY <1>1, <1>3, <1>7, <1>8 DEF ObjectInv, ObjectTypes
<1>10. ReadInv'
  BY <1>1, <1>3 DEF ObjectInv, ReadInv
<1>11. ListInv'
  <2>1. \A k \in 1 .. Len(listed') : listed'[k] = entries[k]
    <3> SUFFICES ASSUME NEW k \in 1 .. Len(listed') PROVE listed'[k] = entries[k]
      OBVIOUS
    <3>1. Len(listed) \in Nat
      BY <1>6, LengthIsNat, Zenon
    <3>2. k = Len(listed) + 1 \/ k \in 1 .. Len(listed)
      BY <1>8, <3>1
    <3>3. QED
      BY <1>6, <1>8, <3>2 DEF len
  <2>2. Len(listed') <= Len(entries)
    BY <1>5, <1>8
  <2>3. EntrySums(f)'
    BY <1>1, <1>3, <1>4, <1>5, <1>8 DEF EntrySums
  <2>4. QED
    BY <1>1, <1>3, <2>1, <2>2, <2>3 DEF ListInv
<1>12. QED
  BY <1>2, <1>9, <1>10, <1>11 DEF ObjectInv

LEMMA UnpackDoneInv == ASSUME ObjectInv, UnpackDone PROVE ObjectInv'
<1>1. /\ step = "unpack" /\ rest = 0 /\ step' = "end" /\ UNCHANGED building /\ UNCHANGED header
      /\ file' = file /\ bytes' = bytes /\ got' = got /\ rest' = rest /\ listed' = listed
  BY DEF UnpackDone, reading
<1>2. BufferInv' /\ HeaderInv'
  BY <1>1, WrittenObject
<1>3. /\ kind' = kind /\ count' = count /\ entries' = entries /\ used' = used /\ alloc' = alloc
      /\ val' = val /\ head' = head /\ digits' = digits /\ Body' = Body
      /\ HeaderLen' = HeaderLen /\ ObjectLen' = ObjectLen
  BY <1>1, SameBuffer, SameHeader
<1>4. ObjectTypes'
  BY <1>1, <1>3 DEF ObjectInv, ObjectTypes
<1>5. ReadInv'
  BY <1>1, <1>3 DEF ObjectInv, ReadInv
<1>6. ListInv'
  <2>1. PICK f : EntrySums(f)
    BY DEF ObjectInv, ListInv
  <2>2. Len(listed) = Len(entries)
    BY <1>1, <2>1, UnpackFacts
  <2>3. EntrySums(f)'
    BY <1>1, <1>3, <2>1 DEF EntrySums
  <2>4. QED
    BY <1>1, <1>3, <2>2, <2>3 DEF ObjectInv, ListInv
<1>7. QED
  BY <1>2, <1>4, <1>5, <1>6 DEF ObjectInv

LEMMA ObjectNextInv == ObjectInv /\ [ObjectNext]_object => ObjectInv'
<1> SUFFICES ASSUME ObjectInv, [ObjectNext]_object PROVE ObjectInv'
  OBVIOUS
<1>1. CASE UNCHANGED object
  <2>1. /\ step' = step /\ UNCHANGED building /\ UNCHANGED header
        /\ file' = file /\ bytes' = bytes /\ got' = got /\ rest' = rest /\ listed' = listed
    BY <1>1 DEF object, building, header
  <2>2. /\ kind' = kind /\ count' = count /\ entries' = entries /\ used' = used /\ alloc' = alloc
        /\ val' = val /\ head' = head /\ digits' = digits /\ Body' = Body /\ TagLen' = TagLen
        /\ HeaderLen' = HeaderLen /\ ObjectLen' = ObjectLen /\ BufferInv'
    BY <2>1, SameBuffer, SameHeader DEF ObjectInv
  <2>3. ObjectTypes'
    BY <2>1, <2>2 DEF ObjectInv, ObjectTypes
  <2>4. HeaderInv'
    BY <2>1, <2>2 DEF ObjectInv, HeaderInv
  <2>5. ReadInv'
    BY <2>1, <2>2 DEF ObjectInv, ReadInv
  <2>6. ListInv'
    BY <2>1, <2>2 DEF ObjectInv, ListInv, EntrySums
  <2>7. QED
    BY <2>2, <2>3, <2>4, <2>5, <2>6 DEF ObjectInv
<1>2. QED
  BY <1>1, WriteTreeEntryInv, AddBufferInv, BeginHeaderInv, PrependDigitInv, PutTagInv, WriteFileInv,
     ReadFailsInv, InflateFirstInv, InflateRestInv, UnpackEntryInv, UnpackDoneInv DEF ObjectNext

\* ObjectInv bounds what is in the buffer.
LEMMA ObjectInvBuffers == ObjectInv => BuffersFit
<1> SUFFICES ASSUME ObjectInv, used > alloc
    PROVE  kind = "commit" /\ used \in Blocking + 1 .. Round
  BY DEF BuffersFit
<1>1. /\ kind \in {"tree", "commit"} /\ used \in Nat /\ alloc \in Nat
      /\ kind = "tree" => used <= alloc
      /\ kind = "commit" => (alloc = Blocking /\ used <= Round) \/ used <= alloc
  BY DEF ObjectInv, ObjectTypes, BufferInv
<1>2. ~(used <= alloc)
  BY <1>1
<1>3. kind = "commit" /\ alloc = Blocking /\ used <= Round
  BY <1>1, <1>2
<1>4. Blocking \in Nat /\ Round \in Nat
  BY DEF Blocking, Round
<1>5. used \in Blocking + 1 .. Round
  BY <1>1, <1>3, <1>4
<1>6. QED
  BY <1>3, <1>5

(***************************************************************************)
(* The buffer of write_tree is never too short, for any number of entries  *)
(* and any names; that of commit_tree only while the commit is longer than *)
(* BLOCKING and not longer than what add_buffer rounds to.                 *)
(***************************************************************************)
THEOREM BuffersAreLongEnough == ObjectSpec => []BuffersFit
BY ObjectInvBuffers, ObjectInitInv, ObjectNextInv, PTL DEF ObjectSpec

\* What ObjectInv says when the header is complete.
LEMMA ObjectInvHeader == ObjectInv => HeaderExact
<1> SUFFICES ASSUME ObjectInv, step = "write"
    PROVE  Size = Body /\ ObjectLen - HeaderLen = Body /\ digits[1] # 0
  BY DEF HeaderExact
<1>1. Size = Body /\ Body \in Nat /\ HeaderLen \in 1 .. 18 /\ ObjectLen = HeaderLen + Body
  BY HeaderFacts
<1>2. digits[1] # 0
  BY DEF ObjectInv, HeaderInv
<1>3. QED
  BY <1>1, <1>2

(***************************************************************************)
(* What prepend_integer prints is read back as the length of the body,     *)
(* stands right in front of it and has no leading zero, for every length.  *)
(***************************************************************************)
THEOREM HeaderIsExact == ObjectSpec => []HeaderExact
BY ObjectInvHeader, ObjectInitInv, ObjectNextInv, PTL DEF ObjectSpec

\* What it says when read_sha1_file has returned.
LEMMA ObjectInvRead == ObjectInv => WholeIsReadWhole
<1> SUFFICES ASSUME ObjectInv, got # "none", file = ObjectLen
    PROVE  got = "buf" /\ bytes = Body
  BY DEF WholeIsReadWhole
<1>1. step \in {"unpack", "end"}
  BY DEF ObjectInv, ObjectTypes, ReadInv
<1>2. QED
  BY <1>1 DEF ObjectInv, ReadInv

(***************************************************************************)
(* read_sha1_file returns the whole body of an object whose file is whole, *)
(* whether or not it fits into the buffer of the first inflate.            *)
(***************************************************************************)
THEOREM WholeObjectIsRead == ObjectSpec => []WholeIsReadWhole
BY ObjectInvRead, ObjectInitInv, ObjectNextInv, PTL DEF ObjectSpec

LEMMA SameElements ==
  ASSUME NEW S, NEW s \in Seq(S), NEW t \in Seq(S), Len(s) = Len(t),
         \A k \in 1 .. Len(s) : s[k] = t[k]
  PROVE  s = t
OBVIOUS

(***************************************************************************)
(* unpack never calls a whole tree corrupt: before its end there is room   *)
(* for the next entry, and at the end it has listed every entry.           *)
(***************************************************************************)
TreeNotCorrupt ==
  /\ step = "unpack" /\ rest # 0 =>
       Len(listed) < Len(entries) /\ rest >= entries[Len(listed) + 1] + HashLen
  /\ step = "end" /\ kind = "tree" /\ file = ObjectLen => listed = entries

\* What it says while unpack runs and at its end.
LEMMA ObjectInvListed == ObjectInv => TreeNotCorrupt
<1> SUFFICES ASSUME ObjectInv PROVE TreeNotCorrupt
  OBVIOUS
<1>1. PICK f : EntrySums(f)
  BY DEF ObjectInv, ListInv
<1>2. /\ entries \in Seq(Nat) /\ listed \in Seq(Nat)
      /\ \A k \in 1 .. Len(listed) : listed[k] = entries[k]
  BY DEF ObjectInv, ObjectTypes, ListInv
<1>3. ASSUME step = "unpack", rest # 0
      PROVE  Len(listed) < Len(entries) /\ rest >= entries[Len(listed) + 1] + HashLen
  <2>1. /\ Len(listed) + 1 \in 1 .. Len(entries)
        /\ rest >= entries[Len(listed) + 1] + HashLen
    BY <1>1, <1>3, UnpackFacts
  <2>2. Len(listed) \in Nat /\ Len(entries) \in Nat
    BY <1>2
  <2>3. QED
    BY <2>1, <2>2
<1>4. ASSUME step = "end", kind = "tree", file = ObjectLen PROVE listed = entries
  <2>1. Len(listed) = Len(entries)
    BY <1>4 DEF ObjectInv, ListInv
  <2>2. QED
    BY <1>2, <2>1, SameElements, Zenon
<1>5. QED
  BY <1>3, <1>4 DEF TreeNotCorrupt

(***************************************************************************)
(* The safety half of ListsWholeTree, for trees of any size: the check of  *)
(* unpack for a corrupt tree does not fire on a whole one.                 *)
(***************************************************************************)
THEOREM WholeTreeIsNotCorrupt == ObjectSpec => []TreeNotCorrupt
BY ObjectInvListed, ObjectInitInv, ObjectNextInv, PTL DEF ObjectSpec

\* ObjectInv includes the types.
LEMMA ObjectInvTypes == ObjectInv => ObjectTypeOK
<1> SUFFICES ASSUME ObjectInv PROVE ObjectTypeOK
  OBVIOUS
<1>1. head \in 0 .. OrigOffset
  <2>1. PICK t \in 5 .. 7 : t = TagLen
    BY DEF TagLen
  <2>2. step \in {"body", "digits", "tag", "write", "open", "inflate", "unpack", "end"}
    BY DEF ObjectInv, ObjectTypes
  <2>3. CASE step = "body"
    BY <2>3 DEF ObjectInv, HeaderInv, OrigOffset
  <2>4. CASE step = "digits"
    <3>1. head = 40 - 1 - Len(digits) /\ Len(digits) <= 9 /\ digits \in Seq(Digit)
      BY <2>4 DEF ObjectInv, ObjectTypes, HeaderInv, OrigOffset
    <3>2. PICK l \in Nat : l = Len(digits)
      BY <3>1
    <3>3. head = 40 - 1 - l /\ l <= 9
      BY <3>1, <3>2
    <3>4. QED
      BY <3>3 DEF OrigOffset
  <2>5. CASE step \notin {"body", "digits"}
    <3>1. Len(digits) \in 1 .. 10
          /\ head = 40 - 1 - Len(digits) - (IF step = "tag" THEN 0 ELSE t)
      BY <2>1, <2>5 DEF ObjectInv, HeaderInv, OrigOffset
    <3>2. PICK l \in 1 .. 10 : l = Len(digits)
      BY <3>1
    <3>3. head = 40 - 1 - l - 0 \/ head = 40 - 1 - l - t
      BY <3>1, <3>2
    <3>4. QED
      BY <3>3 DEF OrigOffset
  <2>6. QED
    BY <2>2, <2>3, <2>4, <2>5
<1>2. QED
  BY <1>1 DEF ObjectInv, ObjectTypes, ObjectTypeOK, Digit

(***************************************************************************)
(* The header never reaches the front of the space that ORIG_OFFSET leaves *)
(* for it, and the unsigned size of unpack never passes zero.              *)
(***************************************************************************)
THEOREM ObjectTypesHold == ObjectSpec => []ObjectTypeOK
BY ObjectInvTypes, ObjectInitInv, ObjectNextInv, PTL DEF ObjectSpec

(***************************************************************************)
(* The two loops over an unsigned value make progress, though neither      *)
(* counts down by one: each round of prepend_integer leaves its loop or a  *)
(* smaller value, and each round of unpack takes at least a SHA1 off the   *)
(* size that is left, without wrapping around.                             *)
(***************************************************************************)
ValuesShrink ==
  [][/\ step = "digits" => step' = "tag" \/ val' \in 1 .. val - 1
     /\ step = "unpack" => step' = "end" \/ rest' \in 0 .. rest - HashLen]_object

\* Both loops end, for objects of any size.
THEOREM ObjectLoopsShrink == ObjectSpec => ValuesShrink
<1>1. ASSUME ObjectInv, ObjectNext, step = "digits"
      PROVE  step' = "tag" \/ val' \in 1 .. val - 1
  <2>1. PrependDigit
    BY <1>1 DEF ObjectNext, WriteTreeEntry, AddBuffer, BeginHeader, PutTag, WriteFile, ReadEmpty,
       ReadGarbage, InflateFirst, InflateRest, UnpackEntry, UnpackDone
  <2>2. val \in Nat /\ val' = val \div 10 /\ step' = IF val' = 0 THEN "tag" ELSE "digits"
    BY <1>1, <2>1 DEF PrependDigit, ObjectInv, ObjectTypes
  <2>3. QED
    BY <2>2
<1>2. ASSUME ObjectInv, ObjectNext, step = "unpack"
      PROVE  step' = "end" \/ rest' \in 0 .. rest - HashLen
  <2>1. UnpackEntry \/ UnpackDone
    BY <1>2 DEF ObjectNext, WriteTreeEntry, AddBuffer, BeginHeader, PrependDigit, PutTag, WriteFile,
       ReadEmpty, ReadGarbage, InflateFirst, InflateRest
  <2>2. CASE UnpackEntry
    <3>1. PICK f : EntrySums(f)
      BY <1>2 DEF ObjectInv, ListInv
    <3>2. rest # 0 /\ rest' = rest - (entries[Len(listed) + 1] + HashLen) /\ rest \in Nat
      BY <1>2, <2>2 DEF UnpackEntry, ObjectInv, ObjectTypes
    <3>3. PICK len \in Nat : len = entries[Len(listed) + 1] /\ rest >= len + HashLen
      BY <1>2, <3>1, <3>2, UnpackFacts
    <3>4. QED
      BY <3>2, <3>3 DEF HashLen
  <2>3. CASE UnpackDone
    BY <2>3 DEF UnpackDone
  <2>4. QED
    BY <2>1, <2>2, <2>3
<1>3. ObjectInv /\ [ObjectNext]_object =>
        [/\ step = "digits" => step' = "tag" \/ val' \in 1 .. val - 1
         /\ step = "unpack" => step' = "end" \/ rest' \in 0 .. rest - HashLen]_object
  BY <1>1, <1>2
<1>4. QED
  BY ObjectInitInv, ObjectNextInv, <1>3, PTL DEF ObjectSpec, ValuesShrink

-----------------------------------------------------------------------------
\* The directories: git --init

\* The invariant behind both theorems.
IInv == TypeOK /\ OneInitialiser /\ Progress

\* The condition with the misplaced ! never holds.
LEMMA NeverShares == ~SharesDb
BY DEF SharesDb, Not

\* The invariant holds at the start.
LEMMA InitIInv == Init => IInv
<1> SUFFICES ASSUME Init PROVE IInv
  OBVIOUS
<1>1. TypeOK
  <2>1. 0 \in 0 .. FanOut
    BY FanOutAssumption
  <2>2. dir \in [Proc -> 0 .. FanOut]
    BY <2>1, Zenon DEF Init
  <2>3. QED
    BY <2>2 DEF Init, TypeOK
<1>2. \A p \in Proc : pc[p] = "idle" /\ dir[p] = 0
  BY DEF Init
<1>3. QED
  BY <1>1, <1>2 DEF IInv, OneInitialiser, Progress, Inside

\* Every step keeps the types.
LEMMA NextType == TypeOK /\ [Next]_vars => TypeOK'
<1> SUFFICES ASSUME TypeOK, [Next]_vars PROVE TypeOK'
  OBVIOUS
<1> USE FanOutAssumption DEF TypeOK, files, Goto
<1>1. ASSUME NEW p \in Proc, Start(p) PROVE TypeOK'
  BY <1>1 DEF Start
<1>2. ASSUME NEW p \in Proc, MkdirDircache(p) PROVE TypeOK'
  BY <1>2 DEF MkdirDircache
<1>3. ASSUME NEW p \in Proc, DircacheExists(p) PROVE TypeOK'
  BY <1>3 DEF DircacheExists, Exit
<1>4. ASSUME NEW p \in Proc, CheckEnvironment(p) PROVE TypeOK'
  BY <1>4, NeverShares DEF CheckEnvironment
<1>5. ASSUME NEW p \in Proc, MkdirObjects(p) PROVE TypeOK'
  BY <1>5 DEF MkdirObjects
<1>6. ASSUME NEW p \in Proc, MkdirFan(p) PROVE TypeOK'
  <2>1. dir[p] \in 0 .. FanOut - 1 /\ dir[p] + 1 \in 0 .. FanOut
    BY <1>6 DEF MkdirFan
  <2>2. QED
    BY <1>6, <2>1 DEF MkdirFan
<1>7. ASSUME NEW p \in Proc, Done(p) PROVE TypeOK'
  BY <1>7 DEF Done, Exit
<1>8. ASSUME NEW p \in Proc, MkdirFails(p) PROVE TypeOK'
  BY <1>8 DEF MkdirFails, Exit, Fault
<1>9. ASSUME NEW p \in Proc, Crash(p) PROVE TypeOK'
  BY <1>9 DEF Crash, Exit, Fault
<1>10. CASE RemoveRepository
  BY <1>10 DEF RemoveRepository
<1>11. CASE UNCHANGED vars
  BY <1>11 DEF vars
<1>12. QED
  BY <1>1, <1>2, <1>3, <1>4, <1>5, <1>6, <1>7, <1>8, <1>9, <1>10, <1>11
     DEF Next, Step

\* The loop over the directories has not begun.
LEMMA NoneMade ==
  ASSUME NEW n, n = 0, NEW S
  PROVE  0 .. n - 1 \subseteq S
OBVIOUS

\* One more directory is made.
LEMMA OneMoreMade ==
  ASSUME NEW n \in Nat, NEW S, 0 .. n - 1 \subseteq S
  PROVE  0 .. (n + 1) - 1 \subseteq S \cup {n}
OBVIOUS

\* Every step keeps the builder alone and its progress on disk.
LEMMA NextProgress == IInv /\ [Next]_vars => OneInitialiser' /\ Progress'
<1> SUFFICES ASSUME IInv, [Next]_vars PROVE OneInitialiser' /\ Progress'
  OBVIOUS
<1>0. \A q \in Proc : dir[q] \in Nat
  BY FanOutAssumption DEF IInv, TypeOK
<1> USE FanOutAssumption DEF IInv, TypeOK, OneInitialiser, Progress, Inside, files, Goto
<1>1. ASSUME NEW p \in Proc, Start(p) PROVE OneInitialiser' /\ Progress'
  BY <1>1 DEF Start
<1>2. ASSUME NEW p \in Proc, MkdirDircache(p) PROVE OneInitialiser' /\ Progress'
  <2>1. \A q \in Proc : ~Inside(q)
    BY <1>2 DEF MkdirDircache
  <2>2. QED
    BY <1>2, <2>1 DEF MkdirDircache
<1>3. ASSUME NEW p \in Proc, DircacheExists(p) PROVE OneInitialiser' /\ Progress'
  BY <1>3 DEF DircacheExists, Exit
<1>4. ASSUME NEW p \in Proc, CheckEnvironment(p) PROVE OneInitialiser' /\ Progress'
  BY <1>4, NeverShares DEF CheckEnvironment
<1>5. ASSUME NEW p \in Proc, MkdirObjects(p) PROVE OneInitialiser' /\ Progress'
  <2>1. dir[p] = 0
    BY <1>5, Zenon DEF MkdirObjects
  <2>2. 0 .. dir[p] - 1 \subseteq fan
    BY <2>1, NoneMade, Zenon
  <2>3. QED
    BY <1>5, <2>2, Zenon DEF MkdirObjects
<1>6. ASSUME NEW p \in Proc, MkdirFan(p) PROVE OneInitialiser' /\ Progress'
  <2>1. pc' = pc /\ dircache' = dircache /\ objects' = objects /\ fan' = fan \cup {dir[p]}
    BY <1>6 DEF MkdirFan
  <2>2. ASSUME NEW q \in Proc, pc[q] = "fan" PROVE 0 .. dir'[q] - 1 \subseteq fan'
    <3>1. 0 .. dir[q] - 1 \subseteq fan
      BY <2>2
    <3>2. CASE q = p
      <4>1. dir'[q] = dir[q] + 1
        BY <1>6, <3>2, Zenon DEF MkdirFan
      <4>2. dir[q] \in Nat
        BY <1>0, Zenon
      <4>3. fan' = fan \cup {dir[q]}
        BY <2>1, <3>2, Zenon
      <4>4. 0 .. (dir[q] + 1) - 1 \subseteq fan \cup {dir[q]}
        BY <3>1, <4>2, OneMoreMade, Zenon
      <4>5. QED
        BY <4>1, <4>3, <4>4, Zenon
    <3>3. CASE q # p
      <4>1. dir'[q] = dir[q]
        BY <1>6, <3>3 DEF MkdirFan
      <4>2. QED
        BY <2>1, <3>1, <4>1, Zenon
    <3>4. QED
      BY <3>2, <3>3
  <2>3. \A q \in Proc : pc[q] # "fan" => dir'[q] = dir[q]
    BY <1>6 DEF MkdirFan
  <2>4. QED
    BY <2>1, <2>2, <2>3
<1>7. ASSUME NEW p \in Proc, Done(p) PROVE OneInitialiser' /\ Progress'
  BY <1>7 DEF Done, Exit
<1>8. ASSUME NEW p \in Proc, MkdirFails(p) PROVE OneInitialiser' /\ Progress'
  BY <1>8 DEF MkdirFails, Exit
<1>9. ASSUME NEW p \in Proc, Crash(p) PROVE OneInitialiser' /\ Progress'
  BY <1>9 DEF Crash, Exit
<1>10. CASE RemoveRepository
  BY <1>10 DEF RemoveRepository
<1>11. CASE UNCHANGED vars
  BY <1>11 DEF vars
<1>12. QED
  BY <1>1, <1>2, <1>3, <1>4, <1>5, <1>6, <1>7, <1>8, <1>9, <1>10, <1>11
     DEF Next, Step

-----------------------------------------------------------------------------

\* IInv holds in every reachable state of git --init.
THEOREM InitInvariance == Spec => []IInv
<1>1. IInv /\ [Next]_vars => IInv'
  BY NextType, NextProgress DEF IInv
<1>2. QED
  BY InitIInv, <1>1, PTL DEF Spec

(***************************************************************************)
(* At most one process is past the mkdir of .dircache, for any number of   *)
(* concurrent git --init, also after crashes and removals.                 *)
(***************************************************************************)
THEOREM BuildsAlone == Spec => []OneInitialiser
BY InitInvariance, PTL DEF IInv

(***************************************************************************)
(* No mkdir outside 00 to ff, and the types of the rest, for every number  *)
(* of concurrent git --init.                                               *)
(***************************************************************************)
THEOREM InitTypes == Spec => []TypeOK
BY InitInvariance, PTL DEF IInv

\* The step that reports success is the end of the loop, over a full database.
LEMMA SuccessStep ==
  ASSUME IInv, [Next]_vars, NEW q \in Proc, exit[q] # "ok", exit'[q] = "ok"
  PROVE  Complete'
<1> USE FanOutAssumption DEF IInv, TypeOK, files, Goto
<1>1. ASSUME NEW p \in Proc, Done(p), exit'[q] = "ok" PROVE Complete'
  <2>1. pc[p] = "fan" /\ dir[p] = FanOut
    BY <1>1 DEF Done
  <2>2. dircache /\ objects /\ 0 .. FanOut - 1 \subseteq fan
    BY <2>1 DEF Progress, Inside
  <2>3. dircache' = dircache /\ objects' = objects /\ fan' = fan
    BY <1>1 DEF Done
  <2>4. QED
    BY <2>2, <2>3 DEF Complete
<1>2. ASSUME NEW p \in Proc, Start(p) PROVE FALSE
  BY <1>2 DEF Start
<1>3. ASSUME NEW p \in Proc, DircacheExists(p) \/ MkdirFails(p) \/ Crash(p) PROVE FALSE
  BY <1>3 DEF DircacheExists, MkdirFails, Crash, Exit
<1>4. ASSUME NEW p \in Proc,
             MkdirDircache(p) \/ CheckEnvironment(p) \/ MkdirObjects(p) \/ MkdirFan(p)
      PROVE  FALSE
  BY <1>4, NeverShares DEF MkdirDircache, CheckEnvironment, MkdirObjects, MkdirFan
<1>5. ~RemoveRepository /\ ~UNCHANGED vars
  BY DEF RemoveRepository, vars
<1>6. QED
  BY <1>1, <1>2, <1>3, <1>4, <1>5 DEF Next, Step

(***************************************************************************)
(* An invocation of git --init that reports success leaves .dircache, the  *)
(* private database and all of its fan-out directories, for every fan-out, *)
(* or there is a shared database.                                          *)
(***************************************************************************)
THEOREM SuccessLeavesAll == Spec => SuccessIsComplete
<1>1. IInv /\ [Next]_vars =>
        [\A p \in Proc :
           exit[p] # "ok" /\ exit'[p] = "ok" => Complete' \/ env = "directory"]_vars
  BY SuccessStep, Zenon
<1>2. QED
  BY InitInvariance, <1>1, PTL DEF Spec, SuccessIsComplete

-----------------------------------------------------------------------------
\* Progress.

\* An upper bound of the system calls that process p still makes.
StepsLeft(p) ==
  CASE pc[p] = "top" -> FanOut + 4
    [] pc[p] = "env" -> FanOut + 3
    [] pc[p] = "objects" -> FanOut + 2
    [] pc[p] = "fan" -> FanOut + 1 - dir[p]
    [] pc[p] = "idle" -> 0

(***************************************************************************)
(* git --init ends after a bounded number of its own system calls, at most *)
(* four more than there are fan-out directories: each call brings the end  *)
(* nearer, also one that fails, and no other process moves it away.        *)
(***************************************************************************)
InitEnds ==
  [][\A p \in Proc :
       /\ pc[p] # "idle" => StepsLeft(p)' \in 0 .. StepsLeft(p)
       /\ Step(p) \/ MkdirFails(p) \/ Crash(p) => StepsLeft(p)' < StepsLeft(p)]_vars

\* A step of a process brings its end nearer.
LEMMA StepShrinks ==
  ASSUME IInv, NEW p \in Proc, Step(p) \/ MkdirFails(p) \/ Crash(p)
  PROVE  StepsLeft(p)' \in Nat /\ StepsLeft(p) \in Nat /\ StepsLeft(p)' < StepsLeft(p)
<1> USE FanOutAssumption DEF IInv, TypeOK, Goto, StepsLeft
<1>1. pc[p] \in {"idle", "top", "env", "objects", "fan"} /\ dir[p] \in 0 .. FanOut
  OBVIOUS
<1>2. CASE pc[p] # "idle" /\ pc'[p] = "idle"
  BY <1>1, <1>2
<1>3. CASE MkdirDircache(p) \/ MkdirObjects(p)
  BY <1>1, <1>3 DEF MkdirDircache, MkdirObjects, Progress
<1>4. CASE CheckEnvironment(p)
  BY <1>1, <1>4, NeverShares DEF CheckEnvironment
<1>5. CASE MkdirFan(p)
  BY <1>1, <1>5 DEF MkdirFan
<1>6. CASE DircacheExists(p) \/ Done(p) \/ MkdirFails(p) \/ Crash(p)
  BY <1>2, <1>6 DEF DircacheExists, Done, MkdirFails, Crash, Exit
<1>7. QED
  BY <1>3, <1>4, <1>5, <1>6 DEF Step

\* The steps of the other processes and of the user leave a process alone.
LEMMA OthersKeepSteps ==
  ASSUME IInv, [Next]_vars, NEW p \in Proc, pc[p] # "idle",
         ~(Step(p) \/ MkdirFails(p) \/ Crash(p))
  PROVE  StepsLeft(p)' = StepsLeft(p)
<1>1. pc'[p] = pc[p] /\ dir'[p] = dir[p]
  <2> USE DEF IInv, TypeOK, files, Goto
  <2>1. ASSUME NEW q \in Proc, Start(q) PROVE pc'[p] = pc[p] /\ dir'[p] = dir[p]
    BY <2>1 DEF Start
  <2>2. ASSUME NEW q \in Proc, q # p,
               MkdirDircache(q) \/ CheckEnvironment(q) \/ MkdirObjects(q) \/ MkdirFan(q)
        PROVE  pc'[p] = pc[p] /\ dir'[p] = dir[p]
    BY <2>2, NeverShares DEF MkdirDircache, CheckEnvironment, MkdirObjects, MkdirFan
  <2>3. ASSUME NEW q \in Proc, q # p,
               DircacheExists(q) \/ Done(q) \/ MkdirFails(q) \/ Crash(q)
        PROVE  pc'[p] = pc[p] /\ dir'[p] = dir[p]
    BY <2>3 DEF DircacheExists, Done, MkdirFails, Crash, Exit
  <2>4. CASE RemoveRepository \/ UNCHANGED vars
    BY <2>4 DEF RemoveRepository, vars
  <2>5. QED
    BY <2>1, <2>2, <2>3, <2>4 DEF Next, Step
<1>2. QED
  BY <1>1 DEF StepsLeft

(***************************************************************************)
(* The bound, for every number of processes, faults and directories.       *)
(***************************************************************************)
THEOREM InitTakesBoundedSteps == Spec => InitEnds
<1>1. ASSUME IInv, [Next]_vars, NEW p \in Proc
      PROVE  /\ pc[p] # "idle" => StepsLeft(p)' \in 0 .. StepsLeft(p)
             /\ Step(p) \/ MkdirFails(p) \/ Crash(p) => StepsLeft(p)' < StepsLeft(p)
  <2>1. CASE Step(p) \/ MkdirFails(p) \/ Crash(p)
    BY <1>1, <2>1, StepShrinks
  <2>2. CASE pc[p] # "idle" /\ ~(Step(p) \/ MkdirFails(p) \/ Crash(p))
    <3>1. StepsLeft(p)' = StepsLeft(p)
      BY <1>1, <2>2, OthersKeepSteps
    <3>2. StepsLeft(p) \in Nat
      BY <1>1, FanOutAssumption DEF IInv, TypeOK, StepsLeft
    <3>3. QED
      BY <2>2, <3>1, <3>2
  <2>3. QED
    BY <2>1, <2>2
<1>2. IInv /\ [Next]_vars =>
        [\A p \in Proc :
           /\ pc[p] # "idle" => StepsLeft(p)' \in 0 .. StepsLeft(p)
           /\ Step(p) \/ MkdirFails(p) \/ Crash(p) => StepsLeft(p)' < StepsLeft(p)]_vars
  BY <1>1
<1>3. QED
  BY InitInvariance, <1>2, PTL DEF Spec, InitEnds
=============================================================================
