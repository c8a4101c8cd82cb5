---------------------------- MODULE NameProofs ------------------------------
(***************************************************************************)
(* Names, for every input and not only for the small ones of MCAlgorithms: *)
(* the binary search, the path check, the comparison, the names of objects *)
(* and remove_special.  Each part has an inductive invariant of its own.   *)
(* What a loop or a recursive function computes is shown by induction with *)
(* the lemmas on numbers of DirCacheProofs.                                *)
(***************************************************************************)
EXTENDS CacheNamePos, VerifyPath, NameOrder, HexName, RemoveSpecial,
        DirCacheProofs, WellFoundedInduction

\* A set of numbers has a least element.
LEMMA LeastNumber == LeastNumbers
<1> SUFFICES ASSUME NEW S \in SUBSET Nat, S # {} PROVE \E n \in S : \A m \in S : n <= m
  BY DEF LeastNumbers
<1>1. PICK n \in S : \A m \in S : ~(<<m, n>> \in OpToRel(<, Nat))
  BY WFMin, NatLessThanWellFounded
<1>2. \A m \in S : ~(m < n)
  BY <1>1 DEF OpToRel
<1>3. QED
  BY <1>2

-----------------------------------------------------------------------------
\* The binary search: cache_name_pos

\* The inductive invariant: the result follows from the search window.
SearchInv == SearchTypeOK /\ Window /\ PosCorrect

\* The length of the cache, and that its names are numbers in order.
LEMMA CacheFacts ==
  ASSUME SearchTypeOK
  PROVE  /\ Len(cache) \in Nat
         /\ \A i \in 1 .. Len(cache) : cache[i].name \in Nat
         /\ \A i, j \in 1 .. Len(cache) : i < j => cache[i].name <= cache[j].name
         /\ name \in Nat
<1>1. cache \in Seq(Entry) /\ Sorted(cache)
  BY CachesAssumption DEF SearchTypeOK
<1>2. \A i \in 1 .. Len(cache) : cache[i] \in Entry
  BY <1>1
<1>3. \A i \in 1 .. Len(cache) : cache[i].name \in Nat
  BY <1>2, PathAssumption DEF Entry
<1>4. Len(cache) \in Nat /\ name \in Nat
  BY <1>1, PathAssumption DEF SearchTypeOK
<1>5. QED
  BY <1>1, <1>3, <1>4 DEF Sorted

\* The probed slot lies in the window, so active_cache[next] is an entry.
LEMMA MiddleInWindow ==
  ASSUME SearchTypeOK, first < last
  PROVE  /\ Middle \in Nat
         /\ first <= Middle /\ Middle < last
         /\ Middle + 1 \in 1 .. Len(cache)
BY CacheFacts DEF SearchTypeOK, Middle

\* The search starts with the whole cache as its window.
LEMMA SearchInitInv == SearchInit => SearchInv
<1> SUFFICES ASSUME SearchInit PROVE SearchInv
  OBVIOUS
<1>1. Len(cache) \in Nat
  BY CachesAssumption DEF SearchInit
<1>2. SearchTypeOK
  BY <1>1 DEF SearchInit, SearchTypeOK
<1>3. QED
  BY <1>1, <1>2 DEF SearchInit, SearchInv, Window, PosCorrect

\* Each branch of the loop keeps the window right, and each return is right.
LEMMA SearchNextInv == SearchInv /\ [SearchNext]_search => SearchInv'
<1> SUFFICES ASSUME SearchInv, [SearchNext]_search PROVE SearchInv'
  OBVIOUS
<1> USE DEF SearchInv
<1>1. CASE Match
  <2>1. Middle \in Nat /\ Middle + 1 \in 1 .. Len(cache)
    BY <1>1, MiddleInWindow DEF Match, SearchTypeOK
  <2>2. pos' = -(Middle + 1)
    BY <1>1, <2>1 DEF Match
  <2>3. IsNamePos(cache, name, pos')
    BY <1>1, <2>1, <2>2 DEF Match, IsNamePos, Probed
  <2>4. SearchTypeOK'
    BY <1>1, <2>1, <2>2 DEF Match, SearchTypeOK
  <2>5. QED
    BY <1>1, <2>3, <2>4 DEF Match, Window, PosCorrect
<1>2. CASE GoLeft
  <2>1. /\ Middle \in Nat /\ first <= Middle /\ Middle < last
        /\ Middle + 1 \in 1 .. Len(cache)
    BY <1>2, MiddleInWindow DEF GoLeft, SearchTypeOK
  <2>2. \A i \in Middle + 1 .. Len(cache) : name < cache[i].name
    BY <1>2, <2>1, CacheFacts DEF GoLeft, Probed
  <2>3. SearchTypeOK'
    BY <1>2, <2>1, CacheFacts DEF GoLeft, SearchTypeOK
  <2>4. QED
    BY <1>2, <2>1, <2>2, <2>3 DEF GoLeft, Window, PosCorrect
<1>3. CASE GoRight
  <2>1. /\ Middle \in Nat /\ first <= Middle /\ Middle < last
        /\ Middle + 1 \in 1 .. Len(cache)
    BY <1>3, MiddleInWindow DEF GoRight, SearchTypeOK
  <2>2. \A i \in 1 .. Middle + 1 : cache[i].name < name
    BY <1>3, <2>1, CacheFacts DEF GoRight, Probed
  <2>3. SearchTypeOK'
    BY <1>3, <2>1, CacheFacts DEF GoRight, SearchTypeOK
  <2>4. QED
    BY <1>3, <2>1, <2>2, <2>3, CacheFacts DEF GoRight, Window, PosCorrect, SearchTypeOK
<1>4. CASE NotFound
  <2>1. first = last /\ first \in Nat
    BY <1>4, CacheFacts DEF NotFound, SearchTypeOK, Window
  <2>2. IsNamePos(cache, name, first)
    BY <2>1, CacheFacts DEF IsNamePos, SearchTypeOK, Window
  <2>3. SearchTypeOK'
    BY <1>4, <2>1 DEF NotFound, SearchTypeOK
  <2>4. QED
    BY <1>4, <2>2, <2>3 DEF NotFound, Window, PosCorrect
<1>5. CASE UNCHANGED search
  BY <1>5 DEF search, SearchTypeOK, Window, PosCorrect
<1>6. QED
  BY <1>1, <1>2, <1>3, <1>4, <1>5 DEF SearchNext

(***************************************************************************)
(* cache_name_pos returns the slot of the name, or the slot where it has   *)
(* to be inserted, for every sorted cache and every name.                  *)
(***************************************************************************)
THEOREM SearchCorrect == SearchSpec => []PosCorrect
<1>1. SearchInit => SearchInv
  BY SearchInitInv
<1>2. SearchInv /\ [SearchNext]_search => SearchInv'
  BY SearchNextInv
<1>3. SearchInv => PosCorrect
  BY DEF SearchInv
<1>4. QED
  BY <1>1, <1>2, <1>3, PTL DEF SearchSpec

(***************************************************************************)
(* The loop never reads outside active_cache: first and last stay between  *)
(* 0 and active_nr, and the window between them stays sound.               *)
(***************************************************************************)
THEOREM WindowSound == SearchSpec => [](SearchTypeOK /\ Window)
<1>1. SearchInit => SearchInv
  BY SearchInitInv
<1>2. SearchInv /\ [SearchNext]_search => SearchInv'
  BY SearchNextInv
<1>3. SearchInv => SearchTypeOK /\ Window
  BY DEF SearchInv
<1>4. QED
  BY <1>1, <1>2, <1>3, PTL DEF SearchSpec

(***************************************************************************)
(* The local variables of cache_name_pos keep their types: first and last  *)
(* stay between 0 and active_nr, for every sorted cache.                   *)
(***************************************************************************)
THEOREM SearchTypes == SearchSpec => []SearchTypeOK
BY WindowSound, PTL

(***************************************************************************)
(* Each iteration of cache_name_pos returns or halves the window, so that  *)
(* a cache of n entries takes no more than log2(n) + 2 of them.            *)
(***************************************************************************)
WindowHalves ==
  [][pc' = "done" \/ (0 < last - first /\ 2 * (last' - first') <= last - first)]_search

\* The window halves for every sorted cache and every name.
THEOREM SearchIsLogarithmic == SearchSpec => WindowHalves
<1>1. ASSUME SearchTypeOK, SearchNext
      PROVE  pc' = "done" \/ (0 < last - first /\ 2 * (last' - first') <= last - first)
  <2>1. Len(cache) \in Nat /\ first \in Nat /\ last \in Nat
    BY <1>1, CacheFacts DEF SearchTypeOK
  <2>2. CASE GoLeft
    BY <2>1, <2>2 DEF GoLeft, Middle
  <2>3. CASE GoRight
    BY <2>1, <2>3 DEF GoRight, Middle
  <2>4. CASE Match \/ NotFound
    BY <2>4 DEF Match, NotFound
  <2>5. QED
    BY <1>1, <2>2, <2>3, <2>4 DEF SearchNext
<1>2. SearchTypeOK /\ [SearchNext]_search =>
        [pc' = "done" \/ (0 < last - first /\ 2 * (last' - first') <= last - first)]_search
  BY <1>1
<1>3. QED
  BY SearchTypes, <1>2, PTL DEF SearchSpec, WindowHalves

(***************************************************************************)
(* A sorted cache has an answer for every name that cache_name_pos may be  *)
(* asked for, and exactly one when its names are unique: add_cache_entry   *)
(* and remove_file_from_cache are never left without a slot to work on.    *)
(***************************************************************************)
THEOREM PositionExists ==
  ASSUME NEW arr \in Seq(Entry), Sorted(arr), NEW n \in Path
  PROVE  /\ NamePositions(arr, n) # {}
         /\ Unique(arr) => \A slot, other \in NamePositions(arr, n) : slot = other
<1>1. Len(arr) \in Nat /\ n \in Nat /\ \A i \in 1 .. Len(arr) : arr[i].name \in Nat
  BY NamesAreNumbers, PathAssumption
<1>2. NamePositions(arr, n) # {}
  <2>1. CASE \E k \in 1 .. Len(arr) : arr[k].name = n
    <3>1. PICK k \in 1 .. Len(arr) : arr[k].name = n
      BY <2>1
    <3>2. -k \in -Len(arr) .. Len(arr) /\ IsNamePos(arr, n, -k)
      BY <1>1, <3>1 DEF IsNamePos
    <3>3. QED
      BY <3>2 DEF NamePositions
  <2>2. CASE \A k \in 1 .. Len(arr) : arr[k].name # n
    <3> DEFINE S == {i \in 0 .. Len(arr) : i = Len(arr) \/ n < arr[i + 1].name}
    <3>1. S \subseteq Nat /\ Len(arr) \in S
      BY <1>1
    <3>2. PICK slot \in S : \A i \in S : slot <= i
      <4> HIDE DEF S
      <4> QED BY <3>1, LeastNumber DEF LeastNumbers
    <3>3. \A i \in 1 .. slot : arr[i].name < n
      <4> TAKE i \in 1 .. slot
      <4>1. i - 1 \in 0 .. Len(arr) /\ i - 1 # Len(arr) /\ i \in 1 .. Len(arr) /\ i - 1 < slot
        BY <1>1, <3>2
      <4>2. i - 1 \notin S
        <5>1. slot \in Nat /\ i - 1 \in Nat /\ ~(slot <= i - 1)
          BY <1>1, <3>2, <4>1
        <5>2. QED
          <6> HIDE DEF S
          <6> QED BY <3>2, <5>1, Zenon
      <4>3. ~(n < arr[(i - 1) + 1].name)
        BY <4>1, <4>2
      <4>4. arr[i].name \in Nat /\ arr[i].name # n /\ (i - 1) + 1 = i
        BY <1>1, <2>2, <4>1
      <4>5. QED
        BY <1>1, <4>3, <4>4
    <3>4. \A i \in slot + 1 .. Len(arr) : n < arr[i].name
      <4> TAKE i \in slot + 1 .. Len(arr)
      <4>1. slot \in 0 .. Len(arr) /\ slot # Len(arr) /\ n < arr[slot + 1].name
        BY <1>1, <3>2
      <4>2. slot + 1 \in 1 .. Len(arr) /\ i \in 1 .. Len(arr) /\ slot + 1 <= i
        BY <1>1, <4>1
      <4>3. arr[slot + 1].name <= arr[i].name
        BY <1>1, <4>2 DEF Sorted
      <4>4. QED
        BY <1>1, <4>1, <4>2, <4>3
    <3>5. slot \in -Len(arr) .. Len(arr) /\ IsNamePos(arr, n, slot)
      BY <1>1, <3>2, <3>3, <3>4 DEF IsNamePos
    <3>6. QED
      BY <3>5 DEF NamePositions
  <2>3. QED
    BY <2>1, <2>2
<1>3. ASSUME Unique(arr), NEW slot \in NamePositions(arr, n), NEW other \in NamePositions(arr, n)
      PROVE  slot = other
  <2>1. IsNamePos(arr, n, slot) /\ IsNamePos(arr, n, other)
    BY DEF NamePositions
  <2>2. CASE \E i \in 1 .. Len(arr) : arr[i].name = n
    <3>1. PICK i \in 1 .. Len(arr) : arr[i].name = n
      BY <2>2
    <3>2. \A k \in 1 .. Len(arr) : arr[k].name = n => k = i
      BY <1>3, <3>1 DEF Unique
    <3>3. ASSUME NEW x, IsNamePos(arr, n, x) PROVE x = -i
      <4>1. CASE \E k \in 1 .. Len(arr) : x = -k /\ arr[k].name = n
        BY <3>2, <4>1
      <4>2. CASE /\ x \in 0 .. Len(arr)
                 /\ \A k \in 1 .. x : arr[k].name < n
                 /\ \A k \in x + 1 .. Len(arr) : n < arr[k].name
        <5>1. i \in 1 .. x \/ i \in x + 1 .. Len(arr)
          BY <1>1, <4>2
        <5>2. QED
          BY <1>1, <3>1, <4>2, <5>1
      <4>3. QED
        BY <3>3, <4>1, <4>2 DEF IsNamePos
    <3>4. QED
      BY <2>1, <3>3
  <2>3. CASE \A i \in 1 .. Len(arr) : arr[i].name # n
    <3>1. /\ slot \in 0 .. Len(arr) /\ other \in 0 .. Len(arr)
          /\ \A k \in 1 .. slot : arr[k].name < n
          /\ \A k \in slot + 1 .. Len(arr) : n < arr[k].name
          /\ \A k \in 1 .. other : arr[k].name < n
          /\ \A k \in other + 1 .. Len(arr) : n < arr[k].name
      BY <2>1, <2>3 DEF IsNamePos
    <3>2. CASE slot < other
      <4>1. other \in slot + 1 .. Len(arr) /\ other \in 1 .. other /\ other \in 1 .. Len(arr)
        BY <1>1, <3>1, <3>2
      <4>2. QED
        BY <1>1, <3>1, <4>1
    <3>3. CASE other < slot
      <4>1. slot \in other + 1 .. Len(arr) /\ slot \in 1 .. slot /\ slot \in 1 .. Len(arr)
        BY <1>1, <3>1, <3>3
      <4>2. QED
        BY <1>1, <3>1, <4>1
    <3>4. QED
      BY <1>1, <3>1, <3>2, <3>3
  <2>4. QED
    BY <2>2, <2>3
<1>4. QED
  BY <1>2, <1>3

-----------------------------------------------------------------------------
\* The path check: verify_path

\* The inductive invariant.
ScanInv == ScanTypeOK /\ StopsAtNul /\ Scanned /\ VerdictCorrect

\* The string in memory: its characters are no NUL, its length is a number.
LEMMA StringFacts ==
  ASSUME ScanTypeOK
  PROVE  /\ path \in Seq(Letter) /\ Len(path) \in Nat
         /\ \A i \in 1 .. Len(path) : path[i] \in Letter /\ path[i] # Nul
BY StringsAssumption, CharsAssumption DEF ScanTypeOK

\* The scan starts at the beginning of the first component.
LEMMA ScanInitInv == ScanInit => ScanInv
<1> SUFFICES ASSUME ScanInit PROVE ScanInv
  OBVIOUS
<1>1. ScanTypeOK
  BY DEF ScanInit, ScanTypeOK
<1>2. Len(path) \in Nat
  BY <1>1, StringFacts
<1>3. QED
  BY <1>1, <1>2 DEF ScanInit, ScanInv, StopsAtNul, Scanned, VerdictCorrect, Begins

\* Every branch of the loop keeps the invariant.
LEMMA ScanNextInv == ScanInv /\ [ScanNext]_scan => ScanInv'
<1> SUFFICES ASSUME ScanInv, [ScanNext]_scan PROVE ScanInv'
  OBVIOUS
<1>0. /\ ScanTypeOK /\ StopsAtNul /\ Scanned /\ VerdictCorrect
      /\ next \in Nat \ {0} /\ Len(path) \in Nat
      /\ \A i \in 1 .. Len(path) : path[i] \in Letter /\ path[i] # Nul
      /\ Slash \in Letter /\ Dot \in Letter /\ Nul \notin Letter /\ Slash # Dot
  BY StringFacts, CharsAssumption DEF ScanInv, ScanTypeOK
<1>1. CASE EnterComponent
  <2>1. next <= Len(path) /\ path[next] \notin {Slash, Dot}
    BY <1>0, <1>1 DEF EnterComponent, Char
  <2>2. path' = path /\ next' = next + 1 /\ c' = path[next] /\ spc' = "loop" /\ result' = result
    BY <1>1, <2>1 DEF EnterComponent, Read, Char
  <2>3. ScanTypeOK'
    BY <1>0, <2>1, <2>2 DEF ScanTypeOK
  <2>4. StopsAtNul'
    BY <1>0, <2>1, <2>2 DEF StopsAtNul
  <2>5. Scanned'
    <3>1. \A i \in 1 .. next : BeginsWell(path, i)
      BY <1>0, <1>1, <2>1 DEF EnterComponent, Scanned, BeginsWell
    <3>2. QED
      BY <1>0, <2>1, <2>2, <3>1 DEF Scanned, Char
  <2>6. QED
    BY <2>2, <2>3, <2>4, <2>5 DEF ScanInv, VerdictCorrect
<1>2. CASE Reject
  <2>1. /\ next <= Len(path) + 1 /\ Begins(path, next)
        /\ ~(next <= Len(path) /\ path[next] \notin {Slash, Dot})
    BY <1>0, <1>2 DEF Reject, Char, Scanned
  <2>2. ~Acceptable(path)
    BY <1>0, <2>1 DEF Acceptable, BeginsWell
  <2>3. path' = path /\ next' = next + 1 /\ result' = 0 /\ spc' = "done" /\ c' = Char(next)
    BY <1>2 DEF Reject, Read
  <2>4. ScanTypeOK' /\ StopsAtNul'
    BY <1>0, <2>1, <2>3 DEF ScanTypeOK, StopsAtNul, Char
  <2>5. QED
    BY <2>2, <2>3, <2>4 DEF ScanInv, Scanned, VerdictCorrect
<1>3. CASE Accept
  <2>1. path' = path /\ next' = next /\ c' = c /\ result' = 1 /\ spc' = "done"
    BY <1>3 DEF Accept
  <2>2. next - 1 = Len(path) + 1
    BY <1>0, <1>3 DEF Accept, Scanned, Char, StopsAtNul
  <2>3. Acceptable(path)
    <3>1. \A i \in 1 .. next - 1 : BeginsWell(path, i)
      BY <1>0, <1>3 DEF Accept, Scanned
    <3>2. QED
      BY <2>2, <3>1 DEF Acceptable
  <2>4. QED
    BY <1>0, <2>1, <2>3 DEF ScanInv, ScanTypeOK, StopsAtNul, Scanned, VerdictCorrect
<1>4. CASE EndComponent
  <2>1. path' = path /\ next' = next /\ c' = c /\ result' = result /\ spc' = "inside"
    BY <1>4 DEF EndComponent
  <2>2. next - 1 <= Len(path) /\ path[next - 1] = Slash
    BY <1>0, <1>4 DEF EndComponent, Scanned, Char
  <2>3. \A i \in 1 .. next - 1 : BeginsWell(path, i)
    BY <1>0, <1>4 DEF EndComponent, Scanned
  <2>4. next <= Len(path) + 1 /\ Begins(path, next)
    BY <1>0, <2>2 DEF Begins
  <2>5. QED
    BY <1>0, <2>1, <2>3, <2>4 DEF ScanInv, ScanTypeOK, StopsAtNul, Scanned, VerdictCorrect
<1>5. CASE NextChar
  <2>1. path' = path /\ next' = next + 1 /\ c' = Char(next) /\ result' = result /\ spc' = "loop"
    BY <1>5 DEF NextChar, Read
  <2>2. next >= 2 /\ next - 1 <= Len(path) /\ path[next - 1] # Slash
    BY <1>0, <1>5 DEF NextChar, Scanned, Char, StopsAtNul
  <2>3. ScanTypeOK' /\ StopsAtNul'
    BY <1>0, <2>1, <2>2 DEF ScanTypeOK, StopsAtNul, Char
  <2>4. ~Begins(path, next)
    BY <1>0, <2>2 DEF Begins
  <2>5. \A i \in 1 .. next : BeginsWell(path, i)
    BY <1>0, <1>5, <2>4 DEF NextChar, Scanned, BeginsWell
  <2>6. Scanned'
    BY <1>0, <2>1, <2>2, <2>5 DEF Scanned, Char
  <2>7. QED
    BY <2>1, <2>3, <2>6 DEF ScanInv, VerdictCorrect
<1>6. CASE UNCHANGED scan
  BY <1>0, <1>6 DEF scan, ScanInv, ScanTypeOK, StopsAtNul, Scanned, VerdictCorrect, Char
<1>7. QED
  BY <1>1, <1>2, <1>3, <1>4, <1>5, <1>6 DEF ScanNext

(***************************************************************************)
(* verify_path accepts exactly the paths without empty and without hidden  *)
(* components, whatever the string.                                        *)
(***************************************************************************)
THEOREM VerdictIsCorrect == ScanSpec => []VerdictCorrect
<1>1. ScanInv => VerdictCorrect
  BY DEF ScanInv
<1>2. QED
  BY <1>1, ScanInitInv, ScanNextInv, PTL DEF ScanSpec

(***************************************************************************)
(* verify_path never reads behind the NUL of its argument.                 *)
(***************************************************************************)
THEOREM StaysInString == ScanSpec => []StopsAtNul
<1>1. ScanInv => StopsAtNul
  BY DEF ScanInv
<1>2. QED
  BY <1>1, ScanInitInv, ScanNextInv, PTL DEF ScanSpec

(***************************************************************************)
(* The local variables of verify_path keep their types and its result is   *)
(* 0 or 1, for every string.                                               *)
(***************************************************************************)
THEOREM ScanTypes == ScanSpec => []ScanTypeOK
<1>1. ScanInv => ScanTypeOK
  BY DEF ScanInv
<1>2. QED
  BY <1>1, ScanInitInv, ScanNextInv, PTL DEF ScanSpec

\* An upper bound of the steps that verify_path still makes: two for each
\* character that is left, its NUL included, and the return.
ScanLeft ==
  CASE spc = "loop" -> 2 * (Len(path) + 2 - next) + 2
    [] spc = "inside" -> 2 * (Len(path) + 2 - next) + 1
    [] spc = "done" -> 0

(***************************************************************************)
(* verify_path always comes nearer to its return, although the jump to     *)
(* "inside" does not move the pointer.                                     *)
(***************************************************************************)
ScanShrinks ==
  [][/\ ScanLeft \in Nat /\ ScanLeft' \in Nat
     /\ ScanLeft' < ScanLeft]_scan

\* The bound holds for every string, so that the scan is linear in its length.
THEOREM ScanIsLinear == ScanSpec => ScanShrinks
<1>1. ASSUME ScanInv, ScanInv', ScanNext
      PROVE  ScanLeft \in Nat /\ ScanLeft' \in Nat /\ ScanLeft' < ScanLeft
  <2>1. /\ Len(path) \in Nat /\ next \in Nat /\ next <= Len(path) + 2
        /\ next' \in Nat /\ next' <= Len(path') + 2 /\ path' = path
    <3>1. path' = path
      BY <1>1 DEF ScanNext, EnterComponent, Reject, Accept, EndComponent, NextChar
    <3>2. QED
      BY <1>1, <3>1, StringFacts DEF ScanInv, ScanTypeOK, StopsAtNul
  <2>2. CASE EnterComponent
    BY <2>1, <2>2 DEF EnterComponent, Read, ScanLeft
  <2>3. CASE Reject
    BY <2>1, <2>3 DEF Reject, Read, ScanLeft
  <2>4. CASE Accept
    BY <2>1, <2>4 DEF Accept, ScanLeft
  <2>5. CASE EndComponent
    BY <2>1, <2>5 DEF EndComponent, ScanLeft
  <2>6. CASE NextChar
    BY <2>1, <2>6 DEF NextChar, Read, ScanLeft
  <2>7. QED
    BY <1>1, <2>2, <2>3, <2>4, <2>5, <2>6 DEF ScanNext
<1>2. ScanInv /\ ScanInv' /\ [ScanNext]_scan =>
        [/\ ScanLeft \in Nat /\ ScanLeft' \in Nat
         /\ ScanLeft' < ScanLeft]_scan
  BY <1>1
<1>3. QED
  BY ScanInitInv, ScanNextInv, <1>2, PTL DEF ScanSpec, ScanShrinks

-----------------------------------------------------------------------------
\* The order of names: cache_name_compare

Byte == 0 .. 255
Strs == Seq(Byte)

\* s comes first: at the first difference, or as the beginning of t.
Less(s, t) ==
  \/ \E k \in 1 .. Len(s) : k <= Len(t) /\ s[k] < t[k] /\ \A j \in 1 .. k - 1 : s[j] = t[j]
  \/ Len(s) < Len(t) /\ \A j \in 1 .. Len(s) : s[j] = t[j]

LEMMA NameFacts ==
  ASSUME NEW s \in Strs
  PROVE  Len(s) \in Nat /\ \A k \in 1 .. Len(s) : s[k] \in Nat
<1>1. Len(s) \in Nat /\ \A k \in 1 .. Len(s) : s[k] \in Byte
  BY DEF Strs
<1>2. Byte \subseteq Nat
  BY DEF Byte
<1>3. QED
  BY <1>1, <1>2

\* memcmp: no difference, or that of the first pair that differs.
LEMMA MemCmpValue ==
  ASSUME NEW s \in Strs, NEW t \in Strs, NEW n \in Nat, n <= Len(s), n <= Len(t)
  PROVE  \/ MemCmp(s, t, n) = 0 /\ \A k \in 1 .. n : s[k] = t[k]
         \/ \E k \in 1 .. n : /\ s[k] # t[k] /\ \A j \in 1 .. k - 1 : s[j] = t[j]
                              /\ MemCmp(s, t, n) = s[k] - t[k]
<1>1. CASE \A k \in 1 .. n : s[k] = t[k]
  BY <1>1 DEF MemCmp
<1>2. CASE \E k \in 1 .. n : s[k] # t[k]
  <2> DEFINE D == {k \in 1 .. n : s[k] # t[k]}
  <2>1. D \in SUBSET Nat /\ D # {}
    BY <1>2
  <2>2. PICK k \in D : \A m \in D : k <= m
    <3> HIDE DEF D
    <3> QED BY <2>1, LeastNumber DEF LeastNumbers
  <2>3. k \in 1 .. n /\ s[k] # t[k] /\ \A j \in 1 .. k - 1 : s[j] = t[j]
    BY <2>2
  <2> DEFINE First(i) == s[i] # t[i] /\ \A j \in 1 .. i - 1 : s[j] = t[j]
  <2>4. PICK i \in 1 .. n : i = (CHOOSE m \in 1 .. n : First(m)) /\ First(i)
    BY <2>3
  <2>5. MemCmp(s, t, n) = s[i] - t[i]
    BY <1>2, <2>4 DEF MemCmp
  <2>6. QED
    BY <2>4, <2>5
<1>3. QED
  BY <1>1, <1>2

\* The sign of the result.
LEMMA CompareIsLess ==
  ASSUME NEW s \in Strs, NEW t \in Strs
  PROVE  /\ CacheNameCompare(s, t) \in Int
         /\ CacheNameCompare(s, t) < 0 => Less(s, t)
         /\ CacheNameCompare(s, t) > 0 => Less(t, s)
         /\ CacheNameCompare(s, t) = 0 => s = t
<1>1. PICK n \in Nat : n = IF Len(s) < Len(t) THEN Len(s) ELSE Len(t)
  BY NameFacts
<1>2. n <= Len(s) /\ n <= Len(t) /\ Len(s) \in Nat /\ Len(t) \in Nat
  BY <1>1, NameFacts
<1>3. PICK cmp : cmp = MemCmp(s, t, n)
  OBVIOUS
<1>4. CacheNameCompare(s, t) = IF cmp # 0 THEN cmp
                               ELSE IF Len(s) < Len(t) THEN -1
                               ELSE IF Len(s) > Len(t) THEN 1 ELSE 0
  BY <1>1, <1>3 DEF CacheNameCompare
<1>5. CASE cmp = 0 /\ \A k \in 1 .. n : s[k] = t[k]
  <2>1. CASE Len(s) < Len(t)
    BY <1>1, <1>2, <1>4, <1>5, <2>1 DEF Less
  <2>2. CASE Len(s) > Len(t)
    BY <1>1, <1>2, <1>4, <1>5, <2>2 DEF Less
  <2>3. CASE Len(s) = Len(t)
    <3>1. s = t
      BY <1>1, <1>2, <1>5, <2>3 DEF Strs
    <3>2. QED
      BY <1>2, <1>4, <1>5, <2>3, <3>1
  <2>4. QED
    BY <1>2, <2>1, <2>2, <2>3
<1>6. CASE \E k \in 1 .. n : /\ s[k] # t[k] /\ \A j \in 1 .. k - 1 : s[j] = t[j]
                             /\ cmp = s[k] - t[k]
  <2>1. PICK k \in 1 .. n : /\ s[k] # t[k] /\ \A j \in 1 .. k - 1 : s[j] = t[j]
                            /\ cmp = s[k] - t[k]
    BY <1>6
  <2>2. /\ k \in 1 .. Len(s) /\ k \in 1 .. Len(t) /\ k <= Len(s) /\ k <= Len(t)
        /\ s[k] \in Nat /\ t[k] \in Nat
    BY <1>2, NameFacts
  <2>3. CacheNameCompare(s, t) = cmp /\ cmp \in Int /\ cmp # 0
    BY <1>4, <2>1, <2>2
  <2>4. cmp < 0 => Less(s, t)
    BY <2>1, <2>2 DEF Less
  <2>5. cmp > 0 => Less(t, s)
    BY <2>1, <2>2 DEF Less
  <2>6. QED
    BY <2>3, <2>4, <2>5
<1>7. QED
  BY <1>2, <1>3, <1>5, <1>6, MemCmpValue

\* Less is a strict order.
LEMMA LessOrder ==
  ASSUME NEW s \in Strs, NEW t \in Strs, Less(s, t)
  PROVE  s # t /\ ~Less(t, s)
<1>1. /\ Len(s) \in Nat /\ \A k \in 1 .. Len(s) : s[k] \in Nat
      /\ Len(t) \in Nat /\ \A k \in 1 .. Len(t) : t[k] \in Nat
  BY NameFacts
<1>2. CASE \E k \in 1 .. Len(s) : k <= Len(t) /\ s[k] < t[k] /\ \A j \in 1 .. k - 1 : s[j] = t[j]
  <2>1. PICK k \in 1 .. Len(s) : k <= Len(t) /\ s[k] < t[k] /\ \A j \in 1 .. k - 1 : s[j] = t[j]
    BY <1>2
  <2>2. s[k] \in Nat /\ t[k] \in Nat /\ s[k] # t[k]
    BY <1>1, <2>1
  <2>3. ASSUME NEW m \in 1 .. Len(t), m <= Len(s), t[m] < s[m],
               \A j \in 1 .. m - 1 : t[j] = s[j]
        PROVE  FALSE
    <3>1. t[m] \in Nat /\ s[m] \in Nat
      BY <1>1, <2>3
    <3>2. m < k \/ m = k \/ k < m
      BY <1>1
    <3>3. QED
      BY <1>1, <2>1, <2>2, <2>3, <3>1, <3>2
  <2>4. QED
    BY <1>1, <2>1, <2>2, <2>3 DEF Less
<1>3. CASE Len(s) < Len(t) /\ \A j \in 1 .. Len(s) : s[j] = t[j]
  <2>1. ASSUME NEW m \in 1 .. Len(t), m <= Len(s), t[m] < s[m]
        PROVE  FALSE
    BY <1>1, <1>3, <2>1
  <2>2. QED
    BY <1>1, <1>3, <2>1 DEF Less
<1>4. QED
  BY <1>2, <1>3 DEF Less

LEMMA LessTransitive ==
  ASSUME NEW s \in Strs, NEW t \in Strs, NEW u \in Strs, Less(s, t), Less(t, u)
  PROVE  Less(s, u)
<1>1. /\ Len(s) \in Nat /\ \A k \in 1 .. Len(s) : s[k] \in Nat
      /\ Len(t) \in Nat /\ \A k \in 1 .. Len(t) : t[k] \in Nat
      /\ Len(u) \in Nat /\ \A k \in 1 .. Len(u) : u[k] \in Nat
  BY NameFacts
<1>2. ASSUME NEW k \in 1 .. Len(s), k <= Len(t), s[k] < t[k], \A j \in 1 .. k - 1 : s[j] = t[j]
      PROVE  Less(s, u)
  <2>1. ASSUME NEW m \in 1 .. Len(t), m <= Len(u), t[m] < u[m], \A j \in 1 .. m - 1 : t[j] = u[j]
        PROVE  Less(s, u)
    <3>1. CASE k <= m
      <4>1. k <= Len(u) /\ s[k] < u[k] /\ \A j \in 1 .. k - 1 : s[j] = u[j]
        BY <1>1, <1>2, <2>1, <3>1
      <4>2. QED
        BY <4>1 DEF Less
    <3>2. CASE m < k
      <4>1. m \in 1 .. Len(s) /\ s[m] < u[m] /\ \A j \in 1 .. m - 1 : s[j] = u[j]
        BY <1>1, <1>2, <2>1, <3>2
      <4>2. QED
        BY <2>1, <4>1 DEF Less
    <3>3. QED
      BY <1>1, <3>1, <3>2
  <2>2. ASSUME Len(t) < Len(u), \A j \in 1 .. Len(t) : t[j] = u[j]
        PROVE  Less(s, u)
    <3>1. k <= Len(u) /\ s[k] < u[k] /\ \A j \in 1 .. k - 1 : s[j] = u[j]
      BY <1>1, <1>2, <2>2
    <3>2. QED
      BY <3>1 DEF Less
  <2>3. QED
    BY <2>1, <2>2 DEF Less
<1>3. ASSUME Len(s) < Len(t), \A j \in 1 .. Len(s) : s[j] = t[j]
      PROVE  Less(s, u)
  <2>1. ASSUME NEW m \in 1 .. Len(t), m <= Len(u), t[m] < u[m], \A j \in 1 .. m - 1 : t[j] = u[j]
        PROVE  Less(s, u)
    <3>1. CASE m <= Len(s)
      <4>1. m \in 1 .. Len(s) /\ s[m] < u[m] /\ \A j \in 1 .. m - 1 : s[j] = u[j]
        BY <1>1, <1>3, <2>1, <3>1
      <4>2. QED
        BY <2>1, <4>1 DEF Less
    <3>2. CASE Len(s) < m
      <4>1. Len(s) < Len(u) /\ \A j \in 1 .. Len(s) : s[j] = u[j]
        BY <1>1, <1>3, <2>1, <3>2
      <4>2. QED
        BY <4>1 DEF Less
    <3>3. QED
      BY <1>1, <3>1, <3>2
  <2>2. ASSUME Len(t) < Len(u), \A j \in 1 .. Len(t) : t[j] = u[j]
        PROVE  Less(s, u)
    <3>1. Len(s) < Len(u) /\ \A j \in 1 .. Len(s) : s[j] = u[j]
      BY <1>1, <1>3, <2>2
    <3>2. QED
      BY <3>1 DEF Less
  <2>3. QED
    BY <2>1, <2>2 DEF Less
<1>4. QED
  BY <1>2, <1>3 DEF Less

(***************************************************************************)
(* cache_name_compare is a total order on byte strings of any length:      *)
(* opposite for exchanged names, 0 for equal names only, transitive.       *)
(***************************************************************************)
THEOREM CompareIsTotalOrder ==
  ASSUME NEW s \in Seq(0 .. 255), NEW t \in Seq(0 .. 255), NEW u \in Seq(0 .. 255)
  PROVE  /\ CacheNameCompare(s, t) < 0 <=> CacheNameCompare(t, s) > 0
         /\ CacheNameCompare(s, t) = 0 <=> s = t
         /\ CacheNameCompare(s, t) < 0 /\ CacheNameCompare(t, u) < 0 => CacheNameCompare(s, u) < 0
<1>0. s \in Strs /\ t \in Strs /\ u \in Strs
  BY DEF Strs, Byte
<1>1. \A x, y \in {s, t, u} :
        /\ CacheNameCompare(x, y) \in Int
        /\ CacheNameCompare(x, y) < 0 => Less(x, y)
        /\ CacheNameCompare(x, y) > 0 => Less(y, x)
        /\ CacheNameCompare(x, y) = 0 => x = y
  BY <1>0, CompareIsLess
<1>2. \A x, y \in {s, t, u} : Less(x, y) => x # y /\ ~Less(y, x)
  BY <1>0, LessOrder
<1>3. \A x, y \in {s, t, u} : Less(x, y) => CacheNameCompare(x, y) < 0
  BY <1>1, <1>2
<1>4. Less(s, t) /\ Less(t, u) => Less(s, u)
  BY <1>0, LessTransitive
<1>5. QED
  BY <1>1, <1>2, <1>3, <1>4

\* The inductive invariant: every call that has returned has its result.
OrderInv ==
  /\ names \in [1 .. 3 -> Seq(0 .. 255)]
  /\ DOMAIN order = Pairs
  /\ \A x, y \in 1 .. 3 : <<x, y>> \notin todo =>
       order[<<x, y>>] = CacheNameCompare(names[x], names[y])

\* OrderInv holds at the start.
LEMMA OrderInitInv == OrderInit => OrderInv
<1> SUFFICES ASSUME OrderInit PROVE OrderInv
  OBVIOUS
<1>1. names \in [1 .. 3 -> Seq(0 .. 255)] /\ DOMAIN order = Pairs
  BY NamesAssumption DEF OrderInit
<1>2. \A x, y \in 1 .. 3 : <<x, y>> \in todo
  BY DEF OrderInit, Pairs
<1>3. QED
  BY <1>1, <1>2 DEF OrderInv

\* OrderInv is inductive.
LEMMA OrderNextInv == OrderInv /\ [OrderNext]_comparison => OrderInv'
<1> SUFFICES ASSUME OrderInv, [OrderNext]_comparison PROVE OrderInv'
  OBVIOUS
<1>1. CASE OrderNext
  <2>1. PICK pair \in todo :
          /\ order' = [order EXCEPT ![pair] = CacheNameCompare(names[pair[1]], names[pair[2]])]
          /\ todo' = todo \ {pair} /\ names' = names
    BY <1>1 DEF OrderNext, Call
  <2>2. ASSUME NEW x \in 1 .. 3, NEW y \in 1 .. 3, <<x, y>> \notin todo'
        PROVE  order'[<<x, y>>] = CacheNameCompare(names[x], names[y])
    <3>1. <<x, y>> \in Pairs
      BY DEF Pairs
    <3>2. CASE <<x, y>> = pair
      BY <2>1, <3>1, <3>2 DEF OrderInv
    <3>3. CASE <<x, y>> # pair
      BY <2>1, <2>2, <3>1, <3>3 DEF OrderInv
    <3>4. QED
      BY <3>2, <3>3
  <2>3. QED
    BY <2>1, <2>2 DEF OrderInv
<1>2. CASE UNCHANGED comparison
  BY <1>2 DEF comparison, OrderInv
<1>3. QED
  BY <1>1, <1>2

\* When every pair has been compared, the results are a total order.
LEMMA OrderInvTotal == OrderInv => TotalOrder
<1> SUFFICES ASSUME OrderInv, todo = {} PROVE TotalOrder
  BY DEF TotalOrder
<1>1. \A x, y \in 1 .. 3 : order[<<x, y>>] = CacheNameCompare(names[x], names[y])
  BY DEF OrderInv
<1>2. \A x \in 1 .. 3 : names[x] \in Seq(0 .. 255)
  BY DEF OrderInv
<1>3. QED
  BY <1>1, <1>2, CompareIsTotalOrder DEF TotalOrder

(***************************************************************************)
(* The results for any three names are those of a total order.             *)
(***************************************************************************)
THEOREM OrderIsTotal == OrderSpec => []TotalOrder
BY OrderInitInv, OrderNextInv, OrderInvTotal, PTL DEF OrderSpec

-----------------------------------------------------------------------------
\* The names of objects: get_sha1_hex, sha1_to_hex and sha1_file_name

Buffers == [0 .. 2 * Bytes -> Byte]

LEMMA BytesFact == Bytes \in Nat /\ Bytes >= 1
BY HexAssumption

\* A digit has a value, which HexChar turns back into the digit.
LEMMA DigitValue ==
  ASSUME NEW ch \in Byte
  PROVE  /\ ch \in HexDigits <=> hexval(ch) # NotHex
         /\ ch \in HexDigits => hexval(ch) \in 0 .. 15 /\ HexChar(hexval(ch)) = Lower(ch)
BY DEF Byte, HexDigits, hexval, NotHex, HexChar, Lower

LEMMA HexCharType == ASSUME NEW n \in 0 .. 15 PROVE HexChar(n) \in Byte
BY DEF HexChar, Byte

\* The two digits of a byte.
LEMMA Halves ==
  ASSUME NEW h \in 0 .. 15, NEW l \in 0 .. 15
  PROVE  /\ 16 * h + l \in Byte
         /\ (16 * h + l) \div 16 = h /\ (16 * h + l) % 16 = l
BY DEF Byte

LEMMA ByteHalves ==
  ASSUME NEW b \in Byte
  PROVE  b \div 16 \in 0 .. 15 /\ b % 16 \in 0 .. 15
BY DEF Byte

LEMMA TwoCharacters ==
  ASSUME NEW x \in Byte, NEW y \in Byte
  PROVE  \E t \in Seq(Byte) : t = <<x, y>> /\ Len(t) = 2 /\ t[1] = x /\ t[2] = y
<1>1. <<x, y>> \in Seq(Byte)
  OBVIOUS
<1>2. QED
  BY <1>1

\* A string with two more characters.
LEMMA TwoMore ==
  ASSUME NEW s \in Seq(Byte), NEW x \in Byte, NEW y \in Byte, NEW r, r = s \o <<x, y>>
  PROVE  /\ r \in Seq(Byte) /\ Len(r) = Len(s) + 2
         /\ r[Len(s) + 1] = x /\ r[Len(s) + 2] = y
         /\ \A i \in 1 .. Len(s) : r[i] = s[i]
<1>1. PICK t \in Seq(Byte) : t = <<x, y>> /\ Len(t) = 2 /\ t[1] = x /\ t[2] = y
  BY TwoCharacters, Zenon
<1>2. Len(t) = 2 /\ t[1] = x /\ t[2] = y
  BY <1>1
<1>3. r = s \o t
  BY <1>1
<1>4. r \in Seq(Byte) /\ Len(r) = Len(s) + 2 /\ Len(s) \in Nat
  BY <1>2, <1>3
<1>5. \A i \in 1 .. Len(s) + 2 : r[i] = IF i <= Len(s) THEN s[i] ELSE t[i - Len(s)]
  BY <1>2, <1>3, <1>4
<1>6. r[Len(s) + 1] = x /\ r[Len(s) + 2] = y
  BY <1>2, <1>4, <1>5
<1>7. QED
  BY <1>4, <1>5, <1>6

\* sha1_file_name writes the two slots of byte k and no other, in the buffer.
LEMMA PutByteSlots ==
  ASSUME NEW b \in Buffers, NEW k \in 0 .. Bytes - 1, NEW byte \in Byte
  PROVE  /\ PutByte(b, k, byte) \in Buffers
         /\ PutByte(b, k, byte)[NamePos(k)] = HexChar(byte \div 16)
         /\ PutByte(b, k, byte)[NamePos(k) + 1] = HexChar(byte % 16)
         /\ \A i \in 0 .. 2 * Bytes : i # NamePos(k) /\ i # NamePos(k) + 1 =>
              PutByte(b, k, byte)[i] = b[i]
         /\ PutByte(b, k, byte)[2] = b[2]
<1>1. PICK n : n = NamePos(k)
  OBVIOUS
<1>2. /\ n \in 0 .. 2 * Bytes /\ n + 1 \in 0 .. 2 * Bytes /\ n # n + 1
      /\ 2 \in 0 .. 2 * Bytes /\ n # 2 /\ n + 1 # 2
  BY <1>1, BytesFact DEF NamePos
<1>3. PICK x \in Byte : x = HexChar(byte \div 16)
  BY ByteHalves, HexCharType
<1>4. PICK y \in Byte : y = HexChar(byte % 16)
  BY ByteHalves, HexCharType
<1>5. PICK r : r = [b EXCEPT ![n] = x, ![n + 1] = y]
  OBVIOUS
<1>6. PutByte(b, k, byte) = r
  BY <1>1, <1>3, <1>4, <1>5 DEF PutByte
<1>7. /\ r \in Buffers /\ r[n] = x /\ r[n + 1] = y
      /\ \A i \in 0 .. 2 * Bytes : i # n /\ i # n + 1 => r[i] = b[i]
  BY <1>2, <1>5 DEF Buffers
<1>8. QED
  BY <1>1, <1>2, <1>3, <1>4, <1>6, <1>7

\* The buffers of sha1_file_name with the slash in its place.
Slashed == {b \in Buffers : b[2] = HexSlash}

LEMMA FreshSlashed == FreshName \in Slashed
<1>1. 2 \in 0 .. 2 * Bytes
  BY BytesFact
<1>2. HexSlash \in Byte /\ HexNul \in Byte
  BY DEF HexSlash, HexNul, Byte
<1>3. FreshName \in Buffers
  BY <1>2 DEF FreshName, Buffers
<1>4. FreshName[2] = HexSlash
  BY <1>1 DEF FreshName
<1>5. QED
  BY <1>3, <1>4 DEF Slashed

\* f is the function of EarlierName.
Puts(f) ==
  f = [k \in 0 .. Bytes |-> IF k = 0 THEN FreshName ELSE PutByte(f[k - 1], k - 1, Earlier[k])]

LEMMA PutSlashed ==
  ASSUME NEW k \in 1 .. Bytes, NEW b \in Slashed
  PROVE  PutByte(b, k - 1, Earlier[k]) \in Slashed
<1>1. Earlier[k] \in Byte /\ k - 1 \in 0 .. Bytes - 1
  BY HexAssumption, BytesFact DEF Byte
<1>2. b \in Buffers /\ b[2] = HexSlash
  BY DEF Slashed
<1>3. QED
  BY <1>1, <1>2, PutByteSlots DEF Slashed

\* An earlier call leaves a buffer with its slash.
LEMMA EarlierSlashed == EarlierName \in Slashed
<1> DEFINE puts == [k \in 1 .. Bytes |-> [b \in Slashed |-> PutByte(b, k - 1, Earlier[k])]]
<1>1. puts \in [1 .. Bytes -> [Slashed -> Slashed]]
  BY PutSlashed
<1>2. \A k \in 1 .. Bytes, b \in Slashed : puts[k][b] = PutByte(b, k - 1, Earlier[k])
  OBVIOUS
<1> HIDE DEF puts
<1>3. PICK f : Iterates(f, Bytes, Slashed, FreshName, puts)
  BY <1>1, FreshSlashed, BytesFact, IteratesExist, LeastNumber, Zenon
<1>4. f \in [0 .. Bytes -> Slashed] /\ f[0] = FreshName
  BY <1>3 DEF Iterates
<1>5. ASSUME NEW k \in 1 .. Bytes PROVE f[k] = PutByte(f[k - 1], k - 1, Earlier[k])
  <2>1. f[k - 1] \in Slashed
    BY <1>4, BytesFact
  <2>2. f[k] = puts[k][f[k - 1]]
    BY <1>3 DEF Iterates
  <2>3. QED
    BY <1>2, <2>1, <2>2
<1>6. Puts(f)
  <2>1. ASSUME NEW k \in 0 .. Bytes
        PROVE  f[k] = IF k = 0 THEN FreshName ELSE PutByte(f[k - 1], k - 1, Earlier[k])
    <3>1. k = 0 \/ k \in 1 .. Bytes
      BY BytesFact
    <3>2. QED
      BY <1>4, <1>5, <3>1, Zenon
  <2>2. QED
    BY <1>4, <2>1, Zenon DEF Puts
<1> DEFINE g[k \in 0 .. Bytes] ==
             IF k = 0 THEN FreshName ELSE PutByte(g[k - 1], k - 1, Earlier[k])
<1>7. Puts(g)
  <2>1. f = [k \in 0 .. Bytes |->
               IF k = 0 THEN FreshName ELSE PutByte(f[k - 1], k - 1, Earlier[k])]
    BY <1>6 DEF Puts
  <2>2. QED
    BY <2>1 DEF Puts
<1>8. EarlierName = g[Bytes]
  BY DEF EarlierName
<1> HIDE DEF g
<1> DEFINE T == {k \in 0 .. Bytes : g[k] \in Slashed}
<1>9. 0 \in T
  <2>1. 0 \in 0 .. Bytes
    BY BytesFact
  <2>2. g[0] = FreshName
    BY <1>7, <2>1 DEF Puts
  <2>3. QED
    BY <2>1, <2>2, FreshSlashed
<1>10. ASSUME NEW k \in 1 .. Bytes, k - 1 \in T PROVE k \in T
  <2>1. k \in 0 .. Bytes /\ k # 0
    BY BytesFact
  <2>2. g[k] = PutByte(g[k - 1], k - 1, Earlier[k])
    BY <1>7, <2>1, Zenon DEF Puts
  <2>3. g[k - 1] \in Slashed
    BY <1>10
  <2>4. QED
    BY <2>1, <2>2, <2>3, PutSlashed
<1>11. Bytes \in T
  <2> HIDE DEF T
  <2>1. 0 .. Bytes \subseteq T
    BY <1>9, <1>10, BytesFact, InductionUpTo, LeastNumber
  <2>2. QED
    BY <2>1, BytesFact
<1>12. QED
  BY <1>8, <1>11

-----------------------------------------------------------------------------

\* Byte k has been parsed, printed, and put into the path.
Parsed(k) ==
  /\ hex[2 * k - 1] \in HexDigits /\ hex[2 * k] \in HexDigits
  /\ sha1[k] = 16 * hexval(hex[2 * k - 1]) + hexval(hex[2 * k])

Printed(k) == text[2 * k - 1] = Lower(hex[2 * k - 1]) /\ text[2 * k] = Lower(hex[2 * k])

Named(k) == base[NamePos(k - 1)] = text[2 * k - 1] /\ base[NamePos(k - 1) + 1] = text[2 * k]

HexTypes ==
  /\ hex \in [1 .. 2 * Bytes + 1 -> Byte]
  /\ loop \in {"parse", "print", "file", "end"}
  /\ ix \in 0 .. Bytes
  /\ sha1 \in Seq(Byte) /\ Len(sha1) <= Bytes
  /\ text \in Seq(Byte)
  /\ base \in Slashed

ParseInv ==
  /\ loop = "parse" => verdict = 1 /\ Len(sha1) = ix /\ \A k \in 1 .. ix : Parsed(k)
  /\ loop \in {"print", "file"} => verdict = 0
  /\ loop = "end" => verdict \in {0, -1}
  /\ verdict = 0 => Len(sha1) = Bytes /\ \A k \in 1 .. Bytes : Parsed(k)
  /\ verdict = -1 => \E k \in 1 .. 2 * Bytes : hex[k] \notin HexDigits

PrintInv ==
  /\ loop = "parse" => text = <<>>
  /\ loop = "print" => Len(text) = 2 * ix /\ \A k \in 1 .. ix : Printed(k)
  /\ verdict = 0 /\ loop \in {"file", "end"} =>
       Len(text) = 2 * Bytes /\ \A k \in 1 .. Bytes : Printed(k)

NameInv ==
  /\ loop = "file" => \A k \in 1 .. ix : Named(k)
  /\ verdict = 0 /\ loop = "end" => \A k \in 1 .. Bytes : Named(k)

\* The inductive invariant of the three loops.
HexInv == HexTypes /\ ParseInv /\ PrintInv /\ NameInv

\* The two characters that get_sha1_hex looks at.
LEMMA ValValue ==
  ASSUME HexTypes, ix < Bytes
  PROVE  /\ ix + 1 \in 1 .. Bytes /\ ix \in Nat
         /\ IsByte <=> hex[2 * ix + 1] \in HexDigits /\ hex[2 * ix + 2] \in HexDigits
         /\ IsByte => Val \in Byte
                   /\ Val = 16 * hexval(hex[2 * ix + 1]) + hexval(hex[2 * ix + 2])
<1>1. ix \in Nat /\ ix + 1 \in 1 .. Bytes
  BY BytesFact DEF HexTypes
<1>2. 2 * ix + 1 \in 1 .. 2 * Bytes + 1 /\ 2 * ix + 2 \in 1 .. 2 * Bytes + 1
  BY <1>1, BytesFact
<1>3. PICK ch \in Byte : ch = hex[2 * ix + 1]
  BY <1>2 DEF HexTypes
<1>4. PICK d \in Byte : d = hex[2 * ix + 2]
  BY <1>2 DEF HexTypes
<1>5. /\ ch \in HexDigits <=> hexval(ch) # NotHex
      /\ d \in HexDigits <=> hexval(d) # NotHex
      /\ ch \in HexDigits => hexval(ch) \in 0 .. 15
      /\ d \in HexDigits => hexval(d) \in 0 .. 15
  BY DigitValue
<1>6. Val = IF hexval(ch) = NotHex \/ hexval(d) = NotHex THEN NotHex ELSE 16 * hexval(ch) + hexval(d)
  BY <1>3, <1>4 DEF Val
<1>7. CASE ch \in HexDigits /\ d \in HexDigits
  <2>1. PICK h \in 0 .. 15 : h = hexval(ch)
    BY <1>5, <1>7
  <2>2. PICK l \in 0 .. 15 : l = hexval(d)
    BY <1>5, <1>7
  <2>3. Val = 16 * h + l /\ Val \in Byte
    BY <1>5, <1>6, <1>7, <2>1, <2>2, Halves
  <2>4. Val # NotHex
    BY <2>1, <2>2, <2>3 DEF NotHex
  <2>5. QED
    BY <1>1, <1>3, <1>4, <1>7, <2>1, <2>2, <2>3, <2>4 DEF IsByte
<1>8. CASE ~(ch \in HexDigits /\ d \in HexDigits)
  <2>1. Val = NotHex
    BY <1>5, <1>6, <1>8
  <2>2. QED
    BY <1>1, <1>3, <1>4, <1>8, <2>1 DEF IsByte
<1>9. QED
  BY <1>7, <1>8

\* The digits of a byte that has been parsed.
LEMMA ParsedDigits ==
  ASSUME HexTypes, NEW k \in 1 .. Bytes, Parsed(k)
  PROVE  /\ sha1[k] \in Byte
         /\ HexChar(sha1[k] \div 16) = Lower(hex[2 * k - 1])
         /\ HexChar(sha1[k] % 16) = Lower(hex[2 * k])
         /\ HexChar(sha1[k] \div 16) \in Byte /\ HexChar(sha1[k] % 16) \in Byte
<1>1. 2 * k - 1 \in 1 .. 2 * Bytes + 1 /\ 2 * k \in 1 .. 2 * Bytes + 1
  BY BytesFact
<1>2. PICK ch \in Byte : ch = hex[2 * k - 1] /\ ch \in HexDigits
  BY <1>1 DEF HexTypes, Parsed
<1>3. PICK d \in Byte : d = hex[2 * k] /\ d \in HexDigits
  BY <1>1 DEF HexTypes, Parsed
<1>4. PICK h \in 0 .. 15 : h = hexval(ch) /\ HexChar(h) = Lower(ch)
  BY <1>2, DigitValue
<1>5. PICK l \in 0 .. 15 : l = hexval(d) /\ HexChar(l) = Lower(d)
  BY <1>3, DigitValue
<1>6. sha1[k] = 16 * h + l
  BY <1>2, <1>3, <1>4, <1>5 DEF Parsed
<1>7. sha1[k] \in Byte /\ sha1[k] \div 16 = h /\ sha1[k] % 16 = l
  BY <1>6, Halves
<1>8. QED
  BY <1>2, <1>3, <1>4, <1>5, <1>7, HexCharType

LEMMA HexInitInv == HexInit => HexInv
<1> SUFFICES ASSUME HexInit PROVE HexInv
  OBVIOUS
<1>1. HexTypes
  <2>1. hex \in [1 .. 2 * Bytes + 1 -> Byte]
    BY HexAssumption DEF HexInit, Byte
  <2>2. base \in Slashed
    BY FreshSlashed, EarlierSlashed DEF HexInit
  <2>3. <<>> \in Seq(Byte) /\ Len(<<>>) = 0
    OBVIOUS
  <2>4. 0 \in 0 .. Bytes /\ 0 <= Bytes
    BY BytesFact
  <2>5. QED
    BY <2>1, <2>2, <2>3, <2>4 DEF HexInit, HexTypes
<1>2. ParseInv
  BY DEF HexInit, ParseInv
<1>3. QED
  BY <1>1, <1>2 DEF HexInit, HexInv, PrintInv, NameInv

LEMMA ParseByteInv == ASSUME HexInv, ParseByte PROVE HexInv'
<1>1. /\ loop = "parse" /\ ix < Bytes /\ IsByte /\ sha1' = Append(sha1, Val) /\ ix' = ix + 1
      /\ hex' = hex /\ loop' = loop /\ verdict' = verdict /\ text' = text /\ base' = base
  BY DEF ParseByte
<1>2. HexTypes /\ Len(sha1) = ix /\ verdict = 1 /\ sha1 \in Seq(Byte)
      /\ \A k \in 1 .. ix : Parsed(k)
  BY <1>1 DEF HexInv, ParseInv, HexTypes
<1>3. /\ ix + 1 \in 1 .. Bytes /\ ix \in Nat
      /\ hex[2 * ix + 1] \in HexDigits /\ hex[2 * ix + 2] \in HexDigits
      /\ Val \in Byte /\ Val = 16 * hexval(hex[2 * ix + 1]) + hexval(hex[2 * ix + 2])
  BY <1>1, <1>2, ValValue
<1>4. /\ sha1' \in Seq(Byte) /\ Len(sha1') = ix + 1 /\ sha1'[ix + 1] = Val
      /\ \A k \in 1 .. ix : sha1'[k] = sha1[k]
  BY <1>1, <1>2, <1>3
<1>5. ASSUME NEW k \in 1 .. ix' PROVE Parsed(k)'
  <2>1. CASE k = ix + 1
    <3>1. 2 * k - 1 = 2 * ix + 1 /\ 2 * k = 2 * ix + 2
      BY <1>3, <2>1
    <3>2. QED
      BY <1>1, <1>3, <1>4, <2>1, <3>1 DEF Parsed
  <2>2. CASE k # ix + 1
    <3>1. k \in 1 .. ix
      BY <1>1, <1>3, <2>2
    <3>2. QED
      BY <1>1, <1>2, <1>4, <3>1 DEF Parsed
  <2>3. QED
    BY <2>1, <2>2
<1>6. HexTypes'
  <2>1. ix' \in 0 .. Bytes /\ Len(sha1') <= Bytes
    BY <1>1, <1>3, <1>4, BytesFact
  <2>2. QED
    BY <1>1, <1>2, <1>4, <2>1 DEF HexTypes
<1>7. ParseInv'
  BY <1>1, <1>2, <1>4, <1>5 DEF ParseInv
<1>8. QED
  BY <1>1, <1>2, <1>6, <1>7 DEF HexInv, PrintInv, NameInv

LEMMA ParseFailsInv == ASSUME HexInv, ParseFails PROVE HexInv'
<1>1. /\ loop = "parse" /\ ix < Bytes /\ ~IsByte /\ verdict' = -1 /\ loop' = "end"
      /\ UNCHANGED <<hex, ix, sha1, text, base>>
  BY DEF ParseFails
<1>2. HexTypes' /\ HexTypes
  BY <1>1 DEF HexInv, HexTypes
<1>3. /\ ix \in Nat /\ ix + 1 \in 1 .. Bytes
      /\ ~(hex[2 * ix + 1] \in HexDigits /\ hex[2 * ix + 2] \in HexDigits)
  BY <1>1, <1>2, ValValue
<1>4. 2 * ix + 1 \in 1 .. 2 * Bytes /\ 2 * ix + 2 \in 1 .. 2 * Bytes
  BY <1>3, BytesFact
<1>5. ParseInv'
  BY <1>1, <1>3, <1>4 DEF ParseInv
<1>6. QED
  BY <1>1, <1>2, <1>5 DEF HexInv, PrintInv, NameInv

LEMMA ParseDoneInv == ASSUME HexInv, ParseDone PROVE HexInv'
<1>1. /\ loop = "parse" /\ ix = Bytes /\ verdict' = 0 /\ loop' = "print" /\ ix' = 0
      /\ hex' = hex /\ sha1' = sha1 /\ text' = text /\ base' = base
  BY DEF ParseDone
<1>2. HexTypes'
  BY <1>1, BytesFact DEF HexInv, HexTypes
<1>3. Len(sha1) = Bytes /\ \A k \in 1 .. Bytes : Parsed(k)
  BY <1>1 DEF HexInv, ParseInv
<1>4. ParseInv'
  BY <1>1, <1>3 DEF ParseInv, Parsed
<1>5. text' = <<>>
  BY <1>1 DEF HexInv, PrintInv
<1>6. PrintInv'
  BY <1>1, <1>5 DEF PrintInv
<1>7. QED
  BY <1>1, <1>2, <1>4, <1>6 DEF HexInv, NameInv

LEMMA PrintByteInv == ASSUME HexInv, PrintByte PROVE HexInv'
<1>1. /\ loop = "print" /\ ix < Bytes /\ ix' = ix + 1
      /\ text' = text \o <<HexChar(sha1[ix + 1] \div 16), HexChar(sha1[ix + 1] % 16)>>
      /\ hex' = hex /\ loop' = loop /\ sha1' = sha1 /\ verdict' = verdict /\ base' = base
  BY DEF PrintByte
<1>2. /\ HexTypes /\ verdict = 0 /\ text \in Seq(Byte) /\ Len(text) = 2 * ix
      /\ (\A k \in 1 .. ix : Printed(k)) /\ \A k \in 1 .. Bytes : Parsed(k)
  BY <1>1 DEF HexInv, ParseInv, PrintInv, HexTypes
<1>3. ix \in Nat /\ ix + 1 \in 1 .. Bytes
  BY <1>1, <1>2, ValValue
<1>4. PICK x \in Byte : x = HexChar(sha1[ix + 1] \div 16) /\ x = Lower(hex[2 * (ix + 1) - 1])
  BY <1>2, <1>3, ParsedDigits
<1>5. PICK y \in Byte : y = HexChar(sha1[ix + 1] % 16) /\ y = Lower(hex[2 * (ix + 1)])
  BY <1>2, <1>3, ParsedDigits
<1>6. PICK t \in Seq(Byte) : t = text /\ Len(t) = 2 * ix
  BY <1>2
<1>7. text' = t \o <<x, y>>
  BY <1>1, <1>4, <1>5, <1>6
<1>8. /\ text' \in Seq(Byte) /\ Len(text') = 2 * ix + 2
      /\ text'[2 * ix + 1] = x /\ text'[2 * ix + 2] = y
      /\ \A i \in 1 .. 2 * ix : text'[i] = t[i]
  BY <1>6, <1>7, TwoMore
<1>9. ASSUME NEW k \in 1 .. ix' PROVE Printed(k)'
  <2>1. CASE k = ix + 1
    <3>1. 2 * k - 1 = 2 * ix + 1 /\ 2 * k = 2 * ix + 2
      BY <1>3, <2>1
    <3>2. QED
      BY <1>1, <1>4, <1>5, <1>8, <2>1, <3>1 DEF Printed
  <2>2. CASE k # ix + 1
    <3>1. k \in 1 .. ix /\ 2 * k - 1 \in 1 .. 2 * ix /\ 2 * k \in 1 .. 2 * ix
      BY <1>1, <1>3, <2>2
    <3>2. QED
      BY <1>1, <1>2, <1>6, <1>8, <3>1 DEF Printed
  <2>3. QED
    BY <2>1, <2>2
<1>10. HexTypes'
  <2>1. ix' \in 0 .. Bytes
    BY <1>1, <1>3, BytesFact
  <2>2. QED
    BY <1>1, <1>2, <1>8, <2>1 DEF HexTypes
<1>11. ParseInv'
  BY <1>1, <1>2 DEF HexInv, ParseInv, Parsed
<1>12. PrintInv'
  <2>1. Len(text') = 2 * ix'
    BY <1>1, <1>3, <1>8
  <2>2. QED
    BY <1>1, <1>9, <2>1 DEF PrintInv
<1>13. QED
  BY <1>1, <1>10, <1>11, <1>12 DEF HexInv, NameInv

LEMMA PrintDoneInv == ASSUME HexInv, PrintDone PROVE HexInv'
<1>1. /\ loop = "print" /\ ix = Bytes /\ loop' = "file" /\ ix' = 0
      /\ hex' = hex /\ sha1' = sha1 /\ verdict' = verdict /\ text' = text /\ base' = base
  BY DEF PrintDone
<1>2. HexTypes'
  BY <1>1, BytesFact DEF HexInv, HexTypes
<1>3. ParseInv'
  BY <1>1 DEF HexInv, ParseInv, Parsed
<1>4. Len(text) = 2 * Bytes /\ \A k \in 1 .. Bytes : Printed(k)
  BY <1>1 DEF HexInv, PrintInv
<1>5. PrintInv'
  BY <1>1, <1>4 DEF PrintInv, Printed
<1>6. NameInv'
  BY <1>1 DEF NameInv
<1>7. QED
  BY <1>2, <1>3, <1>5, <1>6 DEF HexInv

LEMMA NameByteInv == ASSUME HexInv, NameByte PROVE HexInv'
<1>1. /\ loop = "file" /\ ix < Bytes /\ ix' = ix + 1 /\ base' = PutByte(base, ix, sha1[ix + 1])
      /\ hex' = hex /\ loop' = loop /\ sha1' = sha1 /\ verdict' = verdict /\ text' = text
  BY DEF NameByte
<1>2. /\ HexTypes /\ verdict = 0 /\ base \in Buffers /\ base[2] = HexSlash
      /\ (\A k \in 1 .. Bytes : Parsed(k)) /\ (\A k \in 1 .. Bytes : Printed(k))
      /\ \A k \in 1 .. ix : Named(k)
  BY <1>1 DEF HexInv, ParseInv, PrintInv, NameInv, HexTypes, Slashed
<1>3. ix \in Nat /\ ix + 1 \in 1 .. Bytes /\ ix \in 0 .. Bytes - 1
  BY <1>1, <1>2, ValValue, BytesFact
<1>4. /\ sha1[ix + 1] \in Byte
      /\ HexChar(sha1[ix + 1] \div 16) = Lower(hex[2 * (ix + 1) - 1])
      /\ HexChar(sha1[ix + 1] % 16) = Lower(hex[2 * (ix + 1)])
  BY <1>2, <1>3, ParsedDigits
<1>5. /\ base' \in Buffers /\ base'[2] = base[2]
      /\ base'[NamePos(ix)] = HexChar(sha1[ix + 1] \div 16)
      /\ base'[NamePos(ix) + 1] = HexChar(sha1[ix + 1] % 16)
      /\ \A i \in 0 .. 2 * Bytes : i # NamePos(ix) /\ i # NamePos(ix) + 1 => base'[i] = base[i]
  BY <1>1, <1>2, <1>3, <1>4, PutByteSlots
<1>6. ASSUME NEW k \in 1 .. ix' PROVE Named(k)'
  <2>1. CASE k = ix + 1
    <3>1. k - 1 = ix
      BY <1>3, <2>1
    <3>2. Printed(ix + 1)
      BY <1>2, <1>3
    <3>3. QED
      BY <1>1, <1>4, <1>5, <2>1, <3>1, <3>2 DEF Printed, Named
  <2>2. CASE k # ix + 1
    <3>1. k \in 1 .. ix
      BY <1>1, <1>3, <2>2
    <3>2. PICK n : n = NamePos(k - 1)
      OBVIOUS
    <3>3. /\ n \in 0 .. 2 * Bytes /\ n # NamePos(ix) /\ n # NamePos(ix) + 1
          /\ n + 1 \in 0 .. 2 * Bytes /\ n + 1 # NamePos(ix) /\ n + 1 # NamePos(ix) + 1
      BY <1>3, <3>1, <3>2, BytesFact DEF NamePos
    <3>4. base'[n] = base[n] /\ base'[n + 1] = base[n + 1]
      BY <1>5, <3>3
    <3>5. QED
      BY <1>1, <1>2, <3>1, <3>2, <3>4 DEF Named
  <2>3. QED
    BY <2>1, <2>2
<1>7. HexTypes'
  <2>1. ix' \in 0 .. Bytes
    BY <1>1, <1>3, BytesFact
  <2>2. base' \in Slashed
    BY <1>2, <1>5 DEF Slashed
  <2>3. QED
    BY <1>1, <1>2, <2>1, <2>2 DEF HexTypes
<1>8. ParseInv' /\ PrintInv'
  BY <1>1 DEF HexInv, ParseInv, PrintInv, Parsed, Printed
<1>9. NameInv'
  BY <1>1, <1>6 DEF NameInv
<1>10. QED
  BY <1>7, <1>8, <1>9 DEF HexInv

LEMMA NameDoneInv == ASSUME HexInv, NameDone PROVE HexInv'
<1>1. /\ loop = "file" /\ ix = Bytes /\ loop' = "end" /\ ix' = ix
      /\ hex' = hex /\ sha1' = sha1 /\ verdict' = verdict /\ text' = text /\ base' = base
  BY DEF NameDone
<1>2. HexTypes' /\ ParseInv' /\ PrintInv'
  BY <1>1 DEF HexInv, HexTypes, ParseInv, PrintInv, Parsed, Printed
<1>3. NameInv'
  BY <1>1 DEF HexInv, NameInv, Named
<1>4. QED
  BY <1>2, <1>3 DEF HexInv

LEMMA HexNextInv == HexInv /\ [HexNext]_conversion => HexInv'
<1> SUFFICES ASSUME HexInv, [HexNext]_conversion PROVE HexInv'
  OBVIOUS
<1>1. CASE UNCHANGED conversion
  BY <1>1 DEF conversion, HexInv, HexTypes, ParseInv, PrintInv, NameInv, Parsed, Printed, Named
<1>2. QED
  BY <1>1, ParseByteInv, ParseFailsInv, ParseDoneInv, PrintByteInv, PrintDoneInv,
     NameByteInv, NameDoneInv DEF HexNext

\* A character belongs to a byte.
LEMMA CharOfByte ==
  ASSUME NEW i \in 1 .. 2 * Bytes
  PROVE  \E k \in 1 .. Bytes : i = 2 * k - 1 \/ i = 2 * k
<1>1. PICK k : k = (i + 1) \div 2
  OBVIOUS
<1>2. k \in 1 .. Bytes /\ (i = 2 * k - 1 \/ i = 2 * k)
  BY <1>1, BytesFact
<1>3. QED
  BY <1>2

\* What HexInv says when get_sha1_hex has returned.
LEMMA HexInvParse == HexInv => ParseCorrect
<1> SUFFICES ASSUME HexInv PROVE ParseCorrect
  OBVIOUS
<1>1. verdict # 1 => (verdict = 0 <=> \A k \in 1 .. 2 * Bytes : hex[k] \in HexDigits)
  <2>1. verdict = 0 => \A i \in 1 .. 2 * Bytes : hex[i] \in HexDigits
    <3> SUFFICES ASSUME verdict = 0, NEW i \in 1 .. 2 * Bytes PROVE hex[i] \in HexDigits
      OBVIOUS
    <3>1. PICK k \in 1 .. Bytes : i = 2 * k - 1 \/ i = 2 * k
      BY CharOfByte
    <3>2. Parsed(k)
      BY DEF HexInv, ParseInv
    <3>3. QED
      BY <3>1, <3>2 DEF Parsed
  <2>2. verdict # 1 /\ verdict # 0 => \E k \in 1 .. 2 * Bytes : hex[k] \notin HexDigits
    BY DEF HexInv, ParseInv, HexTypes
  <2>3. QED
    BY <2>1, <2>2
<1>2. ASSUME loop = "file" PROVE text = [k \in 1 .. 2 * Bytes |-> Lower(hex[k])]
  <2>1. text \in Seq(Byte) /\ Len(text) = 2 * Bytes /\ \A k \in 1 .. Bytes : Printed(k)
    BY <1>2 DEF HexInv, HexTypes, ParseInv, PrintInv
  <2>2. \A i \in 1 .. 2 * Bytes : text[i] = Lower(hex[i])
    <3> SUFFICES ASSUME NEW i \in 1 .. 2 * Bytes PROVE text[i] = Lower(hex[i])
      OBVIOUS
    <3>1. PICK k \in 1 .. Bytes : i = 2 * k - 1 \/ i = 2 * k
      BY CharOfByte
    <3>2. QED
      BY <2>1, <3>1 DEF Printed
  <2>3. text = [i \in 1 .. 2 * Bytes |-> text[i]]
    BY <2>1
  <2>4. QED
    BY <2>2, <2>3
<1>3. QED
  BY <1>1, <1>2 DEF ParseCorrect

(***************************************************************************)
(* get_sha1_hex accepts exactly the strings of hex digits, whatever stands *)
(* behind them, and sha1_to_hex prints the parsed bytes in lower case, for *)
(* every string and every number of bytes.                                 *)
(***************************************************************************)
THEOREM ParseIsCorrect == HexSpec => []ParseCorrect
BY HexInvParse, HexInitInv, HexNextInv, PTL DEF HexSpec

\* What it says when sha1_file_name has returned.
LEMMA HexInvName == HexInv => FileNameRight
<1> SUFFICES ASSUME HexInv, loop = "end", verdict = 0
    PROVE  /\ base[2] = HexSlash
           /\ \A k \in 1 .. 2 : base[k - 1] = text[k]
           /\ \A k \in 3 .. 2 * Bytes : base[k] = text[k]
  BY DEF FileNameRight
<1>1. base[2] = HexSlash /\ \A k \in 1 .. Bytes : Named(k)
  BY DEF HexInv, HexTypes, Slashed, NameInv
<1>2. base[0] = text[1] /\ base[1] = text[2]
  <2>1. Named(1)
    BY <1>1, BytesFact
  <2>2. NamePos(0) = 0
    BY DEF NamePos
  <2>3. QED
    BY <2>1, <2>2 DEF Named
<1>3. ASSUME NEW i \in 3 .. 2 * Bytes PROVE base[i] = text[i]
  <2>1. i \in 1 .. 2 * Bytes
    BY BytesFact
  <2>2. PICK k \in 1 .. Bytes : i = 2 * k - 1 \/ i = 2 * k
    BY <2>1, CharOfByte
  <2>3. k - 1 > 0 /\ NamePos(k - 1) = 2 * k - 1
    BY <1>3, <2>2 DEF NamePos
  <2>4. Named(k) /\ NamePos(k - 1) + 1 = 2 * k
    BY <1>1, <2>3
  <2>5. QED
    BY <2>2, <2>3, <2>4 DEF Named
<1>4. QED
  BY <1>1, <1>2, <1>3

(***************************************************************************)
(* sha1_file_name leaves the printed name in its static buffer, with the   *)
(* slash behind the second digit, whatever an earlier call wrote there.    *)
(***************************************************************************)
THEOREM FileNameIsRight == HexSpec => []FileNameRight
BY HexInvName, HexInitInv, HexNextInv, PTL DEF HexSpec

\* HexInv includes the types.
LEMMA HexInvTypes == HexInv => HexTypeOK
<1> SUFFICES ASSUME HexInv PROVE HexTypeOK
  OBVIOUS
<1>1. verdict \in {-1, 0, 1}
  BY DEF HexInv, HexTypes, ParseInv
<1>2. base \in [0 .. 2 * Bytes -> 0 .. 255]
  BY DEF HexInv, HexTypes, Slashed, Buffers, Byte
<1>3. QED
  BY <1>1, <1>2 DEF HexInv, HexTypes, HexTypeOK, Byte

(***************************************************************************)
(* The loops over the digits stay inside the string and the buffers.       *)
(***************************************************************************)
THEOREM HexTypesHold == HexSpec => []HexTypeOK
BY HexInvTypes, HexInitInv, HexNextInv, PTL DEF HexSpec

-----------------------------------------------------------------------------
\* Strings without special characters: remove_special

\* One round of the loop that defines Kept(s).
Keep(s, k, q) == IF s[k] \in Special THEN q ELSE Append(q, s[k])

Keeps(f, s) == f = [k \in 0 .. Len(s) |-> IF k = 0 THEN <<>> ELSE Keep(s, k, f[k - 1])]

LEMMA KeepType ==
  ASSUME NEW s \in Seq(Character), NEW k \in 1 .. Len(s), NEW q \in Seq(Character)
  PROVE  Keep(s, k, q) \in Seq(Character)
<1>1. s[k] \in Character
  OBVIOUS
<1>2. QED
  BY <1>1 DEF Keep

LEMMA KeptExists == ASSUME NEW s \in Seq(Character) PROVE \E f : Keeps(f, s)
<1> DEFINE n == Len(s)
           keep == [k \in 1 .. n |-> [q \in Seq(Character) |-> Keep(s, k, q)]]
<1>1. n \in Nat /\ keep \in [1 .. n -> [Seq(Character) -> Seq(Character)]]
      /\ <<>> \in Seq(Character)
  BY KeepType
<1>2. \A k \in 1 .. n, q \in Seq(Character) : keep[k][q] = Keep(s, k, q)
  OBVIOUS
<1> HIDE DEF keep
<1>3. PICK f : Iterates(f, n, Seq(Character), <<>>, keep)
  BY <1>1, IteratesExist, LeastNumber, Zenon
<1>4. f \in [0 .. n -> Seq(Character)] /\ f[0] = <<>>
  BY <1>3 DEF Iterates
<1>5. ASSUME NEW k \in 1 .. n PROVE f[k] = Keep(s, k, f[k - 1])
  <2>1. f[k - 1] \in Seq(Character)
    BY <1>1, <1>4
  <2>2. f[k] = keep[k][f[k - 1]]
    BY <1>3 DEF Iterates
  <2>3. QED
    BY <1>2, <2>1, <2>2
<1>6. Keeps(f, s)
  <2>1. ASSUME NEW k \in 0 .. n PROVE f[k] = IF k = 0 THEN <<>> ELSE Keep(s, k, f[k - 1])
    <3>1. k = 0 \/ k \in 1 .. n
      BY <1>1
    <3>2. QED
      BY <1>4, <1>5, <3>1, Zenon
  <2>2. QED
    BY <1>4, <2>1, Zenon DEF Keeps
<1>7. QED
  BY <1>6

LEMMA KeptKeeps == ASSUME NEW s \in Seq(Character) PROVE Keeps(Kept(s), s)
<1>1. PICK f : Keeps(f, s)
  BY KeptExists
<1>2. f = [k \in 0 .. Len(s) |->
             IF k = 0 THEN <<>> ELSE IF s[k] \in Special THEN f[k - 1] ELSE Append(f[k - 1], s[k])]
  BY <1>1 DEF Keeps, Keep
<1> DEFINE kept[k \in 0 .. Len(s)] ==
      IF k = 0 THEN <<>> ELSE IF s[k] \in Special THEN kept[k - 1] ELSE Append(kept[k - 1], s[k])
<1>3. kept = [k \in 0 .. Len(s) |->
             IF k = 0 THEN <<>>
             ELSE IF s[k] \in Special THEN kept[k - 1] ELSE Append(kept[k - 1], s[k])]
  BY <1>2
<1>4. Kept(s) = kept
  BY DEF Kept
<1> HIDE DEF kept
<1>5. QED
  BY <1>3, <1>4 DEF Keeps, Keep

\* A clean string is short and holds no special character and no NUL.
Clean(q, k) ==
  /\ q \in Seq(Character) /\ Len(q) <= k
  /\ \A i \in 1 .. Len(q) : q[i] \notin Special /\ q[i] # TextEnd

LEMMA TextFacts ==
  ASSUME NEW s \in Texts
  PROVE  /\ s \in Seq(Character) /\ Len(s) \in Nat \ {0}
         /\ s[Len(s)] = TextEnd /\ TextEnd \notin Special
         /\ \A k \in 1 .. Len(s) - 1 : s[k] \in Character /\ s[k] # TextEnd
<1>1. s \in Seq(Character) /\ s # <<>>
  BY TextsAssumption
<1>2. Len(s) \in Nat \ {0} /\ \A k \in 1 .. Len(s) : s[k] \in Character
  BY <1>1
<1>3. \A k \in 1 .. Len(s) - 1 : s[k] \in Character
  BY <1>2
<1>4. QED
  BY <1>1, <1>2, <1>3, TextsAssumption

\* One more character.
LEMMA KeptStep ==
  ASSUME NEW s \in Seq(Character), NEW k \in 1 .. Len(s)
  PROVE  Kept(s)[k] = Keep(s, k, Kept(s)[k - 1])
<1>1. Keeps(Kept(s), s)
  BY KeptKeeps
<1>2. k \in 0 .. Len(s) /\ k # 0
  OBVIOUS
<1>3. QED
  BY <1>1, <1>2, Zenon DEF Keeps

LEMMA KeepClean ==
  ASSUME NEW s \in Texts, NEW k \in 1 .. Len(s) - 1, NEW q, Clean(q, k - 1)
  PROVE  Clean(Keep(s, k, q), k)
<1>1. q \in Seq(Character) /\ Len(q) \in Nat /\ Len(q) <= k - 1
      /\ \A i \in 1 .. Len(q) : q[i] \notin Special /\ q[i] # TextEnd
  BY DEF Clean
<1>2. s[k] \in Character /\ s[k] # TextEnd /\ k \in Nat
  BY TextFacts
<1>3. CASE s[k] \in Special
  <2>1. Keep(s, k, q) = q /\ Len(q) <= k
    BY <1>1, <1>2, <1>3 DEF Keep
  <2>2. QED
    BY <1>1, <2>1 DEF Clean
<1>4. CASE s[k] \notin Special
  <2>1. PICK x \in Character : x = s[k]
    BY <1>2
  <2>2. PICK r : r = Append(q, x)
    OBVIOUS
  <2>3. Keep(s, k, q) = r
    BY <1>4, <2>1, <2>2 DEF Keep
  <2>4. /\ r \in Seq(Character) /\ Len(r) = Len(q) + 1
        /\ \A i \in 1 .. Len(r) : r[i] = IF i = Len(q) + 1 THEN x ELSE q[i]
    BY <1>1, <2>2
  <2>5. \A i \in 1 .. Len(r) : r[i] \notin Special /\ r[i] # TextEnd
    BY <1>1, <1>2, <1>4, <2>1, <2>4
  <2>6. Len(r) <= k
    BY <1>1, <1>2, <2>4
  <2>7. QED
    BY <2>3, <2>4, <2>5, <2>6, Zenon DEF Clean
<1>5. QED
  BY <1>3, <1>4

\* Before its NUL the string has been kept clean.
LEMMA KeptClean ==
  ASSUME NEW s \in Texts
  PROVE  \A k \in 0 .. Len(s) - 1 : Clean(Kept(s)[k], k)
<1> DEFINE n == Len(s) - 1
           T == {k \in 0 .. n : Clean(Kept(s)[k], k)}
<1>1. n \in Nat /\ s \in Seq(Character) /\ Len(s) \in Nat
  BY TextFacts
<1>2. 0 \in T
  <2>1. 0 \in 0 .. Len(s)
    BY <1>1
  <2>2. Kept(s)[0] = <<>>
    BY <1>1, <2>1, KeptKeeps DEF Keeps
  <2>3. Clean(<<>>, 0)
    BY DEF Clean
  <2>4. QED
    BY <1>1, <2>2, <2>3
<1>3. ASSUME NEW k \in 1 .. n, k - 1 \in T PROVE k \in T
  <2>1. k \in 1 .. Len(s) /\ k \in 1 .. Len(s) - 1 /\ k \in 0 .. n
    BY <1>1
  <2>2. Clean(Kept(s)[k - 1], k - 1)
    BY <1>3
  <2>3. QED
    BY <1>1, <2>1, <2>2, KeptStep, KeepClean
<1> HIDE DEF T
<1>4. 0 .. n \subseteq T
  BY <1>1, <1>2, <1>3, InductionUpTo, LeastNumber
<1>5. QED
  BY <1>4 DEF T

\* The whole string: clean, and then its NUL.
LEMMA KeptWhole ==
  ASSUME NEW s \in Texts, NEW q, q = Kept(s)[Len(s) - 1]
  PROVE  Clean(q, Len(s) - 1) /\ Kept(s)[Len(s)] = Append(q, TextEnd)
<1>1. Len(s) \in Nat \ {0} /\ s[Len(s)] = TextEnd /\ TextEnd \notin Special /\ s \in Seq(Character)
  BY TextFacts
<1>2. Len(s) \in 1 .. Len(s) /\ Len(s) - 1 \in 0 .. Len(s) - 1
  BY <1>1
<1>3. QED
  BY <1>1, <1>2, KeptClean, KeptStep DEF Keep

-----------------------------------------------------------------------------

\* The memory begins with the characters of q.
BeginsWith(m, q) == Len(q) <= Len(m) /\ \A i \in 1 .. Len(q) : m[i] = q[i]

Result == Kept(original)[Len(original)]

\* In the first call: what is left of the characters read, and the rest untouched.
FirstCall ==
  /\ p <= Len(original)
  /\ Len(Kept(original)[p - 1]) = dst - 1
  /\ BeginsWith(mem, Kept(original)[p - 1])
  /\ \A i \in p .. Len(original) : mem[i] = original[i]

\* The second call finds the result of the first and copies it onto itself.
LaterCall == BeginsWith(mem, Result) /\ p = dst /\ p <= Len(Result)

\* The inductive invariant.
CopyInv ==
  /\ original \in Texts
  /\ CopyTypeOK
  /\ IF calls = 0 THEN FirstCall ELSE LaterCall

\* The result and its NUL.
LEMMA ResultFacts ==
  ASSUME original \in Texts
  PROVE  /\ Result \in Seq(Character) /\ Len(Result) \in 1 .. Len(original)
         /\ Result[Len(Result)] = TextEnd /\ TextEnd \notin Special
         /\ \A i \in 1 .. Len(Result) - 1 : Result[i] \notin Special /\ Result[i] # TextEnd
<1>1. PICK q : q = Kept(original)[Len(original) - 1]
  OBVIOUS
<1>2. /\ Len(original) \in Nat \ {0} /\ TextEnd \notin Special /\ TextEnd \in Character
  BY TextFacts, TextsAssumption
<1>3. Result = Append(q, TextEnd) /\ Clean(q, Len(original) - 1)
  BY <1>1, KeptWhole DEF Result
<1>4. /\ q \in Seq(Character) /\ Len(q) <= Len(original) - 1 /\ Len(q) \in Nat
      /\ \A i \in 1 .. Len(q) : q[i] \notin Special /\ q[i] # TextEnd
  BY <1>3 DEF Clean
<1>5. PICK r : r = Append(q, TextEnd)
  OBVIOUS
<1>6. /\ r \in Seq(Character) /\ Len(r) = Len(q) + 1 /\ r[Len(q) + 1] = TextEnd
      /\ \A i \in 1 .. Len(q) : r[i] = q[i]
  BY <1>2, <1>4, <1>5
<1>7. /\ Len(r) \in 1 .. Len(original) /\ r[Len(r)] = TextEnd
      /\ \A i \in 1 .. Len(r) - 1 : r[i] \notin Special /\ r[i] # TextEnd
  BY <1>2, <1>4, <1>6
<1>8. QED
  BY <1>2, <1>3, <1>5, <1>6, <1>7

LEMMA CopyInitInv == CopyInit => CopyInv
<1> SUFFICES ASSUME CopyInit PROVE CopyInv
  OBVIOUS
<1>1. original \in Texts /\ mem = original /\ p = 1 /\ dst = 1 /\ calls = 0
  BY DEF CopyInit
<1>2. original \in Seq(Character) /\ Len(original) \in Nat \ {0}
  BY <1>1, TextFacts
<1>3. CopyTypeOK
  BY <1>1, <1>2 DEF CopyTypeOK, MaxCalls
<1>4. Kept(original)[p - 1] = <<>>
  <2>1. 0 \in 0 .. Len(original) /\ p - 1 = 0
    BY <1>1, <1>2
  <2>2. QED
    BY <1>2, <2>1, KeptKeeps DEF Keeps
<1>5. FirstCall
  BY <1>1, <1>2, <1>4 DEF FirstCall, BeginsWith
<1>6. QED
  BY <1>1, <1>3, <1>5 DEF CopyInv

\* The pointers and the memory, as numbers and characters.
LEMMA CopyFacts ==
  ASSUME CopyInv
  PROVE  /\ original \in Texts /\ original \in Seq(Character)
         /\ Len(original) \in Nat \ {0} /\ Len(mem) = Len(original)
         /\ mem \in Seq(Character) /\ (\A i \in 1 .. Len(original) : mem[i] \in Character)
         /\ p \in Nat /\ p >= 1 /\ p <= Len(original)
         /\ dst \in Nat /\ dst >= 1 /\ dst <= p /\ calls \in 0 .. 2
<1>1. original \in Texts /\ CopyTypeOK
  BY DEF CopyInv
<1>2. original \in Seq(Character) /\ Len(original) \in Nat \ {0}
  BY <1>1, TextFacts
<1>3. /\ mem \in Seq(Character) /\ Len(mem) = Len(original)
      /\ p \in 1 .. Len(mem) /\ dst \in 1 .. p /\ calls \in 0 .. 2
  BY <1>1 DEF CopyTypeOK, MaxCalls
<1>4. \A i \in 1 .. Len(original) : mem[i] \in Character
  BY <1>3
<1>5. QED
  BY <1>1, <1>2, <1>3, <1>4

\* A string with one character replaced.
LEMMA OneReplaced ==
  ASSUME NEW m \in Seq(Character), NEW k \in 1 .. Len(m), NEW x \in Character,
         NEW r, r = [m EXCEPT ![k] = x]
  PROVE  /\ r \in Seq(Character) /\ Len(r) = Len(m)
         /\ \A i \in 1 .. Len(m) : r[i] = IF i = k THEN x ELSE m[i]
OBVIOUS

LEMMA SkipSpecialInv == ASSUME CopyInv, SkipSpecial PROVE CopyInv'
<1>1. /\ mem[p] \in Special /\ p' = p + 1 /\ calls < MaxCalls
      /\ original' = original /\ mem' = mem /\ dst' = dst /\ calls' = calls
  BY DEF SkipSpecial
<1>2. calls = 0
  <2> SUFFICES ASSUME calls # 0 PROVE FALSE
    OBVIOUS
  <2>1. LaterCall /\ original \in Texts
    BY DEF CopyInv
  <2>2. p \in 1 .. Len(Result) /\ mem[p] = Result[p]
    BY <2>1, CopyFacts, ResultFacts DEF LaterCall, BeginsWith
  <2>3. Result[p] \notin Special
    BY <2>1, <2>2, ResultFacts
  <2>4. QED
    BY <1>1, <2>2, <2>3
<1>3. FirstCall
  BY <1>2 DEF CopyInv
<1>4. mem[p] = original[p] /\ p \in 1 .. Len(original)
  BY <1>3, CopyFacts DEF FirstCall
<1>5. p + 1 <= Len(original)
  BY <1>1, <1>4, CopyFacts, TextFacts
<1>6. Kept(original)[p' - 1] = Kept(original)[p - 1]
  <2>1. Kept(original)[p] = Keep(original, p, Kept(original)[p - 1])
    BY <1>4, CopyFacts, KeptStep
  <2>2. p' - 1 = p
    BY <1>1, CopyFacts
  <2>3. QED
    BY <1>1, <1>4, <2>1, <2>2 DEF Keep
<1>7. CopyTypeOK'
  BY <1>1, <1>5, CopyFacts DEF CopyTypeOK, MaxCalls
<1>8. FirstCall'
  <2>1. p' <= Len(original')
    BY <1>1, <1>5
  <2>2. Kept(original')[p' - 1] = Kept(original)[p - 1]
    BY <1>1, <1>6, Zenon
  <2>3. \A i \in p' .. Len(original') : i \in p .. Len(original)
    BY <1>1, CopyFacts
  <2>4. QED
    BY <1>1, <1>3, <2>1, <2>2, <2>3, Zenon DEF FirstCall
<1>9. QED
  BY <1>1, <1>2, <1>7, <1>8 DEF CopyInv

LEMMA CopyCharInv == ASSUME CopyInv, CopyChar PROVE CopyInv'
<1>1. /\ mem[p] \notin Special /\ mem[p] # TextEnd /\ p' = p + 1 /\ dst' = dst + 1
      /\ mem' = [mem EXCEPT ![dst] = mem[p]] /\ calls < MaxCalls
      /\ original' = original /\ calls' = calls
  BY DEF CopyChar
<1>2. p \in 1 .. Len(mem) /\ dst \in 1 .. Len(mem) /\ mem[p] \in Character
  BY CopyFacts
<1>3. /\ mem' \in Seq(Character) /\ Len(mem') = Len(original)
      /\ \A i \in 1 .. Len(original) : mem'[i] = IF i = dst THEN mem[p] ELSE mem[i]
  BY <1>1, <1>2, CopyFacts, OneReplaced
<1>4. CASE calls = 0
  <2>1. FirstCall
    BY <1>4 DEF CopyInv
  <2>2. mem[p] = original[p] /\ p \in 1 .. Len(original)
    BY <2>1, CopyFacts DEF FirstCall
  <2>3. p + 1 <= Len(original)
    BY <1>1, <2>2, CopyFacts, TextFacts
  <2>4. PICK q : q = Kept(original)[p - 1]
    OBVIOUS
  <2>5. Kept(original)[p' - 1] = Append(q, mem[p])
    <3>1. Kept(original)[p] = Keep(original, p, q)
      BY <2>2, <2>4, CopyFacts, KeptStep
    <3>2. p' - 1 = p
      BY <1>1, CopyFacts
    <3>3. QED
      BY <1>1, <2>2, <3>1, <3>2 DEF Keep
  <2>6. q \in Seq(Character) /\ Len(q) = dst - 1 /\ \A i \in 1 .. Len(q) : mem[i] = q[i]
    <3>1. p - 1 \in 0 .. Len(original) - 1
      BY CopyFacts
    <3>2. QED
      BY <2>1, <2>4, <3>1, KeptClean, CopyFacts DEF FirstCall, BeginsWith, Clean
  <2>7. PICK r : r = Append(q, mem[p])
    OBVIOUS
  <2>8. /\ Len(r) = dst /\ r[dst] = mem[p]
        /\ \A i \in 1 .. dst - 1 : r[i] = q[i]
    BY <1>2, <2>6, <2>7, CopyFacts
  <2>9. Len(r) = dst' - 1 /\ BeginsWith(mem', r)
    <3>1. \A i \in 1 .. dst : mem'[i] = r[i]
      BY <1>3, <2>6, <2>8, CopyFacts
    <3>2. QED
      BY <1>1, <1>3, <2>8, <3>1, CopyFacts DEF BeginsWith
  <2>10. \A i \in p' .. Len(original) : mem'[i] = original[i]
    BY <1>1, <1>3, <2>1, CopyFacts DEF FirstCall
  <2>11. FirstCall'
    BY <1>1, <2>3, <2>5, <2>7, <2>9, <2>10 DEF FirstCall
  <2>12. CopyTypeOK'
    BY <1>1, <1>3, <2>3, CopyFacts DEF CopyTypeOK, MaxCalls
  <2>13. QED
    BY <1>1, <1>4, <2>11, <2>12, CopyFacts DEF CopyInv
<1>5. CASE calls # 0
  <2>1. LaterCall
    BY <1>5 DEF CopyInv
  <2>2. /\ p = dst /\ p \in 1 .. Len(Result) /\ mem[p] = Result[p] /\ Len(Result) \in Nat
        /\ Len(Result) <= Len(original) /\ Result[Len(Result)] = TextEnd
    BY <2>1, CopyFacts, ResultFacts DEF LaterCall, BeginsWith
  <2>3. p + 1 <= Len(Result)
    BY <1>1, <2>2
  <2>4. \A i \in 1 .. Len(original) : mem'[i] = mem[i]
    BY <1>3, <2>2
  <2>5. BeginsWith(mem', Result)
    BY <1>3, <2>1, <2>2, <2>4, CopyFacts DEF LaterCall, BeginsWith
  <2>6. Result' = Result
    BY <1>1 DEF Result
  <2>7. LaterCall'
    BY <1>1, <2>2, <2>3, <2>5, <2>6 DEF LaterCall
  <2>8. CopyTypeOK'
    BY <1>1, <1>3, <2>2, <2>3, CopyFacts DEF CopyTypeOK, MaxCalls
  <2>9. QED
    BY <1>1, <1>5, <2>7, <2>8, CopyFacts DEF CopyInv
<1>6. QED
  BY <1>4, <1>5

LEMMA CopyNulInv == ASSUME CopyInv, CopyNul PROVE CopyInv'
<1>1. /\ mem[p] = TextEnd /\ p' = 1 /\ dst' = 1 /\ calls' = calls + 1 /\ calls < 2
      /\ mem' = [mem EXCEPT ![dst] = TextEnd] /\ original' = original
  BY DEF CopyNul, MaxCalls
<1>2. dst \in 1 .. Len(mem) /\ TextEnd \in Character
  BY CopyFacts, TextsAssumption
<1>3. /\ mem' \in Seq(Character) /\ Len(mem') = Len(original)
      /\ \A i \in 1 .. Len(original) : mem'[i] = IF i = dst THEN TextEnd ELSE mem[i]
  BY <1>1, <1>2, CopyFacts, OneReplaced
<1>4. BeginsWith(mem', Result)
  <2>1. CASE calls = 0
    <3>1. FirstCall
      BY <2>1 DEF CopyInv
    <3>2. mem[p] = original[p] /\ p \in 1 .. Len(original)
      BY <3>1, CopyFacts DEF FirstCall
    <3>3. p = Len(original)
      BY <1>1, <3>2, CopyFacts, TextFacts
    <3>4. PICK q : q = Kept(original)[Len(original) - 1]
      OBVIOUS
    <3>5. Result = Append(q, TextEnd) /\ Clean(q, Len(original) - 1)
      BY <3>4, CopyFacts, KeptWhole DEF Result
    <3>6. q \in Seq(Character) /\ Len(q) = dst - 1 /\ \A i \in 1 .. Len(q) : mem[i] = q[i]
      BY <3>1, <3>3, <3>4, <3>5 DEF FirstCall, BeginsWith, Clean
    <3>7. PICK r : r = Append(q, TextEnd)
      OBVIOUS
    <3>8. Len(r) = dst /\ r[dst] = TextEnd /\ \A i \in 1 .. dst - 1 : r[i] = q[i]
      BY <1>2, <3>6, <3>7, CopyFacts
    <3>9. ASSUME NEW i \in 1 .. dst PROVE mem'[i] = r[i]
      <4>1. i \in 1 .. Len(original) /\ (i = dst \/ i \in 1 .. dst - 1)
        BY CopyFacts
      <4>2. CASE i = dst
        BY <1>3, <3>8, <4>1, <4>2
      <4>3. CASE i \in 1 .. dst - 1 /\ i # dst
        <5>1. mem'[i] = mem[i]
          BY <1>3, <4>1, <4>3
        <5>2. QED
          BY <3>6, <3>8, <4>3, <5>1
      <4>4. QED
        BY <4>1, <4>2, <4>3
    <3>10. QED
      BY <1>3, <3>5, <3>7, <3>8, <3>9, CopyFacts DEF BeginsWith
  <2>2. CASE calls # 0
    <3>1. LaterCall
      BY <2>2 DEF CopyInv
    <3>2. p = dst /\ Len(Result) \in Nat /\ Len(Result) <= Len(original)
      BY <3>1, CopyFacts, ResultFacts DEF LaterCall
    <3>3. \A i \in 1 .. Len(original) : mem'[i] = mem[i]
      BY <1>1, <1>3, <3>2
    <3>4. QED
      BY <1>3, <3>1, <3>2, <3>3, CopyFacts DEF LaterCall, BeginsWith
  <2>3. QED
    BY <2>1, <2>2
<1>5. Result' = Result /\ Len(Result) >= 1
  BY <1>1, CopyFacts, ResultFacts DEF Result
<1>6. LaterCall'
  BY <1>1, <1>4, <1>5 DEF LaterCall
<1>7. CopyTypeOK'
  BY <1>1, <1>3, CopyFacts DEF CopyTypeOK, MaxCalls
<1>8. calls' # 0
  BY <1>1, CopyFacts
<1>9. QED
  BY <1>1, <1>6, <1>7, <1>8, CopyFacts DEF CopyInv

LEMMA CopyNextInv == CopyInv /\ [CopyNext]_copy => CopyInv'
<1> SUFFICES ASSUME CopyInv, [CopyNext]_copy PROVE CopyInv'
  OBVIOUS
<1>1. CASE UNCHANGED copy
  BY <1>1 DEF copy, CopyInv, CopyTypeOK, FirstCall, LaterCall, BeginsWith, Result
<1>2. QED
  BY <1>1, SkipSpecialInv, CopyCharInv, CopyNulInv DEF CopyNext

\* What CopyInv says between two calls.
LEMMA CopyInvRemoved == CopyInv => SpecialRemoved
<1> SUFFICES ASSUME CopyInv, calls > 0, p = 1 PROVE StringAt(mem) = Result
  BY DEF SpecialRemoved, Result
<1>1. PICK r : r = Result
  OBVIOUS
<1>2. /\ r \in Seq(Character) /\ Len(r) \in 1 .. Len(original) /\ r[Len(r)] = TextEnd
      /\ \A i \in 1 .. Len(r) - 1 : r[i] # TextEnd
  BY <1>1, CopyFacts, ResultFacts
<1>3. \A i \in 1 .. Len(r) : mem[i] = r[i]
  <2>1. calls # 0
    BY CopyFacts
  <2>2. QED
    BY <1>1, <2>1 DEF CopyInv, LaterCall, BeginsWith
<1> DEFINE Ends(k) == mem[k] = TextEnd /\ \A j \in 1 .. k - 1 : mem[j] # TextEnd
<1>4. Len(r) \in 1 .. Len(mem) /\ Ends(Len(r))
  <2>1. Len(r) \in 1 .. Len(mem)
    BY <1>2, CopyFacts
  <2>2. Len(r) \in 1 .. Len(r) /\ \A j \in 1 .. Len(r) - 1 : j \in 1 .. Len(r)
    BY <2>1
  <2>3. mem[Len(r)] = TextEnd
    BY <1>2, <1>3, <2>2
  <2>4. \A j \in 1 .. Len(r) - 1 : mem[j] # TextEnd
    BY <1>2, <1>3, <2>2
  <2>5. QED
    BY <2>1, <2>3, <2>4
<1>5. \A k \in 1 .. Len(mem) : Ends(k) => k = Len(r)
  BY <1>2, <1>4, CopyFacts
<1>6. (CHOOSE k \in 1 .. Len(mem) : Ends(k)) = Len(r)
  <2> HIDE DEF Ends
  <2> QED BY <1>4, <1>5
<1>7. StringAt(mem) = SubSeq(mem, 1, Len(r))
  BY <1>6 DEF StringAt
<1>8. SubSeq(mem, 1, Len(r)) = r
  <2>1. Len(r) \in Nat /\ Len(r) <= Len(mem) /\ mem \in Seq(Character)
    BY <1>2, CopyFacts
  <2>2. PICK q : q = SubSeq(mem, 1, Len(r))
    OBVIOUS
  <2>3. q \in Seq(Character) /\ Len(q) = Len(r) /\ \A i \in 1 .. Len(r) : q[i] = mem[i]
    BY <2>1, <2>2
  <2>4. q = r
    BY <1>2, <1>3, <2>3
  <2>5. QED
    BY <2>2, <2>4
<1>9. QED
  BY <1>1, <1>7, <1>8

(***************************************************************************)
(* remove_special leaves its argument without the special characters and   *)
(* otherwise as it was, when it runs once and when it runs again over its  *)
(* own result, for every string.                                           *)
(***************************************************************************)
THEOREM SpecialIsRemoved == CopySpec => []SpecialRemoved
BY CopyInvRemoved, CopyInitInv, CopyNextInv, PTL DEF CopySpec

(***************************************************************************)
(* Both pointers of remove_special stay in the string and dst never passes *)
(* p, for every string.                                                    *)
(***************************************************************************)
THEOREM CopyTypes == CopySpec => []CopyTypeOK
<1>1. CopyInv => CopyTypeOK
  BY DEF CopyInv
<1>2. QED
  BY <1>1, CopyInitInv, CopyNextInv, PTL DEF CopySpec
=============================================================================
