--------------------------- MODULE CommandProofs ----------------------------
(***************************************************************************)
(* One git process is safe whatever its command line, the index it finds   *)
(* and the order of its options.                                           *)
(***************************************************************************)
EXTENDS Command, DirCacheProofs, WellFoundedInduction

\* A set of numbers has a least element.
LEMMA LeastNumber == LeastNumbers
<1> SUFFICES ASSUME NEW S \in SUBSET Nat, S # {} PROVE \E n \in S : \A m \in S : n <= m
  BY DEF LeastNumbers
<1>1. PICK n \in S : \A m \in S : ~(<<m, n>> \in OpToRel(<, Nat))
  BY WFMin, NatLessThanWellFounded
<1>2. \A m \in S : ~(m < n)
  BY <1>1 DEF OpToRel
<1>3. QED
  BY <1>2

-----------------------------------------------------------------------------
\* The command line

\* The words of one option are paths, with its argument the second of two.
LEMMA OptionWordsType ==
  ASSUME NEW o \in OptionRecord
  PROVE  /\ OptionWords(o) \in Seq(Path)
         /\ o.arg # NoArg /\ ~o.joined => OptionWords(o) = <<OptionWord, o.arg>>
<1>1. OptionWord \in Path /\ o.arg \in Path \cup {NoArg}
  BY CommandAssumption DEF OptionRecord
<1>2. CASE o.arg = NoArg \/ o.joined
  <2>1. OptionWords(o) = <<OptionWord>>
    BY <1>2 DEF OptionWords
  <2>2. QED
    BY <1>1, <1>2, <2>1
<1>3. CASE ~(o.arg = NoArg \/ o.joined)
  <2>1. o.arg \in Path
    BY <1>1, <1>3
  <2>2. OptionWords(o) = <<OptionWord, o.arg>>
    BY <1>3 DEF OptionWords
  <2>3. QED
    BY <1>1, <2>1, <2>2
<1>4. QED
  BY <1>2, <1>3

\* f is the function before of Words, for options with the words w.
Collects(f, n, w) ==
  f = [k \in 0 .. n |-> IF k = 0 THEN <<>> ELSE f[k - 1] \o w[k]]

\* That function exists.
LEMMA WordsDefined ==
  ASSUME NEW n \in Nat, NEW w \in [1 .. n -> Seq(Path)]
  PROVE  \E f : Collects(f, n, w)
<1> DEFINE step == [k \in 1 .. n |-> [s \in Seq(Path) |-> s \o w[k]]]
<1>1. step \in [1 .. n -> [Seq(Path) -> Seq(Path)]] /\ <<>> \in Seq(Path)
  OBVIOUS
<1>2. \A k \in 1 .. n, s \in Seq(Path) : step[k][s] = s \o w[k]
  OBVIOUS
<1> HIDE DEF step
<1>3. PICK f : Iterates(f, n, Seq(Path), <<>>, step)
  BY <1>1, IteratesExist, LeastNumber, Zenon
<1>4. f \in [0 .. n -> Seq(Path)] /\ f[0] = <<>>
  BY <1>3 DEF Iterates
<1>5. ASSUME NEW k \in 1 .. n PROVE f[k] = f[k - 1] \o w[k]
  <2>1. f[k - 1] \in Seq(Path)
    BY <1>4
  <2>2. f[k] = step[k][f[k - 1]]
    BY <1>3 DEF Iterates
  <2>3. QED
    BY <1>2, <2>1, <2>2
<1>6. Collects(f, n, w)
  <2>1. ASSUME NEW k \in 0 .. n PROVE f[k] = IF k = 0 THEN <<>> ELSE f[k - 1] \o w[k]
    <3>1. k = 0 \/ k \in 1 .. n
      OBVIOUS
    <3>2. QED
      BY <1>4, <1>5, <3>1, Zenon
  <2>2. QED
    BY <1>4, <2>1, Zenon DEF Collects
<1>7. QED
  BY <1>6

\* t holds the words of s, and begins with those of r.
Holds(s, t) == \A i \in 1 .. Len(s) : \E m \in 1 .. Len(t) : t[m] = s[i]

Begins(r, t) == Len(r) <= Len(t) /\ \A i \in 1 .. Len(r) : t[i] = r[i]

\* A concatenation holds its parts and begins with the first.
LEMMA Concatenation ==
  ASSUME NEW s \in Seq(Path), NEW t \in Seq(Path)
  PROVE  /\ s \o t \in Seq(Path) /\ Holds(s, s \o t) /\ Holds(t, s \o t)
         /\ Begins(s, s \o t)
         /\ \A r \in Seq(Path) : Holds(r, s) => Holds(r, s \o t)
         /\ \A r \in Seq(Path) : Begins(r, s) => Begins(r, s \o t)
<1>1. PICK u : u = s \o t
  OBVIOUS
<1>2. u \in Seq(Path) /\ Len(u) = Len(s) + Len(t) /\ Len(s) \in Nat /\ Len(t) \in Nat
  BY <1>1
<1>3. \A i \in 1 .. Len(s) : i \in 1 .. Len(u) /\ u[i] = s[i]
  BY <1>1, <1>2
<1>4. \A i \in 1 .. Len(t) : Len(s) + i \in 1 .. Len(u) /\ u[Len(s) + i] = t[i]
  BY <1>1, <1>2
<1>5. Holds(t, u)
  BY <1>4 DEF Holds
<1>6. Begins(s, u)
  BY <1>2, <1>3 DEF Begins
<1>7. ASSUME NEW r \in Seq(Path), Holds(r, s) PROVE Holds(r, u)
  BY <1>3, <1>7 DEF Holds
<1>8. ASSUME NEW r \in Seq(Path), Begins(r, s) PROVE Begins(r, u)
  <2>1. Len(r) \in Nat /\ Len(r) <= Len(s)
    BY <1>8 DEF Begins
  <2>2. \A i \in 1 .. Len(r) : i \in 1 .. Len(s)
    BY <1>2, <2>1
  <2>3. Len(r) <= Len(u)
    BY <1>2, <2>1
  <2>4. QED
    BY <1>3, <1>8, <2>2, <2>3 DEF Begins
<1>9. Holds(s, u)
  BY <1>3 DEF Holds
<1>10. QED
  BY <1>1, <1>2, <1>5, <1>6, <1>7, <1>8, <1>9

\* What that function returns for all words is made of paths, holds the words
\* of each option and begins with those of the first.
LEMMA WordsCollected ==
  ASSUME NEW n \in Nat, NEW w \in [1 .. n -> Seq(Path)],
         NEW f, Collects(f, n, w)
  PROVE  /\ f[n] \in Seq(Path) /\ \A j \in 1 .. n : Holds(w[j], f[n])
         /\ n # 0 => Begins(w[1], f[n])
<1> DEFINE Good(k) == /\ f[k] \in Seq(Path) /\ \A j \in 1 .. k : Holds(w[j], f[k])
                      /\ k # 0 => Begins(w[1], f[k])
           T == {k \in 0 .. n : Good(k)}
<1>1. f[0] = <<>>
  BY DEF Collects
<1>2. 0 \in T
  <2>1. f[0] \in Seq(Path)
    BY <1>1
  <2>2. 1 .. 0 = {} /\ 0 \in 0 .. n
    OBVIOUS
  <2>3. QED
    BY <2>1, <2>2, Zenon
<1>3. ASSUME NEW k \in 1 .. n, k - 1 \in T PROVE k \in T
  <2>1. f[k] = f[k - 1] \o w[k]
    <3>1. k \in 0 .. n /\ k # 0
      OBVIOUS
    <3>2. QED
      BY <3>1, Zenon DEF Collects
  <2>2. Good(k - 1)
    BY <1>3
  <2>3. PICK s \in Seq(Path) : /\ s = f[k - 1] /\ \A j \in 1 .. k - 1 : Holds(w[j], s)
                               /\ k - 1 # 0 => Begins(w[1], s)
    BY <2>2
  <2>4. PICK t \in Seq(Path) : t = w[k]
    OBVIOUS
  <2>5. f[k] = s \o t
    BY <2>1, <2>3, <2>4
  <2>6. /\ f[k] \in Seq(Path) /\ Holds(t, f[k])
        /\ \A r \in Seq(Path) : Holds(r, s) => Holds(r, f[k])
        /\ \A r \in Seq(Path) : Begins(r, s) => Begins(r, f[k])
    BY <2>5, Concatenation
  <2>7. ASSUME NEW j \in 1 .. k PROVE Holds(w[j], f[k])
    <3>1. CASE j = k
      BY <2>4, <2>6, <3>1, Zenon
    <3>2. CASE j # k
      <4>1. w[j] \in Seq(Path) /\ j \in 1 .. k - 1
        BY <3>2
      <4>2. QED
        BY <2>3, <2>6, <4>1, Zenon
    <3>3. QED
      BY <3>1, <3>2
  <2>8. Begins(w[1], f[k])
    <3>1. CASE k = 1
      <4>1. s = <<>>
        BY <1>1, <2>3, <3>1
      <4>2. f[k] = w[1] /\ w[1] \in Seq(Path)
        BY <2>4, <2>5, <3>1, <4>1
      <4>3. QED
        BY <4>2 DEF Begins
    <3>2. CASE k # 1
      <4>1. k - 1 # 0 /\ 1 \in 1 .. n
        BY <3>2
      <4>2. QED
        BY <2>3, <2>6, <4>1, Zenon
    <3>3. QED
      BY <3>1, <3>2
  <2>9. k \in 0 .. n
    OBVIOUS
  <2>10. QED
    BY <2>6, <2>7, <2>8, <2>9, Zenon
<1>4. n \in T
  <2> HIDE DEF T
  <2>1. 0 .. n \subseteq T
    BY <1>2, <1>3, InductionUpTo, LeastNumber
  <2>2. QED
    BY <2>1
<1>5. QED
  BY <1>4

\* argv holds the words of the options, begins with those of the first and
\* holds the operands.
LEMMA WordsMade ==
  ASSUME NEW line \in Lines
  PROVE  /\ Words(line) \in Seq(Path)
         /\ \A k \in 1 .. Len(line.options) : Holds(OptionWords(line.options[k]), Words(line))
         /\ Len(line.options) # 0 => Begins(OptionWords(line.options[1]), Words(line))
         /\ Holds(line.operands, Words(line))
<1>1. PICK n \in Nat : n = Len(line.options)
  BY LinesAssumption
<1>2. PICK w : w = [k \in 1 .. n |-> OptionWords(line.options[k])]
  OBVIOUS
<1>3. /\ line.options \in Seq(OptionRecord) /\ line.operands \in Seq(Path)
      /\ \A k \in 1 .. n : line.options[k] \in OptionRecord
  BY <1>1, LinesAssumption
<1>4. /\ w \in [1 .. n -> Seq(Path)]
      /\ \A k \in 1 .. n : w[k] = OptionWords(line.options[k])
  BY <1>2, <1>3, OptionWordsType
<1> DEFINE before[k \in 0 .. n] ==
             IF k = 0 THEN <<>> ELSE before[k - 1] \o OptionWords(line.options[k])
<1>5. Words(line) = before[n] \o line.operands
  BY <1>1 DEF Words
<1>6. Collects(before, n, w)
  <2>1. \A f : [k \in 0 .. n |-> IF k = 0 THEN <<>> ELSE f[k - 1] \o w[k]] =
               [k \in 0 .. n |-> IF k = 0 THEN <<>>
                                 ELSE f[k - 1] \o OptionWords(line.options[k])]
    BY <1>2
  <2>2. PICK f : f = [k \in 0 .. n |-> IF k = 0 THEN <<>> ELSE f[k - 1] \o w[k]]
    BY <1>4, WordsDefined DEF Collects
  <2>3. f = [k \in 0 .. n |-> IF k = 0 THEN <<>>
                              ELSE f[k - 1] \o OptionWords(line.options[k])]
    BY <2>1, <2>2
  <2>4. before = [k \in 0 .. n |-> IF k = 0 THEN <<>>
                                   ELSE before[k - 1] \o OptionWords(line.options[k])]
    BY <2>3
  <2> HIDE DEF before
  <2>5. QED
    BY <2>1, <2>4 DEF Collects
<1> HIDE DEF before
<1>7. /\ before[n] \in Seq(Path) /\ \A j \in 1 .. n : Holds(w[j], before[n])
      /\ n # 0 => Begins(w[1], before[n])
  BY <1>4, <1>6, WordsCollected
<1>8. PICK s \in Seq(Path) : s = before[n]
  BY <1>7
<1>9. PICK t \in Seq(Path) : t = line.operands
  BY <1>3
<1>10. Words(line) = s \o t
  BY <1>5, <1>8, <1>9
<1>11. /\ Words(line) \in Seq(Path) /\ Holds(t, Words(line))
       /\ \A r \in Seq(Path) : Holds(r, s) => Holds(r, Words(line))
       /\ \A r \in Seq(Path) : Begins(r, s) => Begins(r, Words(line))
  BY <1>10, Concatenation
<1>12. ASSUME NEW k \in 1 .. n PROVE Holds(w[k], Words(line))
  BY <1>4, <1>7, <1>8, <1>11, Zenon
<1>13. ASSUME n # 0 PROVE Begins(w[1], Words(line)) /\ 1 \in 1 .. n
  <2>1. 1 \in 1 .. n
    BY <1>13
  <2>2. QED
    BY <1>4, <1>7, <1>8, <1>11, <1>13, <2>1, Zenon
<1>14. QED
  BY <1>1, <1>4, <1>9, <1>11, <1>12, <1>13, Zenon

\* An argument that is a word of its own is in argv, and that of the first
\* option is argv[2].
LEMMA ArgumentFound ==
  ASSUME NEW line \in Lines, NEW k \in 1 .. Len(line.options),
         line.options[k].arg # NoArg, ~line.options[k].joined
  PROVE  /\ \E m \in 1 .. Len(Words(line)) : Words(line)[m] = line.options[k].arg
         /\ k = 1 => Len(Words(line)) >= 2 /\ Words(line)[2] = line.options[k].arg
<1>1. line.options[k] \in OptionRecord /\ Len(line.options) \in Nat
  BY LinesAssumption
<1>2. PICK a : a = line.options[k].arg
  OBVIOUS
<1>3. OptionWords(line.options[k]) = <<OptionWord, a>>
  BY <1>1, <1>2, OptionWordsType
<1>4. PICK u \in Seq(Path) : /\ u = Words(line) /\ Holds(<<OptionWord, a>>, u)
                             /\ k = 1 => Begins(<<OptionWord, a>>, u)
  <2>1. Len(line.options) # 0
    BY <1>1
  <2>2. QED
    BY <1>3, <2>1, WordsMade, Zenon
<1>5. Len(<<OptionWord, a>>) = 2 /\ <<OptionWord, a>>[2] = a /\ 2 \in 1 .. 2
  OBVIOUS
<1>6. \E m \in 1 .. Len(u) : u[m] = a
  BY <1>4, <1>5 DEF Holds
<1>7. k = 1 => Len(u) >= 2 /\ u[2] = a
  BY <1>4, <1>5 DEF Begins
<1>8. QED
  BY <1>2, <1>4, <1>6, <1>7

-----------------------------------------------------------------------------
\* The inductive invariant

(***************************************************************************)
(* While active_cache is null nothing has been read into it, and the index *)
(* is the one the process found, or one that --add has left empty.         *)
(***************************************************************************)
Fresh ==
  /\ pc # "died" /\ ~loaded => cache = <<>> /\ nr = 0
  /\ ~loaded => index \in {NoFile, <<>>} \cup Indexes
  /\ repo \/ index = NoFile

\* argv has the words of the command line, and active_nr is large enough.
Line ==
  /\ todo \in Seq(OptionRecord)
  /\ cmdline \in Lines /\ argv = Words(cmdline)
  /\ \A c \in Indexes \cup {<<>>} : Len(c) + Len(argv) < UIntMod

\* In the loop of --add the array is sorted and there is room for all arguments.
Adding ==
  IF pc = "add"
  THEN /\ repo /\ nr = Len(cache) /\ Sorted(cache)
       /\ nr + (Len(argv) + 1 - argi) < UIntMod
       /\ index \in {NoFile} \cup Indexes
  ELSE argi = 1

Inv == TypeOK /\ Fresh /\ Line /\ Adding

\* argv is a sequence of paths.
LEMMA ArgvType ==
  ASSUME TypeOK
  PROVE  /\ Len(argv) \in Nat /\ 1 \in 1 .. Len(argv) + 1
         /\ \A i \in 1 .. Len(argv) : argv[i] \in Path
<1>1. argv \in Seq(Path)
  BY DEF TypeOK
<1>2. PICK n \in Nat : n = Len(argv)
  BY <1>1
<1>3. 1 \in 1 .. n + 1
  OBVIOUS
<1>4. QED
  BY <1>1, <1>2, <1>3

\* The invariant holds when main starts.
LEMMA InitInv == Init => Inv
<1> SUFFICES ASSUME Init PROVE Inv
  OBVIOUS
<1>1. cmdline \in Lines /\ argv = Words(cmdline) /\ todo = cmdline.options
  BY DEF Init
<1>2. /\ argv \in Seq(Path) /\ Len(argv) \in Nat
      /\ cmdline \in [options : Seq(OptionRecord), operands : Seq(Path)]
  BY <1>1, WordsMade, LinesAssumption
<1>3. todo \in Seq(OptionRecord)
  BY <1>1, LinesAssumption
<1>4. \A c \in Indexes \cup {<<>>} : Len(c) + Len(argv) < UIntMod
  BY <1>1, LinesAssumption
<1>5. index \in {NoFile} \cup Indexes /\ (repo \/ index = NoFile)
  BY DEF Init
<1>6. TypeOK
  <2>1. <<>> \in Seq(Entry) /\ Len(<<>>) = 0 /\ 0 \in 0 .. UIntMod - 1
    BY CommandAssumption
  <2>2. index \in {NoFile} \cup Seq(Entry)
    BY <1>5, CommandAssumption
  <2>3. repo \in BOOLEAN /\ locked \in BOOLEAN
    BY DEF Init
  <2>4. /\ cache \in Seq(Entry) /\ nr \in 0 .. UIntMod - 1 /\ nr <= Len(cache)
        /\ argi \in 1 .. Len(argv) + 1
    BY <1>2, <2>1 DEF Init
  <2>5. pc = "getopt" /\ said = {} /\ loaded \in BOOLEAN
    BY DEF Init
  <2>6. QED
    BY <1>2, <2>2, <2>3, <2>4, <2>5 DEF TypeOK
<1>7. QED
  BY <1>1, <1>3, <1>4, <1>5, <1>6 DEF Init, Inv, Fresh, Line, Adding

\* What getopt_long does to the invariant.
LEMMA OptionKeeps ==
  ASSUME Inv, NEW o, Option(o)
  PROVE  /\ Line' /\ cmdline' = cmdline /\ argv' = argv /\ argi' = 1 /\ pc = "getopt"
         /\ Head(todo).opt = o /\ todo # <<>> /\ argi = 1
<1>1. /\ pc = "getopt" /\ todo # <<>> /\ Head(todo).opt = o
      /\ todo' = Tail(todo) /\ cmdline' = cmdline /\ argv' = argv /\ argi' = argi
  BY DEF Option
<1>2. argi = 1
  BY <1>1 DEF Inv, Adding
<1>3. /\ todo \in Seq(OptionRecord)
      /\ cmdline \in Lines /\ argv = Words(cmdline)
      /\ \A c \in Indexes \cup {<<>>} : Len(c) + Len(argv) < UIntMod
  BY DEF Inv, Line
<1>4. todo' \in Seq(OptionRecord)
  BY <1>1, <1>3
<1>5. Words(cmdline') = Words(cmdline)
  BY <1>1
<1>6. QED
  BY <1>1, <1>2, <1>3, <1>4, <1>5 DEF Line

\* A successful read_cache: the array is what is on the disk.
LEMMA ReadCacheLoads ==
  ASSUME Inv, pc = "getopt", ReadCache
  PROVE  /\ ~loaded /\ repo /\ loaded' = (index # NoFile)
         /\ index \in {NoFile} \cup Indexes
         /\ cache' = IF index = NoFile THEN <<>> ELSE index
         /\ cache' \in Seq(Entry) /\ Sorted(cache')
         /\ nr' = Len(cache') /\ nr' + Len(argv) < UIntMod
         /\ nr' \in 0 .. UIntMod - 1
<1>1. /\ ~loaded /\ repo /\ index # <<>>
      /\ loaded' = (loaded \/ index # NoFile)
      /\ cache' = (IF index = NoFile THEN <<>> ELSE index)
      /\ nr' = Len(cache')
  BY DEF ReadCache, ReadResult, ReadDies
<1>2. index \in {NoFile} \cup Indexes
  BY <1>1 DEF Inv, Fresh
<1>3. /\ <<>> \in Seq(Entry) /\ Sorted(<<>>)
      /\ \A c \in Indexes : c \in Seq(Entry) /\ Sorted(c)
  BY CommandAssumption DEF Sorted
<1>4. cache' \in Seq(Entry) /\ Sorted(cache') /\ cache' \in Indexes \cup {<<>>}
  BY <1>1, <1>2, <1>3
<1>5. Len(cache') + Len(argv) < UIntMod /\ Len(cache') \in Nat /\ Len(argv) \in Nat
  BY <1>4 DEF Inv, Line, TypeOK
<1>6. QED
  BY <1>1, <1>2, <1>4, <1>5, CommandAssumption

\* read_cache, whatever its result, leaves a sound array.
LEMMA ReadKeeps ==
  ASSUME Inv, pc = "getopt", ReadFails \/ ReadCache, UNCHANGED <<repo, index>>
  PROVE  /\ loaded' \in BOOLEAN /\ cache' \in Seq(Entry) /\ nr' \in 0 .. UIntMod - 1
         /\ nr' <= Len(cache')
         /\ Fresh'
<1>1. CASE ReadFails
  BY <1>1 DEF ReadFails, memory, Inv, TypeOK, Fresh
<1>2. CASE ReadCache
  <2>1. ~loaded' => cache' = <<>> /\ nr' = 0 /\ index' = NoFile
    BY <1>2, ReadCacheLoads
  <2>2. QED
    BY <1>2, <2>1, ReadCacheLoads DEF Fresh
<1>3. QED
  BY <1>1, <1>2

\* The invariant after an option that leaves main in getopt or ends it.
LEMMA OptionInv ==
  ASSUME Inv, NEW o, Option(o), pc' \in {"getopt", "return 0", "return 1", "died"},
         repo' \in BOOLEAN, locked' \in BOOLEAN, index' = index, said' \subseteq Message,
         loaded' \in BOOLEAN, cache' \in Seq(Entry), nr' \in 0 .. UIntMod - 1,
         pc' # "died" => nr' <= Len(cache'),
         Fresh'
  PROVE  Inv'
<1>1. Line' /\ cmdline' = cmdline /\ argv' = argv /\ argi' = 1
  BY OptionKeeps
<1>2. /\ argv' \in Seq(Path) /\ index' \in {NoFile} \cup Seq(Entry)
      /\ cmdline' \in [options : Seq(OptionRecord), operands : Seq(Path)]
  BY <1>1 DEF Inv, TypeOK
<1>3. argi' \in 1 .. Len(argv') + 1
  <2>1. 1 \in 1 .. Len(argv) + 1
    BY ArgvType DEF Inv
  <2>2. QED
    BY <1>1, <2>1, Zenon
<1>4. TypeOK'
  BY <1>2, <1>3 DEF TypeOK
<1>5. Adding'
  BY <1>1 DEF Adding
<1>6. QED
  BY <1>1, <1>4, <1>5 DEF Inv

\* The same when the option touches neither the disk nor the array.
LEMMA IdleOptionInv ==
  ASSUME Inv, NEW o, Option(o), pc' \in {"getopt", "return 0", "return 1", "died"},
         UNCHANGED <<disk, memory>>, said' = {}
  PROVE  Inv'
<1>1. pc = "getopt"
  BY OptionKeeps
<1>2. /\ repo' \in BOOLEAN /\ locked' \in BOOLEAN /\ index' = index /\ said' \subseteq Message
      /\ loaded' \in BOOLEAN /\ cache' \in Seq(Entry) /\ nr' \in 0 .. UIntMod - 1
      /\ nr' <= Len(cache')
  BY <1>1 DEF Inv, TypeOK, disk, memory
<1>3. Fresh'
  BY <1>1 DEF Inv, Fresh, disk, memory
<1>4. QED
  BY <1>2, <1>3, OptionInv

\* The same when all it does is to call read_cache.
LEMMA ReadOptionInv ==
  ASSUME Inv, NEW o, Option(o), pc' \in {"getopt", "return 1"},
         ReadFails \/ ReadCache, UNCHANGED disk, said' \subseteq Message
  PROVE  Inv'
<1>1. pc = "getopt"
  BY OptionKeeps
<1>2. /\ repo' \in BOOLEAN /\ locked' \in BOOLEAN /\ index' = index
      /\ UNCHANGED <<repo, index>>
  BY DEF Inv, TypeOK, disk
<1>3. /\ loaded' \in BOOLEAN /\ cache' \in Seq(Entry) /\ nr' \in 0 .. UIntMod - 1
      /\ nr' <= Len(cache') /\ Fresh'
  BY <1>1, <1>2, ReadKeeps
<1>4. QED
  BY <1>2, <1>3, OptionInv

\* --init and --status
LEMMA InitOptionInv == ASSUME Inv, InitOption PROVE Inv'
<1>1. Option("init") /\ pc = "getopt"
  BY OptionKeeps DEF InitOption
<1>2. /\ pc' \in {"getopt", "return 1"} /\ repo' = TRUE /\ UNCHANGED <<index, locked, memory>>
      /\ said' = {}
  BY DEF InitOption, Goto, Say
<1>3. /\ repo' \in BOOLEAN /\ locked' \in BOOLEAN /\ index' = index /\ said' \subseteq Message
      /\ loaded' \in BOOLEAN /\ cache' \in Seq(Entry) /\ nr' \in 0 .. UIntMod - 1
      /\ nr' <= Len(cache')
  BY <1>1, <1>2 DEF Inv, TypeOK, memory
<1>4. Fresh'
  BY <1>1, <1>2 DEF Inv, Fresh, memory
<1>5. QED
  BY <1>1, <1>2, <1>3, <1>4, OptionInv

LEMMA StatusInv == ASSUME Inv, Status PROVE Inv'
<1>1. Option("status") /\ pc' = "getopt" /\ UNCHANGED disk /\ (ReadFails \/ ReadCache)
  BY DEF Status, Goto
<1>2. said' \subseteq Message
  <2>1. Asked \subseteq Path
    <3>1. \A i \in 2 .. Len(argv) : argv[i] \in Path
      BY ArgvType DEF Inv
    <3>2. QED
      BY <3>1 DEF Asked
  <2>2. CASE said' = {}
    BY <2>2
  <2>3. CASE said' = {[what |-> IF p \in Names(cache') THEN "staged" ELSE "unstaged",
                       path |-> p] : p \in Asked}
    BY <2>1, <2>3 DEF Message
  <2>4. QED
    BY <2>2, <2>3 DEF Status, Say
<1>3. QED
  BY <1>1, <1>2, ReadOptionInv

-----------------------------------------------------------------------------
\* --rm

\* active_nr-- wraps at zero.
LEMMA DecrementValue ==
  ASSUME NEW n \in 0 .. UIntMod - 1
  PROVE  Decrement(n) = IF n = 0 THEN UIntMod - 1 ELSE n - 1
<1>1. UIntMod \in Nat /\ UIntMod > 0
  BY CommandAssumption
<1>2. CASE n = 0
  <2>1. (UIntMod - 1) % UIntMod = UIntMod - 1
    BY <1>1
  <2>2. QED
    BY <1>1, <1>2, <2>1 DEF Decrement
<1>3. CASE n # 0
  <2>1. PICK m \in Nat : m = n - 1 /\ m < UIntMod
    BY <1>1, <1>3
  <2>2. (m + UIntMod) % UIntMod = m
    BY <1>1, <2>1
  <2>3. n + UIntMod - 1 = m + UIntMod
    BY <1>1, <2>1
  <2>4. QED
    BY <1>3, <2>1, <2>2, <2>3 DEF Decrement
<1>4. QED
  BY <1>2, <1>3

\* The loop of remove.c, slot by slot.
LEMMA DropSlots ==
  ASSUME NEW c \in Seq(Entry), NEW n \in 0 .. Len(c), NEW slot \in Nat \ {0}
  PROVE  /\ Drop(c, n, slot) \in Seq(Entry) /\ Len(Drop(c, n, slot)) = Len(c)
         /\ \A i \in 1 .. Len(c) :
              Drop(c, n, slot)[i] = IF i \in slot .. n - 1 THEN c[i + 1] ELSE c[i]
<1>1. Len(c) \in Nat /\ \A i \in 1 .. Len(c) : c[i] \in Entry
  OBVIOUS
<1>2. \A i \in 1 .. Len(c) : (IF i \in slot .. n - 1 THEN i + 1 ELSE i) \in 1 .. Len(c)
  BY <1>1
<1>3. QED
  BY <1>1, <1>2 DEF Drop

\* What RemoveAndList leaves behind is well typed, or the process has died.
LEMMA RemoveAndListType ==
  ASSUME NEW c \in Seq(Entry), NEW n \in 0 .. UIntMod - 1, n <= Len(c),
         NEW pos \in Int, RemoveAndList(c, n, pos)
  PROVE  /\ cache' \in Seq(Entry) /\ Len(cache') = Len(c)
         /\ nr' \in 0 .. UIntMod - 1
         /\ pc' \in {"getopt", "died"} /\ (pc' # "died" => nr' <= Len(cache'))
         /\ said' = {}
<1>1. UIntMod \in Nat \ {0} /\ Len(c) \in Nat /\ n \in 0 .. Len(c)
  BY CommandAssumption
<1>2. cache' \in Seq(Entry) /\ Len(cache') = Len(c)
  <2>1. CASE pos < 0
    <3>1. -pos \in Nat \ {0} /\ cache' = Drop(c, n, -pos)
      BY <2>1 DEF RemoveAndList
    <3>2. QED
      BY <1>1, <3>1, DropSlots
  <2>2. CASE ~(pos < 0)
    BY <2>2 DEF RemoveAndList
  <2>3. QED
    BY <2>1, <2>2
<1>3. nr' \in 0 .. UIntMod - 1
  BY <1>1, DecrementValue DEF RemoveAndList
<1>4. QED
  BY <1>1, <1>2, <1>3 DEF RemoveAndList, Goto, Say

LEMMA RmInv == ASSUME Inv, Rm PROVE Inv'
<1>1. Option("rm") /\ pc = "getopt" /\ UNCHANGED <<repo, index, locked>>
  BY OptionKeeps DEF Rm, disk
<1>2. /\ repo' \in BOOLEAN /\ locked' \in BOOLEAN /\ index' = index
  BY <1>1 DEF Inv, TypeOK
<1>3. CASE ReadResult.fails /\ RemoveAndList(cache, nr, -1) /\ UNCHANGED loaded
  <2>1. cache \in Seq(Entry) /\ nr \in 0 .. UIntMod - 1 /\ nr <= Len(cache) /\ loaded' \in BOOLEAN
    BY <1>1, <1>3 DEF Inv, TypeOK
  <2>2. /\ cache' \in Seq(Entry) /\ Len(cache') = Len(cache) /\ nr' \in 0 .. UIntMod - 1
        /\ pc' \in {"getopt", "died"} /\ (pc' # "died" => nr' <= Len(cache')) /\ said' = {}
    BY <1>3, <2>1, RemoveAndListType
  <2>3. Fresh'
    <3>1. ~loaded' => index' \in {NoFile, <<>>} \cup Indexes
      BY <1>1, <1>3 DEF Inv, Fresh
    <3>2. ASSUME pc' # "died", ~loaded' PROVE cache' = <<>> /\ nr' = 0
      <4>1. cache = <<>> /\ nr = 0
        BY <1>1, <1>3, <3>2 DEF Inv, Fresh
      <4>2. Len(cache') = 0
        BY <2>2, <4>1
      <4>3. QED
        BY <2>2, <3>2, <4>2
    <3>3. repo' \/ index' = NoFile
      BY <1>1 DEF Inv, Fresh
    <3>4. QED
      BY <3>1, <3>2, <3>3 DEF Fresh
  <2>4. QED
    BY <1>1, <1>2, <2>1, <2>2, <2>3, OptionInv
<1>4. CASE /\ ~ReadResult.fails /\ ~ReadDies
           /\ loaded' = (loaded \/ index # NoFile)
           /\ \E pos \in NamePositions(ReadResult.entries, argv[2]) :
                RemoveAndList(ReadResult.entries, Len(ReadResult.entries), pos)
  <2>1. PICK c : c = ReadResult.entries
    OBVIOUS
  <2>2. ~loaded /\ index # <<>> /\ c = (IF index = NoFile THEN <<>> ELSE index)
    BY <1>4, <2>1 DEF ReadResult, ReadDies
  <2>3. index \in {NoFile} \cup Indexes
    BY <2>2 DEF Inv, Fresh
  <2>4. c \in Seq(Entry) /\ c \in Indexes \cup {<<>>}
    BY <2>2, <2>3, CommandAssumption
  <2>5. Len(c) \in 0 .. UIntMod - 1 /\ Len(c) \in Nat
    <3>1. Line
      BY DEF Inv
    <3>2. Len(c) + Len(argv) < UIntMod
      BY <2>4, <3>1, Zenon DEF Line
    <3>3. Len(argv) \in Nat /\ Len(c) \in Nat
      BY <2>4, <3>1, ArgvType
    <3>4. QED
      BY <3>2, <3>3, CommandAssumption
  <2>6. PICK pos \in NamePositions(c, argv[2]) : RemoveAndList(c, Len(c), pos)
    BY <1>4, <2>1
  <2>7. pos \in Int /\ pos \in -Len(c) .. Len(c)
    BY <2>5, <2>6 DEF NamePositions
  <2>8. /\ cache' \in Seq(Entry) /\ Len(cache') = Len(c) /\ nr' \in 0 .. UIntMod - 1
        /\ pc' \in {"getopt", "died"} /\ (pc' # "died" => nr' <= Len(cache')) /\ said' = {}
    BY <2>4, <2>5, <2>6, <2>7, RemoveAndListType
  <2>9. loaded' \in BOOLEAN /\ loaded' = (index # NoFile)
    BY <1>4, <2>2
  <2>10. Fresh'
    <3>1. ASSUME ~loaded', pc' # "died" PROVE cache' = <<>> /\ nr' = 0
      <4>1. c = <<>>
        BY <2>2, <2>9, <3>1
      <4>2. Len(cache') = 0
        BY <2>8, <4>1
      <4>3. QED
        BY <2>8, <3>1, <4>2
    <3>2. ~loaded' => index' = NoFile
      BY <1>1, <2>9
    <3>3. repo' \/ index' = NoFile
      BY <1>1 DEF Inv, Fresh
    <3>4. QED
      BY <3>1, <3>2, <3>3 DEF Fresh
  <2>11. QED
    BY <1>1, <1>2, <2>8, <2>9, <2>10, OptionInv
<1>5. QED
  BY <1>3, <1>4 DEF Rm

-----------------------------------------------------------------------------
\* --add

\* The invariant after a step in the loop of update_cache that ends with NextArg.
LEMMA LoopInv ==
  ASSUME Inv, InLoop, NextArg, loaded' \in BOOLEAN, cache' \in Seq(Entry), Sorted(cache'),
         nr' = Len(cache'), nr' <= nr + 1, ~loaded' => ~loaded /\ cache' = <<>>
  PROVE  Inv'
<1>1. /\ pc = "add" /\ pc' = "add" /\ argi' = argi + 1 /\ argi <= Len(argv) /\ argv' = argv
      /\ todo' = todo /\ said' = {} /\ UNCHANGED <<repo, index, locked, cmdline>>
  BY DEF InLoop, NextArg, Say, disk
<1>2. Len(argv) \in Nat /\ argi \in 1 .. Len(argv) + 1
  BY ArgvType DEF Inv, TypeOK
<1>3. argi' \in 1 .. Len(argv') + 1
  BY <1>1, <1>2
<1>4. /\ nr + (Len(argv) + 1 - argi) < UIntMod /\ index \in {NoFile} \cup Indexes
      /\ nr \in Nat /\ repo
  BY <1>1 DEF Inv, Adding, TypeOK
<1>5. /\ nr' + (Len(argv') + 1 - argi') < UIntMod /\ nr' \in 0 .. UIntMod - 1
  <2>1. Len(cache') \in Nat
    OBVIOUS
  <2>2. nr' \in Nat /\ UIntMod \in Nat
    BY <2>1, CommandAssumption
  <2>3. QED
    BY <1>1, <1>2, <1>4, <2>2
<1>6. Adding'
  BY <1>1, <1>4, <1>5 DEF Adding
<1>7. TypeOK'
  <2>1. nr' <= Len(cache')
    BY <1>5
  <2>2. QED
    BY <1>1, <1>3, <1>5, <2>1 DEF Inv, TypeOK
<1>8. Line'
  BY <1>1 DEF Inv, Line
<1>9. Fresh'
  <2>1. ~loaded' => nr' = 0 /\ index' \in {NoFile, <<>>} \cup Indexes
    BY <1>1 DEF Inv, Fresh
  <2>2. QED
    BY <1>1, <2>1 DEF Inv, Fresh
<1>10. QED
  BY <1>6, <1>7, <1>8, <1>9 DEF Inv

\* The array in the loop, and the argument.
LEMMA LoopArray ==
  ASSUME Inv, pc = "add"
  PROVE  /\ cache \in Seq(Entry) /\ Sorted(cache) /\ nr = Len(cache) /\ nr \in Nat
         /\ SubSeq(cache, 1, nr) = cache
         /\ InLoop => argv[argi] \in Path
<1>1. cache \in Seq(Entry) /\ Sorted(cache) /\ nr = Len(cache)
  BY DEF Inv, TypeOK, Adding
<1>2. nr \in Nat /\ SubSeq(cache, 1, nr) = cache
  BY <1>1
<1>3. argi \in 1 .. Len(argv) + 1 /\ Len(argv) \in Nat
  BY ArgvType DEF Inv, TypeOK
<1>4. InLoop => argi \in 1 .. Len(argv)
  BY <1>3 DEF InLoop
<1>5. QED
  BY <1>1, <1>2, <1>4, ArgvType DEF Inv

LEMMA EntryOfType == ASSUME NEW p \in Path PROVE EntryOf(p) \in Entry /\ EntryOf(p).name = p
<1>1. (CHOOSE b \in Blob : TRUE) \in Blob
  BY CommandAssumption
<1>2. QED
  BY <1>1 DEF EntryOf, Entry

\* remove_file_from_cache leaves a sound array that is not longer.
LEMMA RemoveMissingKeeps ==
  ASSUME Inv, RemoveMissing
  PROVE  /\ cache' \in Seq(Entry) /\ Sorted(cache') /\ nr' = Len(cache') /\ nr' <= nr
         /\ loaded' = loaded /\ (~loaded' => cache' = <<>>)
<1>1. pc = "add" /\ InLoop /\ loaded' = loaded
  BY DEF RemoveMissing, InLoop
<1>2. PICK pos \in NamePositions(cache, argv[argi]) : Edited(RemoveFileFromCache(cache, pos))
  BY <1>1, LoopArray DEF RemoveMissing
<1>3. /\ cache \in Seq(Entry) /\ Sorted(cache) /\ nr = Len(cache) /\ nr \in Nat
      /\ argv[argi] \in Path
  BY <1>1, LoopArray
<1>4. /\ RemoveFileFromCache(cache, pos) \in Seq(Entry)
      /\ Sorted(RemoveFileFromCache(cache, pos))
      /\ Len(RemoveFileFromCache(cache, pos)) = IF pos < 0 THEN Len(cache) - 1 ELSE Len(cache)
  BY <1>2, <1>3, RemoveKeepsSorted
<1>5. cache' \in Seq(Entry) /\ Sorted(cache') /\ nr' = Len(cache') /\ nr' <= nr
  BY <1>2, <1>3, <1>4 DEF Edited
<1>6. ASSUME ~loaded' PROVE cache' = <<>>
  <2>1. nr = 0
    BY <1>1, <1>6 DEF Inv, Fresh
  <2>2. Len(cache') = 0
    BY <1>5, <2>1
  <2>3. QED
    BY <1>5, <2>2
<1>7. QED
  BY <1>1, <1>5, <1>6

LEMMA AddIgnoredInv == ASSUME Inv, AddIgnored PROVE Inv'
<1>1. pc = "add" /\ InLoop /\ NextArg /\ UNCHANGED <<loaded, cache, nr>>
  BY DEF AddIgnored, InLoop, memory
<1>2. /\ loaded' \in BOOLEAN /\ cache' \in Seq(Entry) /\ Sorted(cache') /\ nr' = Len(cache')
      /\ nr \in Nat
  BY <1>1, LoopArray DEF Inv, TypeOK
<1>3. ~loaded' => ~loaded /\ cache' = <<>>
  BY <1>1 DEF Inv, Fresh
<1>4. nr' <= nr + 1
  BY <1>1, <1>2
<1>5. QED
  BY <1>1, <1>2, <1>3, <1>4, LoopInv

LEMMA AddMissingInv == ASSUME Inv, AddMissing PROVE Inv'
<1>1. pc = "add" /\ InLoop /\ NextArg /\ RemoveMissing
  BY DEF AddMissing, RemoveMissing, InLoop
<1>2. /\ cache' \in Seq(Entry) /\ Sorted(cache') /\ nr' = Len(cache') /\ nr' <= nr
      /\ loaded' = loaded /\ (~loaded' => cache' = <<>>)
  BY <1>1, RemoveMissingKeeps
<1>3. loaded' \in BOOLEAN /\ nr \in Nat
  BY <1>1, <1>2, LoopArray DEF Inv, TypeOK
<1>4. nr' <= nr + 1
  BY <1>2, <1>3
<1>5. QED
  BY <1>1, <1>2, <1>3, <1>4, LoopInv

LEMMA AddFileInv == ASSUME Inv, AddFile PROVE Inv'
<1>1. pc = "add" /\ InLoop /\ NextArg /\ loaded' = TRUE
  BY DEF AddFile, InLoop
<1>2. /\ cache \in Seq(Entry) /\ Sorted(cache) /\ nr = Len(cache) /\ nr \in Nat
      /\ SubSeq(cache, 1, nr) = cache /\ argv[argi] \in Path
  BY <1>1, LoopArray
<1>3. PICK pos \in NamePositions(cache, argv[argi]) :
        Edited(AddCacheEntry(cache, pos, EntryOf(argv[argi])))
  BY <1>2 DEF AddFile
<1>4. PICK e \in Entry : e = EntryOf(argv[argi]) /\ e.name = argv[argi]
  BY <1>2, EntryOfType
<1>5. /\ AddCacheEntry(cache, pos, e) \in Seq(Entry)
      /\ Sorted(AddCacheEntry(cache, pos, e))
      /\ Len(AddCacheEntry(cache, pos, e)) = IF pos < 0 THEN Len(cache) ELSE Len(cache) + 1
  BY <1>2, <1>3, <1>4, AddKeepsSorted
<1>6. cache' \in Seq(Entry) /\ Sorted(cache') /\ nr' = Len(cache') /\ nr' <= nr + 1
  BY <1>2, <1>3, <1>4, <1>5 DEF Edited
<1>7. QED
  BY <1>1, <1>6, LoopInv

\* The invariant after update_cache.
LEMMA EndsInv ==
  ASSUME Inv, pc = "add", AddEnds, loaded' \in BOOLEAN, cache' \in Seq(Entry),
         nr' = Len(cache'), nr' <= nr, ~loaded' => ~loaded /\ cache' = <<>>,
         index' \in {NoFile} \cup Seq(Entry), ~loaded' => index' \in {NoFile, <<>>} \cup Indexes
  PROVE  Inv'
<1>1. /\ pc' = "getopt" /\ argi' = 1 /\ argv' = argv /\ locked' = FALSE
      /\ todo' = todo /\ said' = {} /\ UNCHANGED <<repo, cmdline>>
  BY DEF AddEnds, Goto, Say
<1>2. Line' /\ Adding'
  BY <1>1 DEF Inv, Line, Adding
<1>3. nr' \in 0 .. UIntMod - 1
  <2>1. nr \in 0 .. UIntMod - 1
    BY DEF Inv, TypeOK
  <2>2. Len(cache') \in Nat
    OBVIOUS
  <2>3. QED
    BY <2>1, <2>2, CommandAssumption
<1>4. argi' \in 1 .. Len(argv') + 1
  BY <1>1, ArgvType DEF Inv
<1>5. nr' <= Len(cache')
  BY <1>3
<1>6. TypeOK'
  BY <1>1, <1>3, <1>4, <1>5 DEF Inv, TypeOK
<1>7. repo'
  BY <1>1 DEF Inv, Adding
<1>8. Fresh'
  <2>1. ~loaded' => nr' = 0
    OBVIOUS
  <2>2. QED
    BY <1>7, <2>1 DEF Fresh
<1>9. QED
  BY <1>2, <1>6, <1>8 DEF Inv

LEMMA AddFailsInv == ASSUME Inv, AddFails PROVE Inv'
<1>1. pc = "add" /\ AddEnds /\ index' = index
  BY DEF AddFails
<1>2. /\ index' \in {NoFile} \cup Seq(Entry)
      /\ index' \in {NoFile, <<>>} \cup Indexes
  BY <1>1 DEF Inv, TypeOK, Adding
<1>3. /\ cache' \in Seq(Entry) /\ nr' = Len(cache') /\ nr' <= nr /\ loaded' = loaded
      /\ (~loaded' => cache' = <<>>)
  <2>1. CASE UNCHANGED memory
    <3>1. nr \in Nat /\ nr <= nr
      BY <1>1, LoopArray
    <3>2. QED
      BY <1>1, <2>1, <3>1, LoopArray DEF memory, Inv, Fresh
  <2>2. CASE RemoveMissing
    BY <2>2, RemoveMissingKeeps
  <2>3. QED
    BY <2>1, <2>2 DEF AddFails
<1>4. loaded' \in BOOLEAN
  BY <1>3 DEF Inv, TypeOK
<1>5. QED
  BY <1>1, <1>2, <1>3, <1>4, EndsInv

LEMMA AddDoneInv == ASSUME Inv, AddDone PROVE Inv'
<1>1. pc = "add" /\ AddEnds /\ UNCHANGED <<loaded, cache, nr>>
  BY DEF AddDone, memory
<1>2. /\ cache' \in Seq(Entry) /\ nr' = Len(cache') /\ nr' <= nr /\ index' = cache
      /\ nr \in Nat
  BY <1>1, LoopArray DEF AddDone
<1>3. loaded' \in BOOLEAN /\ (~loaded' => cache = <<>>)
  BY <1>1 DEF Inv, TypeOK, Fresh
<1>4. QED
  BY <1>1, <1>2, <1>3, EndsInv

LEMMA AddRefusedInv == ASSUME Inv, AddRefused PROVE Inv'
<1>1. Option("add") /\ pc' = "getopt" /\ UNCHANGED disk /\ (ReadFails \/ ReadCache) /\ said' = {}
  BY DEF AddRefused, Goto, Say
<1>2. QED
  BY <1>1, ReadOptionInv

LEMMA AddStartInv == ASSUME Inv, AddStart PROVE Inv'
<1>1. /\ Option("add") /\ ReadCache /\ locked' = TRUE /\ pc' = "add" /\ said' = {}
      /\ UNCHANGED <<repo, index>>
  BY DEF AddStart, Goto, Say
<1>2. Line' /\ cmdline' = cmdline /\ argv' = argv /\ argi' = 1 /\ pc = "getopt"
  BY <1>1, OptionKeeps
<1>3. /\ ~loaded /\ repo /\ loaded' = (index # NoFile)
      /\ index \in {NoFile} \cup Indexes
      /\ cache' = (IF index = NoFile THEN <<>> ELSE index)
      /\ cache' \in Seq(Entry) /\ Sorted(cache')
      /\ nr' = Len(cache') /\ nr' + Len(argv) < UIntMod
      /\ nr' \in 0 .. UIntMod - 1
  BY <1>1, <1>2, ReadCacheLoads
<1>4. Len(argv) \in Nat /\ argi' \in 1 .. Len(argv') + 1
  BY <1>2, ArgvType DEF Inv
<1>5. nr' + (Len(argv') + 1 - argi') < UIntMod
  BY <1>2, <1>3, <1>4
<1>6. nr' <= Len(cache')
  BY <1>3
<1>7. TypeOK'
  BY <1>1, <1>2, <1>3, <1>4, <1>6 DEF Inv, TypeOK
<1>8. Fresh'
  <2>1. ~loaded' => cache' = <<>> /\ nr' = 0
    BY <1>3
  <2>2. QED
    BY <1>1, <1>3, <2>1 DEF Fresh
<1>9. Adding'
  BY <1>1, <1>3, <1>5 DEF Adding
<1>10. QED
  BY <1>2, <1>7, <1>8, <1>9 DEF Inv

-----------------------------------------------------------------------------

\* Every step of the process keeps the invariant.
LEMMA NextInv == Inv /\ [Next]_vars => Inv'
<1> SUFFICES ASSUME Inv, [Next]_vars PROVE Inv'
  OBVIOUS
<1>1. CASE Dies
  <2>1. PICK o : Option(o)
    BY <1>1 DEF Dies
  <2>2. pc' = "died" /\ said' = {} /\ UNCHANGED <<disk, memory>>
    BY <1>1 DEF Dies, Goto, Say
  <2>3. QED
    BY <2>1, <2>2, IdleOptionInv
<1>2. CASE InitOption
  BY <1>2, InitOptionInv
<1>3. CASE Status
  BY <1>3, StatusInv
<1>4. CASE Diff
  <2>1. /\ Option("diff") /\ pc' \in {"getopt", "return 1"} /\ (ReadFails \/ ReadCache)
        /\ UNCHANGED disk /\ said' = {}
    BY <1>4 DEF Diff, Goto, Say
  <2>2. QED
    BY <2>1, ReadOptionInv
<1>5. CASE Commit
  <2>1. /\ Option("commit") /\ pc' \in {"getopt", "return 1"} /\ (ReadFails \/ ReadCache)
        /\ UNCHANGED disk /\ said' = {}
    BY <1>5 DEF Commit, Goto, Say
  <2>2. QED
    BY <2>1, ReadOptionInv
<1>6. CASE Reset \/ CatFile \/ Usage
  <2>1. PICK o : Option(o)
    BY <1>6 DEF Reset, CatFile, Usage
  <2>2. pc' \in {"getopt", "return 1"} /\ said' = {} /\ UNCHANGED <<disk, memory>>
    BY <1>6 DEF Reset, CatFile, Usage, Goto, Say
  <2>3. QED
    BY <2>1, <2>2, IdleOptionInv
<1>7. CASE Rm \/ RmDies
  <2>1. CASE RmDies
    <3>1. /\ Option("rm") /\ pc' = "died" /\ said' = {} /\ UNCHANGED <<disk, memory>>
      BY <2>1 DEF RmDies, Goto, Say
    <3>2. QED
      BY <3>1, IdleOptionInv
  <2>2. QED
    BY <1>7, <2>1, RmInv
<1>8. CASE AddRefused
  BY <1>8, AddRefusedInv
<1>9. CASE AddStart
  BY <1>9, AddStartInv
<1>10. CASE AddIgnored
  BY <1>10, AddIgnoredInv
<1>11. CASE AddFile
  BY <1>11, AddFileInv
<1>12. CASE AddMissing
  BY <1>12, AddMissingInv
<1>13. CASE AddFails
  BY <1>13, AddFailsInv
<1>14. CASE AddDone
  BY <1>14, AddDoneInv
<1>15. CASE Return
  <2>1. /\ pc = "getopt" /\ pc' = "return 0" /\ said' = {}
        /\ UNCHANGED <<repo, index, locked, loaded, cache, nr, cmdline, argv, todo, argi>>
    BY <1>15 DEF Return, Goto, Say, disk, memory
  <2>2. TypeOK'
    BY <2>1 DEF Inv, TypeOK
  <2>3. QED
    BY <2>1, <2>2 DEF Inv, Fresh, Line, Adding
<1>16. CASE UNCHANGED vars
  BY <1>16 DEF vars, disk, memory, Inv, TypeOK, Fresh, Line, Adding
<1>17. QED
  BY <1>1, <1>2, <1>3, <1>4, <1>5, <1>6, <1>7, <1>8, <1>9, <1>10, <1>11, <1>12, <1>13,
     <1>14, <1>15, <1>16 DEF Next

(***************************************************************************)
(* In every process, whatever its command line and the index it finds: the *)
(* array, active_nr and what --status says are well formed, and active_nr  *)
(* stays within the filled slots of active_cache until the process dies.   *)
(***************************************************************************)
THEOREM CommandTypes == Spec => []TypeOK
<1>1. Inv => TypeOK
  BY DEF Inv
<1>2. QED
  BY <1>1, InitInv, NextInv, PTL DEF Spec

-----------------------------------------------------------------------------
\* --status

\* Only --status says anything.
LEMMA OthersAreSilent ==
  ASSUME Next, ~Status
  PROVE  said' = {}
BY DEF Next, Dies, InitOption, Diff, Commit, Reset, CatFile, Usage, Rm, RmDies, RemoveAndList,
       AddRefused, AddStart, AddIgnored, AddFile, AddMissing, AddFails, AddDone, Return,
       NextArg, AddEnds, Say

\* The names that read_cache loads are those of the index.
LEMMA LoadedNames ==
  ASSUME NEW c, c = IF index = NoFile THEN <<>> ELSE index
  PROVE  \A p : p \in Names(c) <=> Staged(p)
<1>1. CASE index = NoFile
  <2>1. Names(<<>>) = {}
    BY DEF Names
  <2>2. QED
    BY <1>1, <2>1 DEF Staged
<1>2. CASE index # NoFile
  BY <1>2 DEF Staged
<1>3. QED
  BY <1>1, <1>2

(***************************************************************************)
(* What --status says of a path is true of the index on disk, in every     *)
(* process and after any options before it.                                *)
(***************************************************************************)
THEOREM StatusIsTrue == Spec => []StatusTrue
<1>1. Init => StatusTrue
  BY DEF Init, StatusTrue
<1>2. Inv /\ StatusTrue /\ [Next]_vars => StatusTrue'
  <2> SUFFICES ASSUME Inv, StatusTrue, [Next]_vars PROVE StatusTrue'
    OBVIOUS
  <2>1. CASE Status
    <3>1. Option("status") /\ pc = "getopt" /\ index' = index
      BY <2>1, OptionKeeps DEF Status, disk
    <3>2. CASE said' = {}
      BY <3>2 DEF StatusTrue
    <3>3. CASE /\ ReadCache
               /\ said' = {[what |-> IF p \in Names(cache') THEN "staged" ELSE "unstaged",
                            path |-> p] : p \in Asked}
      <4>1. cache' = IF index = NoFile THEN <<>> ELSE index
        BY <3>1, <3>3, ReadCacheLoads
      <4>2. \A p : p \in Names(cache') <=> Staged(p)
        BY <4>1, LoadedNames
      <4>3. \A p : Staged(p)' <=> Staged(p)
        BY <3>1 DEF Staged
      <4>4. ASSUME NEW m \in said'
            PROVE  /\ m.what = "staged" => Staged(m.path)
                   /\ m.what = "unstaged" => ~Staged(m.path)
        <5>1. PICK p \in Asked :
                m = [what |-> IF p \in Names(cache') THEN "staged" ELSE "unstaged", path |-> p]
          BY <3>3, <4>4
        <5>2. m.path = p /\ m.what = IF p \in Names(cache') THEN "staged" ELSE "unstaged"
          BY <5>1
        <5>3. QED
          BY <4>2, <5>2
      <4>5. QED
        BY <4>3, <4>4 DEF StatusTrue
    <3>4. QED
      BY <2>1, <3>2, <3>3 DEF Status, Say
  <2>2. CASE Next /\ ~Status
    BY <2>2, OthersAreSilent DEF StatusTrue
  <2>3. CASE UNCHANGED vars
    BY <2>3 DEF vars, disk, StatusTrue, Staged
  <2>4. QED
    BY <2>1, <2>2, <2>3
<1>3. QED
  BY <1>1, <1>2, InitInv, NextInv, PTL DEF Spec

-----------------------------------------------------------------------------
\* What --add installs

\* The files among the arguments that the loop has passed.
Passed == {argv[i] : i \in 1 .. argi - 1} \cap (Files \ Rejected)

\* In the loop the array has the names of the index and those files.
Exact == pc = "add" => Names(cache) = StagedNames \cup Passed

\* add_cache_entry adds one name.
LEMMA AddNames ==
  ASSUME NEW c \in Seq(Entry), Sorted(c), NEW e \in Entry,
         NEW pos \in NamePositions(c, e.name)
  PROVE  Names(AddCacheEntry(c, pos, e)) = Names(c) \cup {e.name}
<1> DEFINE r == AddCacheEntry(c, pos, e)
<1>1. \E i \in 1 .. Len(r) : r[i] = e
  BY AddKeepsSorted, Zenon
<1>2. /\ \A i \in 1 .. Len(r) : r[i] = e \/ \E j \in 1 .. Len(c) : r[i] = c[j]
      /\ \A j \in 1 .. Len(c) : c[j].name # e.name => \E i \in 1 .. Len(r) : r[i] = c[j]
  BY AddKeepsSorted, Zenon
<1> HIDE DEF r
<1>3. Names(r) \subseteq Names(c) \cup {e.name}
  BY <1>2 DEF Names
<1>4. Names(c) \cup {e.name} \subseteq Names(r)
  BY <1>1, <1>2 DEF Names
<1>5. QED
  BY <1>3, <1>4 DEF r

\* The loop passes one argument.
LEMMA PassOne ==
  ASSUME Inv, InLoop, NextArg
  PROVE  /\ StagedNames' = StagedNames
         /\ Passed' = Passed \cup ({argv[argi]} \cap (Files \ Rejected))
<1>1. argi' = argi + 1 /\ argv' = argv /\ index' = index
  BY DEF NextArg, disk
<1>2. argi \in Nat /\ argi >= 1
  <2>1. argi \in 1 .. Len(argv) + 1 /\ Len(argv) \in Nat
    BY ArgvType DEF Inv, TypeOK
  <2>2. QED
    BY <2>1
<1>3. {argv'[i] : i \in 1 .. argi' - 1} = {argv[i] : i \in 1 .. argi - 1} \cup {argv[argi]}
  <2>1. 1 .. argi' - 1 = (1 .. argi - 1) \cup {argi}
    BY <1>1, <1>2
  <2>2. QED
    BY <1>1, <2>1
<1>4. QED
  BY <1>1, <1>3 DEF Passed, StagedNames

\* A name without a file is not in the array.
LEMMA MissingIsAbsent ==
  ASSUME \A c \in Indexes : Names(c) \subseteq Files,
         Inv, Exact, RemoveMissing
  PROVE  cache' = cache
<1>1. pc = "add" /\ InLoop /\ argv[argi] \notin Files
  BY DEF RemoveMissing, InLoop
<1>2. index \in {NoFile} \cup Indexes
  BY <1>1 DEF Inv, Adding
<1>3. Names(cache) \subseteq Files
  BY <1>1, <1>2 DEF Exact, StagedNames, Passed
<1>4. cache \in Seq(Entry) /\ SubSeq(cache, 1, nr) = cache
  BY <1>1, LoopArray
<1>5. PICK pos \in NamePositions(cache, argv[argi]) : Edited(RemoveFileFromCache(cache, pos))
  BY <1>4 DEF RemoveMissing
<1>6. Len(cache) \in Nat
  BY <1>4
<1>7. pos >= 0
  <2>1. \A i \in 1 .. Len(cache) : cache[i].name # argv[argi]
    BY <1>1, <1>3 DEF Names
  <2>2. IsNamePos(cache, argv[argi], pos)
    BY DEF NamePositions
  <2>3. QED
    BY <1>6, <2>1, <2>2 DEF IsNamePos
<1>8. QED
  BY <1>5, <1>7 DEF Edited, RemoveFileFromCache

\* Every step keeps Exact.
LEMMA ExactStep ==
  ASSUME \A c \in Indexes : Names(c) \subseteq Files,
         Inv, Exact, [Next]_vars
  PROVE  Exact'
<1>1. CASE AddStart
  <2>1. /\ Option("add") /\ ReadCache /\ UNCHANGED <<repo, index>>
    BY <1>1 DEF AddStart
  <2>2. argi' = 1 /\ pc = "getopt"
    BY <2>1, OptionKeeps
  <2>3. cache' = IF index = NoFile THEN <<>> ELSE index
    BY <2>1, <2>2, ReadCacheLoads
  <2>4. Names(<<>>) = {}
    BY DEF Names
  <2>5. Names(cache') = StagedNames'
    BY <2>1, <2>3, <2>4 DEF StagedNames
  <2>6. Passed' = {}
    BY <2>2 DEF Passed
  <2>7. QED
    BY <2>5, <2>6 DEF Exact
<1>2. CASE AddIgnored
  <2>1. pc = "add" /\ InLoop /\ NextArg /\ cache' = cache /\ argv[argi] \in Rejected
    BY <1>2 DEF AddIgnored, InLoop, memory
  <2>2. QED
    BY <2>1, PassOne DEF Exact
<1>3. CASE AddFile
  <2>1. pc = "add" /\ InLoop /\ NextArg /\ argv[argi] \in Files \ Rejected
    BY <1>3 DEF AddFile, InLoop
  <2>2. /\ cache \in Seq(Entry) /\ Sorted(cache) /\ SubSeq(cache, 1, nr) = cache
        /\ argv[argi] \in Path
    BY <2>1, LoopArray
  <2>3. PICK pos \in NamePositions(cache, argv[argi]) :
          Edited(AddCacheEntry(cache, pos, EntryOf(argv[argi])))
    BY <1>3, <2>2 DEF AddFile
  <2>4. PICK e \in Entry : e = EntryOf(argv[argi]) /\ e.name = argv[argi]
    BY <2>2, EntryOfType
  <2>5. Names(AddCacheEntry(cache, pos, e)) = Names(cache) \cup {e.name}
    BY <2>2, <2>3, <2>4, AddNames
  <2>6. Names(cache') = Names(cache) \cup {argv[argi]}
    BY <2>3, <2>4, <2>5 DEF Edited
  <2>7. QED
    BY <2>1, <2>6, PassOne DEF Exact
<1>4. CASE AddMissing
  <2>1. pc = "add" /\ InLoop /\ NextArg /\ RemoveMissing /\ argv[argi] \notin Files
    BY <1>4 DEF AddMissing, RemoveMissing, InLoop
  <2>2. cache' = cache
    BY <2>1, MissingIsAbsent
  <2>3. QED
    BY <2>1, <2>2, PassOne DEF Exact
<1>5. CASE Next /\ ~AddStart /\ ~AddIgnored /\ ~AddFile /\ ~AddMissing
  <2>1. pc' # "add"
    BY <1>5 DEF Next, Dies, InitOption, Status, Diff, Commit, Reset, CatFile, Usage, Rm,
                RmDies, RemoveAndList, AddRefused, AddFails, AddDone, AddEnds, Return, Goto
  <2>2. QED
    BY <2>1 DEF Exact
<1>6. CASE UNCHANGED vars
  BY <1>6 DEF vars, disk, memory, Exact, StagedNames, Passed
<1>7. QED
  BY <1>1, <1>2, <1>3, <1>4, <1>5, <1>6

\* Only the end of --add writes the index.
LEMMA OnlyAddInstalls ==
  ASSUME [Next]_vars, index' # index
  PROVE  AddDone
BY DEF Next, Dies, InitOption, Status, Diff, Commit, Reset, CatFile, Usage, Rm, RmDies,
       AddRefused, AddStart, AddIgnored, AddFile, AddMissing, AddFails, Return, NextArg, disk, vars

\* argv holds the files that --add is asked for.
LEMMA ToStageInArgv ==
  ASSUME Inv
  PROVE  ToStage \subseteq {argv[i] : i \in 1 .. Len(argv)}
<1>1. PICK line \in Lines : line = cmdline
  BY DEF Inv, Line
<1>2. argv = Words(line)
  BY <1>1 DEF Inv, Line
<1> SUFFICES ASSUME NEW p \in ToStage PROVE \E i \in 1 .. Len(argv) : argv[i] = p
  OBVIOUS
<1>3. p \in Files /\ p # NoArg
  <2>1. p \in Files
    BY Zenon DEF ToStage
  <2>2. p \in Nat
    BY <2>1, CommandAssumption, PathAssumption
  <2>3. QED
    BY <2>1, <2>2 DEF NoArg
<1>4. CASE p \in SeparateArguments("add")
  <2>1. PICK k \in 1 .. Len(line.options) :
               /\ ~line.options[k].joined /\ p = line.options[k].arg
    BY <1>1, <1>4 DEF SeparateArguments
  <2>2. line.options[k].arg # NoArg
    BY <1>3, <2>1
  <2>3. \E m \in 1 .. Len(Words(line)) : Words(line)[m] = line.options[k].arg
    BY <2>1, <2>2, ArgumentFound
  <2>4. QED
    BY <1>2, <2>1, <2>3
<1>5. CASE p \in {line.operands[i] : i \in 1 .. Len(line.operands)}
  <2>1. Holds(line.operands, Words(line))
    BY WordsMade
  <2>2. QED
    BY <1>2, <1>5, <2>1 DEF Holds
<1>6. QED
  BY <1>1, <1>4, <1>5 DEF ToStage

(***************************************************************************)
(* When every entry of the index the process finds has its file, an --add  *)
(* that installs an index stages the files it was asked for, loses no      *)
(* entry that the command line does not name to --rm, and stages nothing   *)
(* but files of the command line, whatever options came before.            *)
(***************************************************************************)
THEOREM AddInstallsExactly ==
  ASSUME \A c \in Indexes : Names(c) \subseteq Files
  PROVE  Spec => AddIsExact
<1>1. Init => Exact
  BY DEF Init, Exact
<1>2. Inv /\ Exact /\ [Next]_vars => Exact'
  BY ExactStep
<1> DEFINE Named == {argv[i] : i \in 1 .. Len(argv)}
<1>3. ASSUME Inv, Exact, [Next]_vars, index' # index
      PROVE  StagedNames' = StagedNames \cup (Named \cap (Files \ Rejected))
  <2>1. AddDone
    BY <1>3, OnlyAddInstalls
  <2>2. pc = "add" /\ argi > Len(argv) /\ index' = SubSeq(cache, 1, nr)
    BY <2>1 DEF AddDone
  <2>3. index' = cache
    BY <1>3, <2>2, LoopArray
  <2>4. argi \in 1 .. Len(argv) + 1 /\ Len(argv) \in Nat
    BY <1>3, ArgvType DEF Inv, TypeOK
  <2>5. argi - 1 = Len(argv)
    BY <2>2, <2>4
  <2>6. StagedNames' = Names(cache)
    <3>1. index' # NoFile
      BY <1>3, <2>2, <2>3, LoopArray, CommandAssumption
    <3>2. QED
      BY <2>3, <3>1 DEF StagedNames
  <2>7. Passed = Named \cap (Files \ Rejected)
    BY <2>5 DEF Passed
  <2>8. QED
    BY <1>3, <2>2, <2>6, <2>7, Zenon DEF Exact
<1>4. ASSUME Inv, Exact, [Next]_vars, index' # index
      PROVE  /\ (StagedNames \cup ToStage) \ Arguments("rm") \subseteq StagedNames'
             /\ StagedNames' \subseteq StagedNames \cup (Named \cap (Files \ Rejected))
  <2>1. ToStage \subseteq Named /\ ToStage \subseteq Files \ Rejected
    BY <1>4, ToStageInArgv DEF ToStage
  <2> HIDE DEF Named
  <2>2. QED
    BY <1>3, <1>4, <2>1, Zenon
<1>5. Inv /\ Exact /\ [Next]_vars =>
        [index' # index =>
           /\ (StagedNames \cup ToStage) \ Arguments("rm") \subseteq StagedNames'
           /\ StagedNames' \subseteq
                StagedNames \cup ({argv[i] : i \in 1 .. Len(argv)} \cap (Files \ Rejected))]_vars
  BY <1>4
<1>6. QED
  BY <1>1, <1>2, <1>5, InitInv, NextInv, PTL DEF Spec, AddIsExact

-----------------------------------------------------------------------------
\* What --rm leaves in the array

\* The loop of remove.c takes one name out of an array without duplicates.
LEMMA DropNames ==
  ASSUME NEW c \in Seq(Entry), Unique(c), NEW k \in 1 .. Len(c)
  PROVE  Names(SubSeq(Drop(c, Len(c), k), 1, Len(c) - 1)) = Names(c) \ {c[k].name}
<1>1. PICK d : d = Drop(c, Len(c), k)
  OBVIOUS
<1>2. Len(c) \in Nat \ {0} /\ Len(c) \in 0 .. Len(c) /\ k \in Nat \ {0}
  OBVIOUS
<1>3. /\ d \in Seq(Entry) /\ Len(d) = Len(c)
      /\ \A i \in 1 .. Len(c) : d[i] = IF i \in k .. Len(c) - 1 THEN c[i + 1] ELSE c[i]
  BY <1>1, <1>2, DropSlots
<1>4. PICK r : r = SubSeq(d, 1, Len(c) - 1)
  OBVIOUS
<1>5. Len(r) = Len(c) - 1 /\ \A i \in 1 .. Len(r) : r[i] = d[i]
  BY <1>2, <1>3, <1>4
<1>6. \A i \in 1 .. Len(r) :
        \E j \in 1 .. Len(c) : j # k /\ r[i] = c[j]
  <2> SUFFICES ASSUME NEW i \in 1 .. Len(r) PROVE \E j \in 1 .. Len(c) : j # k /\ r[i] = c[j]
    OBVIOUS
  <2>1. CASE i < k
    <3>1. i \in 1 .. Len(c) /\ i # k /\ r[i] = c[i]
      BY <1>2, <1>3, <1>5, <2>1
    <3>2. QED
      BY <3>1, Zenon
  <2>2. CASE i >= k
    <3>1. i + 1 \in 1 .. Len(c) /\ i + 1 # k /\ r[i] = c[i + 1]
      BY <1>2, <1>3, <1>5, <2>2
    <3>2. QED
      BY <3>1
  <2>3. QED
    BY <1>2, <1>5, <2>1, <2>2
<1>7. \A j \in 1 .. Len(c) : j # k => \E i \in 1 .. Len(r) : r[i] = c[j]
  <2> SUFFICES ASSUME NEW j \in 1 .. Len(c), j # k PROVE \E i \in 1 .. Len(r) : r[i] = c[j]
    OBVIOUS
  <2>1. CASE j < k
    <3>1. j \in 1 .. Len(r) /\ r[j] = c[j]
      BY <1>2, <1>3, <1>5, <2>1
    <3>2. QED
      BY <3>1
  <2>2. CASE j > k
    <3>1. j - 1 \in 1 .. Len(r) /\ r[j - 1] = c[j]
      BY <1>2, <1>3, <1>5, <2>2
    <3>2. QED
      BY <3>1
  <2>3. QED
    BY <1>2, <2>1, <2>2
<1>8. \A j \in 1 .. Len(c) : j # k => c[j].name # c[k].name
  BY DEF Unique
<1>9. Names(r) \subseteq Names(c) \ {c[k].name}
  BY <1>6, <1>8 DEF Names
<1>10. Names(c) \ {c[k].name} \subseteq Names(r)
  BY <1>7 DEF Names
<1>11. QED
  BY <1>1, <1>4, <1>9, <1>10

\* remove_function on an array that read_cache has just loaded.
LEMMA RmTakesOne ==
  ASSUME NEW c \in Seq(Entry), Unique(c), Len(c) < UIntMod, NEW p,
         NEW pos \in NamePositions(c, p), RemoveAndList(c, Len(c), pos)
  PROVE  Names(SubSeq(cache', 1, nr')) = Names(c) \ {p}
<1>1. Len(c) \in Nat /\ UIntMod \in Nat \ {0} /\ pos \in Int /\ IsNamePos(c, p, pos)
  BY CommandAssumption DEF NamePositions
<1>2. CASE \E k \in 1 .. Len(c) : pos = -k /\ c[k].name = p
  <2>1. PICK k \in 1 .. Len(c) : pos = -k /\ c[k].name = p
    BY <1>2
  <2>2. pos < 0 /\ -pos = k /\ Len(c) \in 0 .. UIntMod - 1 /\ Len(c) # 0
    BY <1>1, <2>1
  <2>3. nr' = Len(c) - 1
    BY <2>2, DecrementValue DEF RemoveAndList
  <2>4. cache' = Drop(c, Len(c), k)
    BY <2>2 DEF RemoveAndList
  <2>5. QED
    BY <2>1, <2>3, <2>4, DropNames
<1>3. CASE /\ pos \in 0 .. Len(c)
           /\ \A i \in 1 .. pos : c[i].name < p
           /\ \A i \in pos + 1 .. Len(c) : p < c[i].name
  <2>1. ~(pos < 0)
    BY <1>1, <1>3
  <2>2. cache' = c /\ nr' = Len(c)
    BY <2>1 DEF RemoveAndList
  <2>3. SubSeq(c, 1, Len(c)) = c
    OBVIOUS
  <2>4. \A i \in 1 .. Len(c) : c[i].name # p
    <3>1. \A i \in 1 .. Len(c) : i \in 1 .. pos \/ i \in pos + 1 .. Len(c)
      BY <1>1, <1>3
    <3>2. \A i \in 1 .. Len(c) : c[i].name \in Nat
      BY NamesAreNumbers
    <3>3. QED
      BY <1>3, <3>1, <3>2
  <2>5. QED
    BY <2>2, <2>3, <2>4 DEF Names
<1>4. QED
  BY <1>1, <1>2, <1>3 DEF IsNamePos

\* Only getopt_long takes an option off the command line.
LEMMA TodoStep ==
  ASSUME Inv, [Next]_vars, todo' # todo, Head(todo).opt = "rm", pc' = "getopt"
  PROVE  Rm
<1>1. \E o : Option(o)
  BY DEF Next, Dies, InitOption, Status, Diff, Commit, Reset, CatFile, Usage, Rm, RmDies,
         AddRefused, AddStart, AddIgnored, AddFile, AddMissing, AddFails, AddDone, AddEnds,
         NextArg, Return, vars
<1>2. \A o : Option(o) => o = "rm"
  BY DEF Option
<1>3. QED
  BY <1>2 DEF Next, Dies, InitOption, Status, Diff, Commit, Reset, CatFile, Usage, RmDies,
         AddRefused, AddStart, AddIgnored, AddFile, AddMissing, AddFails, AddDone, AddEnds,
         NextArg, Return, vars, Goto

\* Until getopt_long has returned an option nothing has been read.
Starts ==
  /\ Len(todo) <= Len(cmdline.options)
  /\ Len(todo) = Len(cmdline.options) => ~loaded /\ pc # "add"

\* A step that takes no option is one of update_cache or reads nothing.
LEMMA OptionOrNot ==
  ASSUME Inv, [Next]_vars, \A o : ~Option(o)
  PROVE  /\ todo' = todo /\ cmdline' = cmdline
         /\ pc = "add" \/ (loaded' = loaded /\ (pc # "add" => pc' # "add"))
<1>1. CASE Return \/ UNCHANGED vars
  BY <1>1 DEF Return, Goto, memory, vars
<1>2. CASE AddIgnored \/ AddFile \/ AddMissing \/ AddFails \/ AddDone
  BY <1>2 DEF AddIgnored, AddFile, AddMissing, RemoveMissing, AddFails, AddDone, AddEnds,
              NextArg, InLoop
<1>3. QED
  BY <1>1, <1>2 DEF Next, Dies, InitOption, Status, Diff, Commit, Reset, CatFile, Usage, Rm,
                    RmDies, AddRefused, AddStart

\* Every step keeps Starts.
LEMMA StartsStep ==
  ASSUME Inv, Starts, [Next]_vars
  PROVE  Starts'
<1>1. todo \in Seq(OptionRecord) /\ Len(todo) \in Nat /\ Len(cmdline.options) \in Nat
  <2>1. todo \in Seq(OptionRecord)
    BY DEF Inv, Line
  <2>2. PICK s \in Seq(OptionRecord) : s = cmdline.options
    BY DEF Inv, TypeOK
  <2>3. QED
    BY <2>1, <2>2
<1>2. CASE \E o : Option(o)
  <2>1. PICK o : Option(o)
    BY <1>2
  <2>2. todo # <<>> /\ todo' = Tail(todo) /\ cmdline' = cmdline
    BY <2>1 DEF Option
  <2>3. Len(todo') = Len(todo) - 1
    BY <1>1, <2>2
  <2>4. Len(todo') <= Len(cmdline.options) /\ Len(todo') # Len(cmdline.options)
    BY <1>1, <2>3 DEF Starts
  <2>5. QED
    BY <2>2, <2>4, Zenon DEF Starts
<1>3. CASE \A o : ~Option(o)
  <2>1. /\ todo' = todo /\ cmdline' = cmdline
        /\ pc = "add" \/ (loaded' = loaded /\ (pc # "add" => pc' # "add"))
    BY <1>3, OptionOrNot
  <2>2. QED
    BY <2>1 DEF Starts
<1>4. QED
  BY <1>2, <1>3

(***************************************************************************)
(* When the index the process finds names no path twice, git --rm path,    *)
(* with --rm the first option and the path its own word, takes this path   *)
(* and nothing else out of the array: its argv[2] is the path.             *)
(***************************************************************************)
THEOREM RmRemovesExactly ==
  ASSUME \A c \in Indexes : Unique(c)
  PROVE  Spec => RmIsExact
<1>1. ASSUME Inv, Starts, [Next]_vars, todo = cmdline.options, todo' # todo, pc' = "getopt",
             Head(todo).opt = "rm", ~Head(todo).joined
      PROVE  Names(SubSeq(cache', 1, nr')) = StagedNames \ {Head(todo).arg}
  <2>0. argv[2] = Head(todo).arg /\ Len(argv) >= 2
    <3>1. PICK line \in Lines : line = cmdline
      BY <1>1 DEF Inv, Line
    <3>2. argv = Words(line) /\ todo = line.options
      BY <1>1, <3>1 DEF Inv, Line
    <3>3. \E o : Option(o)
      BY <1>1, TodoStep DEF Rm
    <3>4. todo \in Seq(OptionRecord) /\ todo # <<>>
      BY <1>1, <3>3 DEF Inv, Line, Option
    <3>5. 1 \in 1 .. Len(line.options) /\ Head(todo) = line.options[1]
      BY <3>2, <3>4
    <3>6. line.options[1].arg # NoArg /\ ~line.options[1].joined
      BY <1>1, <3>5, LinesAssumption
    <3>7. Len(Words(line)) >= 2 /\ Words(line)[2] = line.options[1].arg
      BY <3>5, <3>6, ArgumentFound
    <3>8. QED
      BY <3>2, <3>5, <3>7
  <2>1. Rm
    BY <1>1, TodoStep
  <2>2. Option("rm") /\ Line
    BY <1>1, <2>1 DEF Rm, Inv
  <2>3. ~ReadResult.fails
    <3> SUFFICES ASSUME ReadResult.fails PROVE FALSE
      OBVIOUS
    <3>1. RemoveAndList(cache, nr, -1)
      BY <2>1 DEF Rm
    <3>2. pc # "died"
      BY <2>2 DEF Option
    <3>3. cache = <<>> /\ nr = 0
      BY <1>1, <3>2 DEF Inv, Fresh, Starts
    <3>4. UIntMod > 1
      <4>1. Len(argv) >= 2 /\ Len(<<>>) + Len(argv) < UIntMod
        BY <2>0, <2>2 DEF Line
      <4>2. Len(argv) \in Nat
        BY <1>1, ArgvType DEF Inv
      <4>3. QED
        BY <4>1, <4>2, CommandAssumption
    <3>5. 0 \in 0 .. UIntMod - 1
      BY CommandAssumption
    <3>6. nr' = UIntMod - 1
      BY <3>1, <3>3, <3>5, DecrementValue DEF RemoveAndList
    <3>7. nr' > Len(cache)
      BY <3>3, <3>4, <3>6, CommandAssumption
    <3>8. QED
      BY <1>1, <3>1, <3>7 DEF RemoveAndList, Goto
  <2>4. PICK c : c = ReadResult.entries
    OBVIOUS
  <2>5. c = (IF index = NoFile THEN <<>> ELSE index) /\ index # <<>>
    BY <2>1, <2>3, <2>4 DEF Rm, ReadResult, ReadDies
  <2>6. index \in {NoFile} \cup Indexes
    BY <1>1, <2>5 DEF Inv, Fresh, Starts
  <2>7. c \in Indexes \cup {<<>>} /\ c \in Seq(Entry) /\ Unique(c)
    <3>1. <<>> \in Seq(Entry) /\ Unique(<<>>)
      BY DEF Unique
    <3>2. QED
      BY <2>5, <2>6, <3>1, CommandAssumption
  <2>8. Len(c) < UIntMod
    <3>1. Len(c) + Len(argv) < UIntMod /\ Len(argv) \in Nat /\ Len(c) \in Nat
      BY <1>1, <2>2, <2>7, ArgvType DEF Inv, Line
    <3>2. QED
      BY <3>1, CommandAssumption
  <2>9. PICK pos \in NamePositions(c, argv[2]) : RemoveAndList(c, Len(c), pos)
    BY <2>1, <2>3, <2>4 DEF Rm
  <2>10. Names(SubSeq(cache', 1, nr')) = Names(c) \ {argv[2]}
    BY <2>7, <2>8, <2>9, RmTakesOne
  <2>11. Names(<<>>) = {}
    BY DEF Names
  <2>12. Names(c) = StagedNames
    BY <2>5, <2>11 DEF StagedNames
  <2>13. QED
    BY <2>0, <2>10, <2>12
<1>2. Inv /\ Starts /\ [Next]_vars =>
        [/\ todo = cmdline.options /\ todo' # todo /\ pc' = "getopt"
         /\ Head(todo).opt = "rm" /\ ~Head(todo).joined
         => Names(SubSeq(cache', 1, nr')) = StagedNames \ {Head(todo).arg}]_vars
  BY <1>1
<1>3. Init => Starts
  <2> SUFFICES ASSUME Init PROVE Starts
    OBVIOUS
  <2>1. Len(todo) \in Nat
    BY InitInv DEF Inv, Line
  <2>2. QED
    BY <2>1 DEF Init, Starts
<1>4. Inv /\ Starts /\ [Next]_vars => Starts'
  BY StartsStep
<1>5. QED
  BY <1>2, <1>3, <1>4, InitInv, NextInv, PTL DEF Spec, RmIsExact
=============================================================================
