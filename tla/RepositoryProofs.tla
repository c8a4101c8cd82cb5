-------------------------- MODULE RepositoryProofs --------------------------
(***************************************************************************)
(* The commands over one repository, for any number of processes and paths *)
(* and whatever fails.  What git --diff reports is right although it takes *)
(* no lock.  git --commit does beside the real git --add what Commit says  *)
(* it does beside IndexStore, and disturbs no other command.  And git      *)
(* --add and git --diff end after a bounded number of steps.               *)
(***************************************************************************)
EXTENDS Repository, StoreProofs

-----------------------------------------------------------------------------
\* git --diff beside git --add

\* The initial state satisfies the inductive invariant.
LEMMA DiffInitInv == Init /\ DiffInit => Inv /\ ObjectsSettled /\ Reading
<1> SUFFICES ASSUME Init, DiffInit PROVE Inv /\ ObjectsSettled /\ Reading
  OBVIOUS
<1>1. Inv /\ ObjectsSettled
  BY InitInv, InitSettled
<1>2. NoEntry \in Entry
  BY NamesAssumption DEF NoEntry, Entry
<1>3. Len(dsnap) = 0 /\ dsnap \in Seq(Entry)
  BY DEF DiffInit
<1>4. said \in Report
  BY <1>2 DEF DiffInit, Report, Verdict, Held
<1>5. DiffTypeOK
  <2>1. dpc = "idle" /\ di \in Nat \ {0}
    BY DEF DiffInit
  <2>2. dfault \in BOOLEAN
    BY Zenon DEF DiffInit
  <2>3. QED
    BY <1>3, <1>4, <2>1, <2>2 DEF DiffTypeOK
<1>6. SnapSound
  BY <1>3 DEF SnapSound
<1>7. OkIsTrue /\ OldIsWhole /\ dpc # "open"
  BY DEF DiffInit, OkIsTrue, OldIsWhole
<1>8. QED
  BY <1>1, <1>5, <1>6, <1>7 DEF Reading

\* A step of git --add or of the user keeps what show_diff knows.
LEMMA OthersKeepReading ==
  ASSUME Inv, ObjectsSettled, Reading, [Next]_vars, UNCHANGED diff
  PROVE  Reading'
<1>0. TypeOK /\ UNCHANGED <<dpc, dsnap, di, dfault, said>> /\ dsnap \in Seq(Entry)
  BY DEF Inv, diff, Reading, DiffTypeOK
<1>1. DiffTypeOK' /\ OkIsTrue' /\ (dpc = "open" => di <= Len(dsnap))'
  BY <1>0 DEF Reading, DiffTypeOK, OkIsTrue, Report, WorkFile
<1>2. SnapSound'
  <2> SUFFICES ASSUME NEW i \in 1 .. Len(dsnap) PROVE (Sound(dsnap[i]) /\ Whole(dsnap[i]))'
    BY <1>0 DEF SnapSound
  <2>1. PICK e \in Entry : e = dsnap[i]
    BY <1>0
  <2>2. Sound(e) /\ Whole(e)
    BY <2>1 DEF Reading, SnapSound
  <2>3. Sound(e)' /\ Whole(e)'
    BY <1>0, <2>2, SoundStable, WholeStable
  <2>4. QED
    BY <1>0, <2>1, <2>3 DEF Sound, Whole, Describes
<1>3. OldIsWhole'
  <2>1. faults \in Nat /\ (faults' > 0 \/ faults' = faults)
    BY <1>0, FaultsGrow DEF TypeOK
  <2>2. QED
    BY <1>0, <2>1 DEF Reading, OldIsWhole
<1>4. QED
  BY <1>1, <1>2, <1>3 DEF Reading

\* A report on the current entry keeps the types.
LEMMA SayTypes ==
  ASSUME TypeOK, Reading, di <= Len(dsnap),
         NEW v \in Verdict, NEW o \in Held, Say(v, o), dfault' \in BOOLEAN
  PROVE  /\ DiffTypeOK' /\ dsnap' = dsnap /\ dpc' = "stat"
         /\ said'.entry = dsnap[di] /\ said'.verdict = v /\ said'.old = o
         /\ said'.new = work[dsnap[di].name]
<1>1. dsnap \in Seq(Entry) /\ di \in 1 .. Len(dsnap) /\ di \in Nat
  BY DEF Reading, DiffTypeOK
<1>2. dsnap[di] \in Entry
  BY <1>1
<1>3. dsnap[di].name \in Path
  BY <1>2 DEF Entry
<1>4. work[dsnap[di].name] \in {NoFile} \cup WorkFile
  BY <1>3 DEF TypeOK
<1>5. said' = [entry |-> dsnap[di], verdict |-> v, old |-> o, new |-> work[dsnap[di].name]]
  BY DEF Say, DiffEntry
<1>6. said' \in Report
  BY <1>2, <1>4, <1>5 DEF Report
<1>7. di' = di + 1 /\ dpc' = "stat" /\ dsnap' = dsnap
  BY DEF Say
<1>8. DiffTypeOK'
  BY <1>1, <1>6, <1>7 DEF DiffTypeOK, Report, WorkFile
<1>9. QED
  BY <1>5, <1>7, <1>8

\* A report that is right leaves the invariant true.
LEMMA SayKeeps ==
  ASSUME TypeOK, Reading, di <= Len(dsnap), UNCHANGED vars, dfault' \in BOOLEAN,
         NEW v \in Verdict, NEW o \in Held, Say(v, o),
         v = "ok" => /\ work[dsnap[di].name] # NoFile
                     /\ Stream(work[dsnap[di].name].data) = dsnap[di].sha1,
         v = "differs" /\ ~dfault' /\ faults = 0 => o = Filled(dsnap[di].sha1)
  PROVE  Reading'
<1>1. /\ DiffTypeOK' /\ dsnap' = dsnap /\ dpc' = "stat"
      /\ said'.entry = dsnap[di] /\ said'.verdict = v /\ said'.old = o
      /\ said'.new = work[dsnap[di].name]
  BY SayTypes
<1>2. UNCHANGED <<objects, work, clock, faults>>
  BY DEF vars, disk, world
<1>3. SnapSound'
  BY <1>1, <1>2 DEF Reading, SnapSound, Sound, Whole, Describes
<1>4. OkIsTrue'
  BY <1>1 DEF OkIsTrue
<1>5. OldIsWhole'
  BY <1>1, <1>2 DEF OldIsWhole
<1>6. QED
  BY <1>1, <1>3, <1>4, <1>5 DEF Reading

\* Each step of show_diff keeps the invariant.
LEMMA StepsKeepReading ==
  ASSUME Inv, ObjectsSettled, Reading, DiffStart \/ DiffStep \/ DiffCallFails, UNCHANGED vars
  PROVE  Reading'
<1>0. /\ TypeOK /\ DiffTypeOK /\ SnapSound /\ dsnap \in Seq(Entry) /\ di \in Nat \ {0}
      /\ dfault \in BOOLEAN /\ OkIsTrue /\ OldIsWhole
  BY DEF Inv, Reading, DiffTypeOK
<1>1. UNCHANGED <<index, objects, work, clock, faults>>
  BY DEF vars, disk, world
<1>2. ASSUME dsnap' \in Seq(Entry), di' \in Nat \ {0}, dfault' \in BOOLEAN, UNCHANGED said,
             dfault => dfault', dpc' \in {"idle", "read", "stat", "open"},
             SnapSound', (dpc = "open" => di <= Len(dsnap))'
      PROVE  Reading'
  <2>1. DiffTypeOK'
    BY <1>0, <1>2 DEF DiffTypeOK, Report, WorkFile
  <2>2. OkIsTrue' /\ OldIsWhole'
    BY <1>0, <1>1, <1>2 DEF OkIsTrue, OldIsWhole
  <2>3. QED
    BY <1>2, <2>1, <2>2 DEF Reading
<1>3. ASSUME dsnap' = dsnap PROVE SnapSound'
  BY <1>0, <1>1, <1>3 DEF SnapSound, Sound, Whole, Describes
<1>4. ASSUME DiffExit, UNCHANGED said, dfault' \in BOOLEAN, dfault => dfault' PROVE Reading'
  <2>1. dpc' = "idle" /\ di' = 1 /\ dsnap' = <<>>
    BY <1>4 DEF DiffExit
  <2>2. Len(dsnap') = 0 /\ dsnap' \in Seq(Entry)
    BY <2>1
  <2>3. SnapSound'
    BY <2>2 DEF SnapSound
  <2>4. di' \in Nat \ {0} /\ dpc' \in {"idle", "read", "stat", "open"}
    BY <2>1
  <2>5. QED
    BY <1>2, <1>4, <2>1, <2>2, <2>3, <2>4
<1>5. ASSUME di <= Len(dsnap)
      PROVE  /\ di \in 1 .. Len(dsnap) /\ dsnap[di] \in Entry
             /\ Sound(dsnap[di]) /\ Whole(dsnap[di])
  <2>1. di \in 1 .. Len(dsnap)
    BY <1>0, <1>5
  <2>2. QED
    BY <1>0, <2>1 DEF SnapSound
<1>6. CASE DiffStart
  <2>1. dpc' = "read" /\ UNCHANGED <<dsnap, di, dfault, said>>
    BY <1>6 DEF DiffStart
  <2>2. QED
    BY <1>0, <1>2, <1>3, <2>1
<1>7. CASE DiffRead
  <2>1. /\ dpc' = "stat" /\ UNCHANGED <<di, dfault, said>>
        /\ dsnap' = IF index = NoFile THEN <<>> ELSE index.body
    BY <1>7 DEF DiffRead
  <2>2. CASE index = NoFile
    <3>1. dsnap' = <<>> /\ dsnap' \in Seq(Entry)
      BY <2>1, <2>2
    <3>2. Len(dsnap') = 0
      BY <3>1
    <3>3. SnapSound'
      BY <3>2 DEF SnapSound
    <3>4. QED
      BY <1>0, <1>2, <2>1, <3>1, <3>3
  <2>3. CASE index # NoFile
    <3>1. dsnap' = index.body /\ dsnap' \in Seq(Entry)
      BY <1>0, <2>1, <2>3, IndexBody
    <3>2. \A i \in 1 .. Len(index.body) : Sound(index.body[i]) /\ Whole(index.body[i])
      BY <2>3 DEF Inv, EntriesSound, ObjectsSettled, IndexObjectsWhole
    <3>3. SnapSound'
      BY <1>1, <3>1, <3>2 DEF SnapSound, Sound, Whole, Describes
    <3>4. QED
      BY <1>0, <1>2, <2>1, <3>1, <3>3
  <2>4. QED
    BY <2>2, <2>3
<1>8. CASE DiffReadFails \/ DiffDone \/ ShowDifferencesDies
  <2>1. DiffExit /\ UNCHANGED <<dfault, said>>
    BY <1>8 DEF DiffReadFails, DiffDone, ShowDifferencesDies
  <2>2. QED
    BY <1>0, <1>4, <2>1
<1>9. CASE DiffGone
  <2>1. di <= Len(dsnap) /\ Say("gone", "absent") /\ UNCHANGED dfault
    BY <1>9 DEF DiffGone
  <2>2. "gone" \in Verdict /\ "absent" \in Held
    BY DEF Verdict, Held
  <2>3. QED
    BY <1>0, <2>1, <2>2, SayKeeps
<1>10. CASE DiffOk
  <2>1. /\ di <= Len(dsnap) /\ Say("ok", "absent") /\ UNCHANGED dfault
        /\ work[dsnap[di].name] # NoFile /\ work[dsnap[di].name].stat = dsnap[di].stat
    BY <1>10 DEF DiffOk, MatchStat, DiffEntry
  <2>2. "ok" \in Verdict /\ "absent" \in Held
    BY DEF Verdict, Held
  <2>3. Stream(work[dsnap[di].name].data) = dsnap[di].sha1
    BY <1>5, <2>1 DEF Sound, Describes
  <2>4. QED
    BY <1>0, <2>1, <2>2, <2>3, SayKeeps
<1>11. CASE DiffChanged
  <2>1. dpc' = "open" /\ di <= Len(dsnap) /\ UNCHANGED <<dsnap, di, dfault, said>>
    BY <1>11 DEF DiffChanged
  <2>2. QED
    BY <1>0, <1>2, <1>3, <2>1
<1>12. CASE ShowDifferences
  <2>1. di <= Len(dsnap) /\ Say("differs", objects[dsnap[di].sha1]) /\ UNCHANGED dfault
    BY <1>12 DEF ShowDifferences, DiffEntry, Reading
  <2>2. "differs" \in Verdict
    BY DEF Verdict
  <2>3. dsnap[di].sha1 \in Blob /\ Whole(dsnap[di])
    BY <1>5, <2>1 DEF Entry
  <2>4. objects[dsnap[di].sha1] \in Held
    BY <1>0, <2>3 DEF TypeOK
  <2>5. faults = 0 => objects[dsnap[di].sha1] = Filled(dsnap[di].sha1)
    BY <2>3 DEF Whole
  <2>6. QED
    BY <1>0, <2>1, <2>2, <2>4, <2>5, SayKeeps
<1>13. CASE DiffCallFails
  <2>0. dfault' = TRUE /\ "gone" \in Verdict /\ "differs" \in Verdict /\ "absent" \in Held
    BY <1>13 DEF DiffCallFails, Verdict, Held
  <2>1. CASE DiffExit /\ UNCHANGED said
    BY <1>4, <2>0, <2>1
  <2>2. CASE di <= Len(dsnap) /\ Say("gone", "absent")
    BY <1>0, <2>0, <2>2, SayKeeps
  <2>3. CASE dpc = "open" /\ Say("differs", "absent")
    <3>1. di <= Len(dsnap)
      BY <2>3 DEF Reading
    <3>2. QED
      BY <1>0, <2>0, <2>3, <3>1, SayKeeps
  <2>4. QED
    BY <1>13, <2>1, <2>2, <2>3 DEF DiffCallFails
<1>14. QED
  BY <1>6, <1>7, <1>8, <1>9, <1>10, <1>11, <1>12, <1>13 DEF DiffStep

\* The inductive invariant of git --diff beside git --add.
LEMMA NextDiffInv == DiffInv /\ [DiffNext]_<<vars, diff>> => DiffInv'
<1> SUFFICES ASSUME Inv, ObjectsSettled, Reading, [DiffNext]_<<vars, diff>>
             PROVE  (Inv /\ ObjectsSettled /\ Reading)'
  BY DEF DiffInv
<1>1. [Next]_vars
  BY DEF DiffNext
<1>2. Inv' /\ ObjectsSettled'
  BY <1>1, NextInv, NextSettled
<1>3. UNCHANGED diff \/ ((DiffStart \/ DiffStep \/ DiffCallFails) /\ UNCHANGED vars)
  BY DEF DiffNext
<1>4. Reading'
  BY <1>1, <1>3, OthersKeepReading, StepsKeepReading
<1>5. QED
  BY <1>2, <1>4

\* It holds in every reachable state.
LEMMA DiffInvariance == DiffSpec => []DiffInv
<1>1. Init /\ DiffInit => DiffInv
  BY DiffInitInv DEF DiffInv
<1>2. QED
  BY <1>1, NextDiffInv, PTL DEF DiffSpec

\* The variables of show_diff keep their types.
THEOREM DiffTypes == DiffSpec => []DiffTypeOK
<1>1. DiffInv => DiffTypeOK
  BY DEF DiffInv, Reading
<1>2. QED
  BY <1>1, DiffInvariance, PTL

(***************************************************************************)
(* When show_diff prints "ok" the file has the contents its entry names,   *)
(* or as much of them as index_fd keeps, however often the index was       *)
(* replaced and the file edited since read_cache: what match_stat          *)
(* concludes cannot become stale.                                          *)
(***************************************************************************)
THEOREM OkNeverLies == DiffSpec => []OkIsTrue
<1>1. DiffInv => OkIsTrue
  BY DEF DiffInv, Reading
<1>2. QED
  BY <1>1, DiffInvariance, PTL

(***************************************************************************)
(* Without a failing call show_diff reads the old contents from an object  *)
(* that holds all that index_fd made of them, although it neither takes    *)
(* the lock nor tests the result of read_sha1_file.  For contents that fit *)
(* the buffer of index_fd this is the whole object.                        *)
(***************************************************************************)
THEOREM OldContentsAreWhole == DiffSpec => []OldIsWhole
<1>1. DiffInv => OldIsWhole
  BY DEF DiffInv, Reading
<1>2. QED
  BY <1>1, DiffInvariance, PTL

-----------------------------------------------------------------------------
\* Progress of git --diff.

\* The loop of show_diff ends with the last entry.
DiffCounted ==
  /\ di <= Len(dsnap) + 1
  /\ dpc \in {"idle", "read"} => di = 1

\* An upper bound of the calls show_diff still makes once it has read the index:
\* two for each entry that is left, and the return.
DiffLeft ==
  CASE dpc = "stat" -> 2 * (Len(dsnap) + 1 - di) + 1
    [] dpc = "open" -> 2 * (Len(dsnap) + 1 - di)
    [] OTHER -> 0

(***************************************************************************)
(* git --diff ends after a bounded number of its own steps: once it has    *)
(* read the index, at most two for each entry and one.  Each step brings   *)
(* the end nearer, also a failing call; the git --add processes and the    *)
(* user, who may replace the index and every file meanwhile, do not move   *)
(* it away.                                                                *)
(***************************************************************************)
DiffEnds ==
  [][dpc = "stat" \/ dpc = "open" =>
       /\ DiffLeft' \in 0 .. DiffLeft
       /\ DiffStep \/ DiffCallFails => DiffLeft' < DiffLeft]_<<vars, diff>>

\* Every step of show_diff once it has read the index.
LEMMA DiffMoves ==
  ASSUME dpc = "stat" \/ dpc = "open", DiffStep \/ DiffCallFails
  PROVE  \/ DiffExit
         \/ dpc = "stat" /\ di <= Len(dsnap) /\ dpc' = "open" /\ dsnap' = dsnap /\ di' = di
         \/ /\ (dpc = "stat" /\ di <= Len(dsnap)) \/ dpc = "open"
            /\ dpc' = "stat" /\ dsnap' = dsnap /\ di' = di + 1
BY DEF DiffStep, DiffRead, DiffReadFails, DiffGone, DiffOk, DiffChanged, ShowDifferences,
   ShowDifferencesDies, DiffDone, DiffCallFails, Say

\* The loop variable stays within the entries.
LEMMA NextDiffCounted == DiffInv /\ DiffCounted /\ [DiffNext]_<<vars, diff>> => DiffCounted'
<1> SUFFICES ASSUME DiffInv, DiffCounted, [DiffNext]_<<vars, diff>> PROVE DiffCounted'
  OBVIOUS
<1>0. /\ Len(dsnap) \in Nat /\ di \in Nat \ {0} /\ dpc \in {"idle", "read", "stat", "open"}
      /\ dpc = "open" => di <= Len(dsnap)
  <2>1. dsnap \in Seq(Entry)
    BY DEF DiffInv, Reading, DiffTypeOK
  <2>2. QED
    BY <2>1 DEF DiffInv, Reading, DiffTypeOK
<1>1. CASE DiffExit
  <2>1. Len(dsnap') = 0 /\ di' = 1
    BY <1>1 DEF DiffExit
  <2>2. QED
    BY <2>1 DEF DiffCounted
<1>2. CASE DiffStart \/ UNCHANGED diff
  BY <1>2 DEF DiffStart, diff, DiffCounted
<1>3. CASE DiffRead
  <2>1. dsnap' \in Seq(Entry)
    BY <1>3, IndexBody DEF DiffRead, DiffInv, Inv
  <2>2. Len(dsnap') \in Nat /\ di' = 1 /\ dpc' = "stat"
    BY <1>3, <2>1 DEF DiffRead, DiffCounted
  <2>3. QED
    BY <2>2 DEF DiffCounted
<1>4. CASE (dpc = "stat" \/ dpc = "open") /\ (DiffStep \/ DiffCallFails)
  BY <1>0, <1>1, <1>4, DiffMoves DEF DiffCounted
<1>5. CASE ~(dpc = "stat" \/ dpc = "open") /\ (DiffStep \/ DiffCallFails)
  BY <1>1, <1>3, <1>5 DEF DiffStep, DiffReadFails, DiffGone, DiffOk, DiffChanged,
     ShowDifferences, ShowDifferencesDies, DiffDone, DiffCallFails
<1>6. QED
  BY <1>2, <1>4, <1>5 DEF DiffNext

\* The k-th of c entries is compared.
LEMMA EntryCompared ==
  ASSUME NEW c \in Nat, NEW k \in Nat \ {0}, k <= c,
         NEW n \in {2 * (c + 1 - k) + 1, 2 * (c + 1 - k)}, NEW m, m = 2 * (c + 1 - (k + 1)) + 1
  PROVE  m \in 0 .. n /\ m < n
OBVIOUS

(***************************************************************************)
(* The bound, for every index and whatever runs beside show_diff.          *)
(***************************************************************************)
THEOREM DiffTakesBoundedSteps == DiffSpec => DiffEnds
<1>1. Init /\ DiffInit => DiffCounted
  BY DEF DiffInit, DiffCounted
<1>2. ASSUME DiffInv, DiffCounted, [DiffNext]_<<vars, diff>>, dpc = "stat" \/ dpc = "open"
      PROVE  /\ DiffLeft' \in 0 .. DiffLeft
             /\ DiffStep \/ DiffCallFails => DiffLeft' < DiffLeft
  <2>0. /\ Len(dsnap) \in Nat /\ di \in Nat \ {0} /\ di <= Len(dsnap) + 1
        /\ dpc = "open" => di <= Len(dsnap)
    <3>1. dsnap \in Seq(Entry)
      BY <1>2 DEF DiffInv, Reading, DiffTypeOK
    <3>2. QED
      BY <1>2, <3>1 DEF DiffInv, Reading, DiffTypeOK, DiffCounted
  <2>1. DiffLeft \in Nat
    BY <2>0 DEF DiffLeft
  <2>2. CASE DiffStep \/ DiffCallFails
    <3>1. CASE DiffExit
      <4>1. DiffLeft' = 0
        BY <3>1 DEF DiffExit, DiffLeft
      <4>2. DiffLeft > 0
        BY <1>2, <2>0 DEF DiffLeft
      <4>3. QED
        BY <2>1, <4>1, <4>2
    <3>2. CASE dpc = "stat" /\ di <= Len(dsnap) /\ dpc' = "open" /\ dsnap' = dsnap /\ di' = di
      BY <2>0, <3>2 DEF DiffLeft
    <3>3. CASE di <= Len(dsnap) /\ dpc' = "stat" /\ dsnap' = dsnap /\ di' = di + 1
      <4>1. DiffLeft' = 2 * (Len(dsnap) + 1 - (di + 1)) + 1
        BY <3>3, Zenon DEF DiffLeft
      <4>2. DiffLeft \in {2 * (Len(dsnap) + 1 - di) + 1, 2 * (Len(dsnap) + 1 - di)}
        BY <1>2, Zenon DEF DiffLeft
      <4>3. QED
        BY <2>0, <3>3, <4>1, <4>2, EntryCompared, Zenon
    <3>4. QED
      BY <1>2, <2>0, <2>2, <3>1, <3>2, <3>3, DiffMoves
  <2>3. CASE ~(DiffStep \/ DiffCallFails)
    <3>1. UNCHANGED diff
      BY <1>2, <2>3 DEF DiffNext, DiffStart
    <3>2. DiffLeft' = DiffLeft
      BY <3>1 DEF diff, DiffLeft
    <3>3. QED
      BY <2>1, <2>3, <3>2
  <2>4. QED
    BY <2>2, <2>3
<1>3. DiffInv /\ DiffCounted /\ [DiffNext]_<<vars, diff>> =>
        [dpc = "stat" \/ dpc = "open" =>
           /\ DiffLeft' \in 0 .. DiffLeft
           /\ DiffStep \/ DiffCallFails => DiffLeft' < DiffLeft]_<<vars, diff>>
  BY <1>2
<1>4. QED
  BY DiffInvariance, NextDiffCounted, <1>1, <1>3, PTL DEF DiffSpec, DiffEnds

-----------------------------------------------------------------------------
\* The commands together.

\* The two instances of the store, git --add's and git --commit's, hold the same
\* of an object file that has been filled.
LEMMA StoresFillAlike == \A b : Store!Filled(b) = C!Filled(b)
BY DEF Store!Filled, C!Filled

\* A step of git --add that IndexStore allows is one that Commit allows, also
\* when git --commit is the one that has failed.
LEMMA StoreStepFaulty ==
  ASSUME FaultsCounted, [Store!StoreNext]_(Store!store), faults \in Nat,
         faulty' = (faulty \/ faults' > 0), UNCHANGED committers
  PROVE  C!AddStep \/ UNCHANGED C!vars
<1>0. faulty \in BOOLEAN /\ faulty' \in BOOLEAN /\ (faults > 0 => faulty)
  BY Zenon DEF FaultsCounted
<1>1. UNCHANGED <<C!database, commits, cpc, C!process, announced>>
  BY DEF committers, C!database, C!process
<1>2. ASSUME (faults > 0)' = (faults > 0) PROVE faulty' = faulty
  BY <1>0, <1>2, Zenon
<1>3. CASE Store!Install
  <2>1. ASSUME NEW i \in 1 .. Len(IndexContents') PROVE C!Usable(IndexContents'[i].sha1)
    BY <1>0, <1>3, StoresFillAlike DEF Store!Install, Store!Usable, C!Usable
  <2>2. C!Sorted(IndexContents')
    BY <1>3 DEF Store!Install, Store!Sorted, C!Sorted
  <2>3. UNCHANGED <<objects, faulty>> /\ IndexContents' \in Seq(Entry)
    BY <1>2, <1>3 DEF Store!Install
  <2>4. C!Install
    BY <2>1, <2>2, <2>3 DEF C!Install
  <2>5. QED
    BY <1>1, <2>4 DEF C!AddStep, C!StoreNext
<1>4. ASSUME NEW b \in Blob, Store!CreateBlob(b) \/ Store!FillBlob(b) PROVE C!AddStep
  <2>1. faulty' = faulty
    BY <1>2, <1>4 DEF Store!CreateBlob, Store!FillBlob
  <2>2. C!CreateBlob(b) \/ C!FillBlob(b)
    BY <1>4, <2>1, StoresFillAlike DEF Store!CreateBlob, Store!FillBlob, C!CreateBlob, C!FillBlob
  <2>3. QED
    BY <1>1, <2>2 DEF C!AddStep, C!StoreNext
<1>5. CASE Store!GoWrong
  <2>1. UNCHANGED <<IndexContents, objects>> /\ faulty' = TRUE
    BY <1>0, <1>5 DEF Store!GoWrong
  <2>2. CASE faulty = TRUE
    BY <1>1, <2>1, <2>2 DEF C!vars, C!store
  <2>3. CASE faulty = FALSE
    BY <1>1, <2>1, <2>3 DEF C!GoWrong, C!AddStep, C!StoreNext
  <2>4. QED
    BY <1>0, <2>2, <2>3
<1>6. CASE UNCHANGED Store!store
  <2>1. UNCHANGED <<IndexContents, objects, faulty>>
    BY <1>2, <1>6 DEF Store!store
  <2>2. QED
    BY <1>1, <2>1 DEF C!vars, C!store
<1>7. QED
  BY <1>3, <1>4, <1>5, <1>6 DEF Store!StoreNext

\* git --commit remembers its faults.
LEMMA CommitterFaults ==
  ASSUME faulty \in BOOLEAN, NEW p \in Committer,
         C!Start(p) \/ C!Step(p) \/ C!CallFails(p) \/ C!Crash(p)
  PROVE  faulty' \in BOOLEAN /\ (faulty => faulty')
<1> USE DEF C!store
<1>1. CASE faulty' = faulty \/ faulty' = TRUE
  BY <1>1, Zenon
<1>2. CASE C!Start(p)
  BY <1>1, <1>2 DEF C!Start
<1>3. CASE \/ C!ReadIndex(p) \/ C!NoCache(p) \/ C!CheckEntry(p) \/ C!EncodeTree(p)
           \/ C!CreateTree(p) \/ C!TreeExists(p) \/ C!WriteTree(p)
  BY <1>1, <1>3 DEF C!ReadIndex, C!NoCache, C!CheckEntry, C!EncodeTree, C!CreateTree,
     C!TreeExists, C!WriteTree
<1>4. CASE \/ C!ParseParents(p) \/ C!BadParent(p) \/ C!CreateCommit(p) \/ C!CommitExists(p)
           \/ C!WriteCommit(p)
  BY <1>1, <1>4 DEF C!ParseParents, C!BadParent, C!CreateCommit, C!CommitExists, C!WriteCommit
<1>5. CASE C!CallFails(p) \/ C!Crash(p)
  BY <1>1, <1>5 DEF C!CallFails, C!Crash
<1>6. CASE C!CheckFails(p)
  BY <1>6, Zenon DEF C!CheckFails
<1>7. QED
  BY <1>2, <1>3, <1>4, <1>5, <1>6 DEF C!Step

\* The invariant of the repository.
RepositoryInv == DiffInv /\ FaultsCounted

\* git --commit leaves the variables of the other commands alone.
LEMMA NextRepositoryInv ==
  RepositoryInv /\ [RepositoryNext]_repository => RepositoryInv'
<1> SUFFICES ASSUME DiffInv, FaultsCounted, [RepositoryNext]_repository PROVE RepositoryInv'
  BY DEF RepositoryInv
<1>1. [DiffNext]_<<vars, diff>>
  BY DEF RepositoryNext, OtherStep, CommitStep, repository
<1>2. DiffInv'
  BY <1>1, NextDiffInv
<1>3. FaultsCounted'
  <2>1. CASE OtherStep
    BY <2>1, Zenon DEF OtherStep, FaultsCounted
  <2>2. ASSUME NEW p \in Committer, CommitStep(p) PROVE FaultsCounted'
    <3>1. faults' = faults
      BY <2>2 DEF CommitStep, vars
    <3>2. faulty' \in BOOLEAN /\ (faulty => faulty')
      BY <2>2, CommitterFaults DEF CommitStep, FaultsCounted
    <3>3. QED
      BY <3>1, <3>2 DEF FaultsCounted
  <2>3. CASE UNCHANGED repository
    BY <2>3 DEF repository, vars, FaultsCounted
  <2>4. QED
    BY <2>1, <2>2, <2>3 DEF RepositoryNext
<1>4. QED
  BY <1>2, <1>3 DEF RepositoryInv

\* It holds in every reachable state.
LEMMA RepositoryInvariance == RepositorySpec => []RepositoryInv
<1>1. RepositoryInit => RepositoryInv
  <2> SUFFICES ASSUME RepositoryInit PROVE RepositoryInv
    OBVIOUS
  <2>1. DiffInv
    BY DiffInitInv DEF RepositoryInit, DiffInv
  <2>2. faults = 0 /\ faulty = FALSE
    BY DEF RepositoryInit, Init, C!Init, C!StoreInit
  <2>3. FaultsCounted
    <3>1. ~(faults > 0)
      BY <2>2
    <3>2. QED
      BY <2>2, <3>1, Zenon DEF FaultsCounted
  <2>4. QED
    BY <2>1, <2>3 DEF RepositoryInv
<1>2. QED
  BY <1>1, NextRepositoryInv, PTL DEF RepositorySpec

(***************************************************************************)
(* Beside the real git --add processes, whatever fails in either command,  *)
(* git --commit does nothing that Commit does not allow: what CommitProofs *)
(* shows of Init and [][Next]_vars holds in the whole repository.          *)
(***************************************************************************)
THEOREM CommitBesideAdd == RepositorySpec => ImplementsCommit
<1>1. RepositoryInit => C!Init
  BY DEF RepositoryInit
<1>2. ASSUME RepositoryInv, [RepositoryNext]_repository PROVE [C!Next]_(C!vars)
  <2>0. Inv /\ ObjectsSettled /\ FaultsCounted /\ faults \in Nat
    BY <1>2 DEF RepositoryInv, DiffInv, Inv, TypeOK
  <2>1. CASE OtherStep
    <3>1. [Next]_vars
      BY <2>1 DEF OtherStep, DiffNext
    <3>2. [Store!StoreNext]_(Store!store)
      BY <2>0, <3>1, StoreStep
    <3>3. C!AddStep \/ UNCHANGED C!vars
      BY <2>0, <2>1, <3>2, StoreStepFaulty DEF OtherStep
    <3>4. QED
      BY <3>3 DEF C!Next
  <2>2. ASSUME NEW p \in Committer, CommitStep(p) PROVE C!Next
    BY <2>2 DEF CommitStep, C!Next
  <2>3. CASE UNCHANGED repository
    BY <2>3 DEF repository, committers, vars, disk, IndexContents, C!vars, C!store, C!database,
       C!process
  <2>4. QED
    BY <1>2, <2>1, <2>2, <2>3 DEF RepositoryNext
<1>3. QED
  BY <1>1, <1>2, RepositoryInvariance, PTL DEF RepositorySpec, ImplementsCommit

(***************************************************************************)
(* And git --commit disturbs neither of the other commands: the index and  *)
(* the objects stay as sound as without it, and git --diff as truthful.    *)
(***************************************************************************)
THEOREM OthersBesideCommit == RepositorySpec => [](Inv /\ ObjectsSettled /\ OkIsTrue /\ OldIsWhole)
<1>1. RepositoryInv => Inv /\ ObjectsSettled /\ OkIsTrue /\ OldIsWhole
  BY DEF RepositoryInv, DiffInv, Reading
<1>2. QED
  BY <1>1, RepositoryInvariance, PTL

-----------------------------------------------------------------------------
\* Progress of git --add.

\* The loop over the arguments ends with the last one.
Counted(p) ==
  /\ argi[p] <= Len(argv[p]) + 1
  /\ pc[p] \in {"idle", "read"} => argi[p] = 1
  /\ pc[p] \in {"mmap", "creat", "write"} => argi[p] <= Len(argv[p])

\* What the arguments that are left and the entries to be written cost: five
\* calls for an argument, one for the entry that it may add, one for each entry.
Work(p) == 6 * (Len(argv[p]) + 1 - argi[p]) + Len(cache[p])

\* An upper bound of the system calls that a process still makes once it has
\* read the index.
StepsLeft(p) ==
  CASE pc[p] = "lock" -> Work(p) + 4
    [] pc[p] = "args" -> Work(p) + 3
    [] pc[p] = "mmap" -> Work(p) + 2
    [] pc[p] = "creat" -> Work(p) + 1
    [] pc[p] = "write" -> Work(p)
    [] pc[p] = "entries" -> Len(cache[p]) - Len(lock.body) + 2
    [] pc[p] = "unlink" -> 1
    [] OTHER -> 0

(***************************************************************************)
(* git --add ends after a bounded number of its own system calls: once it  *)
(* has read the index, at most six for each argument, one for each entry   *)
(* it read, and four.  Each call brings the end nearer, also one that      *)
(* fails, and neither another process nor the user moves it away: a lock   *)
(* that is taken is not waited for, and nobody grows the file it writes.   *)
(***************************************************************************)
AddEnds ==
  [][\A p \in Proc : pc[p] \notin {"idle", "read"} =>
       /\ StepsLeft(p)' \in 0 .. StepsLeft(p)
       /\ Step(p) \/ CallFails(p) \/ Crash(p) => StepsLeft(p)' < StepsLeft(p)]_vars

\* The lengths that the bound is made of.
LEMMA Lengths ==
  ASSUME TypeOK, LockOwned, NEW p \in Proc
  PROVE  /\ Len(argv[p]) \in Nat /\ argi[p] \in Nat /\ argi[p] > 0
         /\ Len(cache[p]) \in Nat
         /\ pc[p] \in Holding => Len(lock.body) \in Nat
         /\ pc[p] \in Pc
<1>1. argv[p] \in Seq(Path) /\ argi[p] \in Nat \ {0} /\ cache[p] \in Seq(Entry) /\ pc[p] \in Pc
  BY DEF TypeOK
<1>2. pc[p] \in Holding => lock.body \in Seq(Entry)
  BY DEF TypeOK, LockOwned, LockFile
<1>3. QED
  BY <1>1, <1>2, LengthIsNat, PositiveNat, Zenon

\* Staging an entry adds at most one.
LEMMA StageGrows ==
  ASSUME Inv, NEW p \in Proc, Stage(p)
  PROVE  Len(cache'[p]) \in 0 .. Len(cache[p]) + 1
<1>1. ce[p] \in Entry /\ cache[p] \in Seq(Entry) /\ Sorted(cache[p])
  BY DEF Inv, TypeOK, CachesSorted
<1>2. PICK pos \in NamePositions(cache[p], ce[p].name) :
        cache' = [cache EXCEPT ![p] = AddCacheEntry(cache[p], pos, ce[p])]
  BY DEF Stage
<1>3. cache'[p] = AddCacheEntry(cache[p], pos, ce[p])
  BY <1>2 DEF Inv, TypeOK
<1>4. QED
  BY <1>1, <1>3, AddGrows, Zenon

\* Removing an entry adds none.
LEMMA RemoveShrinks ==
  ASSUME Inv, NEW p \in Proc, RemoveDeleted(p)
  PROVE  Len(cache'[p]) \in 0 .. Len(cache[p])
<1>1. Arg(p) \in Path /\ cache[p] \in Seq(Entry) /\ Sorted(cache[p])
  BY ArgIsPath DEF RemoveDeleted, Inv, TypeOK, CachesSorted
<1>2. PICK pos \in NamePositions(cache[p], Arg(p)) :
        cache' = [cache EXCEPT ![p] = RemoveFileFromCache(cache[p], pos)]
  BY DEF RemoveDeleted
<1>3. cache'[p] = RemoveFileFromCache(cache[p], pos)
  BY <1>2 DEF Inv, TypeOK
<1>4. QED
  BY <1>1, <1>3, RemoveShortens, Zenon

\* A step of another process, or of the user, leaves a process where it is.
LEMMA Bystander ==
  ASSUME TypeOK, [Next]_vars, NEW p \in Proc,
         ~(Start(p) \/ Step(p) \/ CallFails(p) \/ Crash(p))
  PROVE  UNCHANGED <<pc[p], cache[p], argv[p], argi[p]>>
<1> USE DEF disk, world, memory
<1>1. CASE \/ \E q \in Editable : Edit(q)
           \/ \E q \in Deletable : Delete(q)
           \/ ClearLock
           \/ UNCHANGED vars
  BY <1>1 DEF Edit, Delete, ClearLock, vars
<1>2. ASSUME NEW q \in Proc, q # p, Start(q) \/ Step(q) \/ CallFails(q) \/ Crash(q)
      PROVE  UNCHANGED <<argv[p], argi[p]>>
  <2> USE DEF TypeOK
  <2>1. CASE Exit(q)
    BY <1>2, <2>1 DEF Exit
  <2>2. CASE UNCHANGED argv /\ (UNCHANGED argi \/ NextArg(q))
    BY <1>2, <2>2 DEF NextArg
  <2>3. CASE Start(q)
    BY <1>2, <2>3 DEF Start
  <2>4. CASE \/ ReadCacheFails(q) \/ LockTaken(q) \/ TruncatedWhileRead(q)
             \/ Rename(q) \/ Unlink(q) \/ Crash(q)
    BY <2>1, <2>4 DEF ReadCacheFails, LockTaken, TruncatedWhileRead, Rename, Unlink, Crash
  <2>5. CASE \/ ReadCache(q) \/ OpenLock(q) \/ IgnorePath(q) \/ RemoveDeleted(q) \/ OpenFile(q)
             \/ HashFile(q) \/ MmapRefused(q) \/ CreateObject(q) \/ WriteHeader(q)
             \/ WriteEntry(q)
    BY <2>2, <2>5 DEF ReadCache, OpenLock, IgnorePath, RemoveDeleted, OpenFile, HashFile,
       MmapRefused, CreateObject, WriteHeader, WriteEntry
  <2>6. CASE ObjectExists(q) \/ WriteObject(q)
    BY <2>2, <2>6 DEF ObjectExists, WriteObject, Stage
  <2>7. CASE CallFails(q)
    BY <2>1, <2>2, <2>7 DEF CallFails, Stage
  <2>8. QED
    BY <1>2, <2>3, <2>4, <2>5, <2>6, <2>7 DEF Step
<1>3. QED
  BY <1>1, <1>2, OthersUnchanged DEF Next

\* What a process does to its place, its argument and its cache.
Moves(p) ==
  \/ pc'[p] = "idle" /\ argv'[p] = <<>> /\ argi'[p] = 1
  \/ /\ pc[p] \in {"args", "mmap", "creat", "entries"} /\ pc'[p] = "unlink"
     /\ argv'[p] = argv[p] /\ argi'[p] = argi[p]
  \/ /\ <<pc[p], pc'[p]>> \in
          {<<"lock", "args">>, <<"mmap", "creat">>, <<"creat", "write">>}
     /\ argv'[p] = argv[p] /\ argi'[p] = argi[p] /\ cache'[p] = cache[p]
  \/ /\ pc[p] = "args" /\ argi[p] <= Len(argv[p]) /\ pc'[p] = "mmap"
     /\ argv'[p] = argv[p] /\ argi'[p] = argi[p] /\ cache'[p] = cache[p]
  \/ /\ pc[p] = "args" /\ argi[p] <= Len(argv[p]) /\ pc'[p] = "args"
     /\ argv'[p] = argv[p] /\ argi'[p] = argi[p] + 1
     /\ Len(cache'[p]) \in 0 .. Len(cache[p])
  \/ /\ pc[p] \in {"creat", "write"} /\ pc'[p] = "args"
     /\ argv'[p] = argv[p] /\ argi'[p] = argi[p] + 1
     /\ Len(cache'[p]) \in 0 .. Len(cache[p]) + 1
  \/ /\ pc[p] = "args" /\ argi[p] > Len(argv[p]) /\ pc'[p] = "entries"
     /\ argv'[p] = argv[p] /\ argi'[p] = argi[p] /\ cache'[p] = cache[p]
     /\ lock'.body = lock.body
  \/ /\ pc[p] = "entries" /\ pc'[p] = "entries"
     /\ argv'[p] = argv[p] /\ argi'[p] = argi[p] /\ cache'[p] = cache[p]
     /\ Len(lock.body) < Len(cache[p]) /\ Len(lock'.body) = Len(lock.body) + 1

\* Every step of a process that has read the index is one of these.
LEMMA StepMoves ==
  ASSUME Inv, NEW p \in Proc, pc[p] \notin {"idle", "read"},
         Step(p) \/ CallFails(p) \/ Crash(p)
  PROVE  Moves(p)
<1> USE DEF disk, world, memory
<1>0. TypeOK /\ LockOwned /\ pc \in [Proc -> Pc]
  BY DEF Inv, TypeOK
<1>1. CASE Exit(p)
  BY <1>0, <1>1 DEF Exit, Goto, TypeOK, Moves
<1>2. CASE Stage(p) /\ pc[p] \in {"creat", "write"}
  BY <1>0, <1>2, StageGrows DEF Stage, NextArg, Goto, TypeOK, Moves
<1>3. CASE Goto(p, "unlink") /\ pc[p] \in {"args", "mmap", "creat", "entries"}
           /\ UNCHANGED <<argv, argi>>
  BY <1>0, <1>3 DEF Goto, Moves
<1>4. CASE OpenLock(p) \/ CreateObject(p)
  BY <1>0, <1>4 DEF OpenLock, CreateObject, Goto, Moves
<1>5. CASE HashFile(p)
  BY <1>0, <1>5 DEF HashFile, Goto, Moves
<1>6. CASE OpenFile(p)
  BY <1>0, <1>6 DEF OpenFile, InLoop, Goto, Moves
<1>7. CASE IgnorePath(p)
  <2>1. Len(cache'[p]) \in 0 .. Len(cache[p])
    BY <1>0, <1>7, Lengths DEF IgnorePath
  <2>2. QED
    BY <1>0, <1>7, <2>1 DEF IgnorePath, InLoop, NextArg, Goto, TypeOK, Moves
<1>8. CASE RemoveDeleted(p)
  <2>1. Len(cache'[p]) \in 0 .. Len(cache[p])
    BY <1>8, RemoveShrinks
  <2>2. CASE NextArg(p)
    BY <1>0, <1>8, <2>1, <2>2 DEF RemoveDeleted, InLoop, NextArg, Goto, TypeOK, Moves
  <2>3. CASE Goto(p, "unlink") /\ UNCHANGED argi
    BY <1>3, <1>8, <2>3 DEF RemoveDeleted, InLoop
  <2>4. QED
    BY <1>8, <2>2, <2>3 DEF RemoveDeleted
<1>9. CASE WriteHeader(p)
  <2>1. lock \in LockFile
    BY <1>0, <1>9 DEF TypeOK, LockOwned, Holding, WriteHeader
  <2>2. lock'.body = lock.body
    BY <1>9, <2>1 DEF WriteHeader, LockFile
  <2>3. QED
    BY <1>0, <1>9, <2>2 DEF WriteHeader, Goto, Moves
<1>10. CASE WriteEntry(p)
  <2>1. lock \in LockFile /\ lock.body \in Seq(Entry) /\ cache[p] \in Seq(Entry)
    BY <1>0, <1>10 DEF TypeOK, LockOwned, Holding, WriteEntry, LockFile
  <2>2. lock'.body = Append(lock.body, cache[p][Len(lock.body) + 1])
    BY <1>10, <2>1 DEF WriteEntry, LockFile
  <2>3. cache[p][Len(lock.body) + 1] \in Entry
    BY <1>10, <2>1 DEF WriteEntry
  <2>4. Len(lock'.body) = Len(lock.body) + 1
    <3>1. Len(Append(lock.body, cache[p][Len(lock.body) + 1])) = Len(lock.body) + 1
      BY <2>1, <2>3, AppendLonger, Zenon
    <3>2. QED
      BY <2>2, <3>1, Zenon
  <2>5. QED
    BY <1>0, <1>10, <2>4 DEF WriteEntry, Moves
<1>11. CASE LockTaken(p) \/ TruncatedWhileRead(p) \/ Rename(p) \/ Unlink(p) \/ Crash(p)
  BY <1>1, <1>11 DEF LockTaken, TruncatedWhileRead, Rename, Unlink, Crash
<1>12. CASE MmapRefused(p)
  BY <1>3, <1>12 DEF MmapRefused
<1>13. CASE ObjectExists(p) \/ WriteObject(p)
  BY <1>2, <1>13 DEF ObjectExists, WriteObject
<1>14. CASE CallFails(p)
  BY <1>1, <1>2, <1>3, <1>14 DEF CallFails
<1>15. CASE ReadCache(p) \/ ReadCacheFails(p)
  BY <1>15 DEF ReadCache, ReadCacheFails
<1>16. QED
  BY <1>4, <1>5, <1>6, <1>7, <1>8, <1>9, <1>10, <1>11, <1>12, <1>13, <1>14, <1>15 DEF Step

\* The loop variable stays within the arguments.
LEMMA NextCounted ==
  ASSUME Inv, [Next]_vars, NEW p \in Proc, Counted(p)
  PROVE  Counted(p)'
<1>0. /\ TypeOK /\ LockOwned /\ TypeOK' /\ argv'[p] \in Seq(Path)
      /\ DOMAIN pc = Proc /\ DOMAIN argi = Proc
  BY NextInv, Zenon DEF Inv, TypeOK
<1>1. Len(argv[p]) \in Nat /\ argi[p] \in Nat /\ Len(argv'[p]) \in Nat
  BY <1>0, Lengths, LengthIsNat, Zenon
<1>2. CASE Start(p)
  <2>1. pc'[p] = "read" /\ argi'[p] = 1
    BY <1>0, <1>2 DEF Start, Goto, Counted
  <2>2. 1 <= Len(argv'[p]) + 1
    BY <1>1, AtMost, Zenon
  <2>3. QED
    BY <2>1, <2>2, Zenon DEF Counted
<1>3. CASE pc[p] \notin {"idle", "read"} /\ (Step(p) \/ CallFails(p) \/ Crash(p))
  <2>1. Moves(p)
    BY <1>3, StepMoves
  <2>2. /\ argi'[p] <= Len(argv'[p]) + 1
        /\ pc'[p] \in {"mmap", "creat", "write"} => argi'[p] <= Len(argv'[p])
    <3>1. CASE pc'[p] = "idle" /\ argi'[p] = 1
      BY <1>1, <3>1, AtMost, Zenon
    <3>2. CASE /\ argv'[p] = argv[p] /\ argi'[p] = argi[p]
               /\ pc'[p] \in {"mmap", "creat", "write"} => argi[p] <= Len(argv[p])
      BY <3>2, Zenon DEF Counted
    <3>3. CASE /\ argv'[p] = argv[p] /\ argi'[p] = argi[p] + 1
               /\ argi[p] <= Len(argv[p]) /\ pc'[p] = "args"
      <4>1. argi[p] + 1 <= Len(argv[p]) + 1
        BY <1>1, <3>3, Between, Zenon
      <4>2. QED
        BY <3>3, <4>1, Zenon
    <3>4. QED
      BY <2>1, <3>1, <3>2, <3>3, Zenon DEF Moves, Counted
  <2>3. pc'[p] # "read" /\ (pc'[p] = "idle" => argi'[p] = 1)
    BY <2>1 DEF Moves
  <2>4. QED
    BY <2>2, <2>3, Zenon DEF Counted
<1>4. CASE pc[p] = "read" /\ (Step(p) \/ CallFails(p) \/ Crash(p))
  <2>1. CASE Exit(p)
    <3>1. pc'[p] = "idle" /\ argi'[p] = 1
      BY <1>0, <2>1 DEF Exit, Goto
    <3>2. QED
      BY <1>1, <3>1, AtMost, Zenon DEF Counted
  <2>2. CASE ReadCache(p)
    <3>1. pc'[p] = "lock" /\ argi'[p] = argi[p] /\ argv'[p] = argv[p]
      BY <1>0, <2>2 DEF ReadCache, Goto
    <3>2. QED
      BY <3>1, Zenon DEF Counted
  <2>3. Exit(p) \/ ReadCache(p)
    BY <1>4 DEF Step, ReadCacheFails, OpenLock, LockTaken, IgnorePath, RemoveDeleted,
       OpenFile, HashFile, MmapRefused, TruncatedWhileRead, CreateObject, ObjectExists,
       WriteObject, WriteHeader, WriteEntry, Rename, Unlink, CallFails, Crash, InLoop
  <2>4. QED
    BY <2>1, <2>2, <2>3
<1>5. CASE pc[p] = "idle" /\ (Step(p) \/ CallFails(p) \/ Crash(p))
  BY <1>5 DEF Step, ReadCache, ReadCacheFails, OpenLock, LockTaken, IgnorePath, RemoveDeleted,
     OpenFile, HashFile, MmapRefused, TruncatedWhileRead, CreateObject, ObjectExists,
     WriteObject, WriteHeader, WriteEntry, Rename, Unlink, CallFails, Crash, InLoop
<1>6. CASE ~(Start(p) \/ Step(p) \/ CallFails(p) \/ Crash(p))
  BY <1>0, <1>6, Bystander DEF Counted
<1>7. QED
  BY <1>2, <1>3, <1>4, <1>5, <1>6

\* Nobody else touches the lock file of a process.
LEMMA LockStays ==
  ASSUME Inv, [Next]_vars, NEW p \in Proc, pc[p] \in Holding,
         ~(Step(p) \/ CallFails(p) \/ Crash(p))
  PROVE  lock' = lock
<1> USE DEF disk, world, memory
<1>0. LockOwned /\ lock # NoFile /\ lock.owner = p
  BY DEF Inv, LockOwned
<1>1. ASSUME NEW q \in Proc, Start(q) \/ CallFails(q) \/ Crash(q) PROVE lock' = lock
  BY <1>1 DEF Start, CallFails, Crash
<1>2. ASSUME NEW q \in Proc, q # p, Step(q) PROVE lock' = lock
  <2>1. pc[q] \notin Holding
    BY <1>0, <1>2, Exclusive
  <2>2. QED
    BY <1>0, <1>2, <2>1 DEF Step, ReadCache, ReadCacheFails, OpenLock, LockTaken, IgnorePath,
       RemoveDeleted, OpenFile, HashFile, MmapRefused, TruncatedWhileRead, CreateObject,
       ObjectExists, WriteObject, WriteHeader, WriteEntry, Rename, Unlink, InLoop, Holding
<1>3. CASE (\E q \in Editable : Edit(q)) \/ (\E q \in Deletable : Delete(q)) \/ UNCHANGED vars
  BY <1>3 DEF Edit, Delete, vars
<1>4. ~ClearLock
  BY <1>0 DEF ClearLock, Orphaned
<1>5. QED
  BY <1>1, <1>2, <1>3, <1>4 DEF Next

\* The cost of m arguments, of which the k-th is next, and c entries.
LEMMA ArgsCost ==
  ASSUME NEW m \in Nat, NEW k \in Nat, NEW c \in Nat, k <= m + 1
  PROVE  /\ 6 * (m + 1 - k) + c \in Nat
         /\ c <= 6 * (m + 1 - k) + c
         /\ k <= m => 6 * (m + 1 - k) + c >= 6
OBVIOUS

\* The k-th argument is done, and has added at most one entry.
LEMMA ArgDone ==
  ASSUME NEW m \in Nat, NEW k \in 1 .. m, NEW c \in Nat, NEW d \in 0 .. c + 1
  PROVE  6 * (m + 1 - (k + 1)) + d \in 0 .. (6 * (m + 1 - k) + c) - 5
OBVIOUS

\* The calls left in the loop over the arguments, when the work is w.
LEMMA ArgCalls ==
  ASSUME NEW w \in Nat
  PROVE  /\ w + 4 \in Nat /\ w + 3 \in Nat /\ w + 2 \in Nat /\ w + 1 \in Nat
         /\ w + 4 >= 1 /\ w + 3 >= 1 /\ w + 2 >= 1 /\ w + 1 >= 1
         /\ w + 3 >= 2 /\ w + 2 >= 2
         /\ w >= 6 => w >= 1 /\ w + 1 >= 2
OBVIOUS

\* One more call, at the same argument.
LEMMA CallDone ==
  ASSUME NEW w \in Nat, NEW n, NEW m,
         \/ n = w + 4 /\ m = w + 3
         \/ n = w + 3 /\ m = w + 2
         \/ n = w + 2 /\ m = w + 1
         \/ n = w + 1 /\ m = w
  PROVE  m \in 0 .. n - 1
OBVIOUS

\* The last call for an argument takes five or more off the work.
LEMMA LastCallDone ==
  ASSUME NEW w \in Nat, NEW v \in 0 .. w - 5, NEW n \in {w + 3, w + 1, w}, NEW m, m = v + 3
  PROVE  m \in 0 .. n - 1
OBVIOUS

\* The header is written, and the c entries are next.
LEMMA HeaderDone ==
  ASSUME NEW w \in Nat, NEW c \in 0 .. w, NEW b, b = 0,
         NEW n, n = w + 3, NEW m, m = c - b + 2
  PROVE  m \in 0 .. n - 1
OBVIOUS

\* b of the c entries are written.
LEMMA EntryCalls ==
  ASSUME NEW c \in Nat, NEW b \in Nat, b <= c
  PROVE  c - b + 2 \in Nat /\ c - b + 2 >= 1 /\ c - b + 2 >= 2
OBVIOUS

\* One more of them.
LEMMA EntryDone ==
  ASSUME NEW c \in Nat, NEW b \in Nat, b < c, NEW d, d = b + 1,
         NEW n, n = c - b + 2, NEW m, m = c - d + 2
  PROVE  m \in 0 .. n - 1
OBVIOUS

\* The last call of all.
LEMMA LastCalls ==
  /\ 0 \in Nat /\ 1 \in Nat /\ 1 >= 1
  /\ \A n \in Nat : (n >= 1 => 0 \in 0 .. n - 1) /\ (n >= 2 => 1 \in 0 .. n - 1)
OBVIOUS

\* The work that is left.
LEMMA WorkLeft ==
  ASSUME TypeOK, LockOwned, NEW p \in Proc, Counted(p)
  PROVE  /\ Work(p) \in Nat
         /\ Len(cache[p]) \in 0 .. Work(p)
         /\ pc[p] \in {"mmap", "creat", "write"} => Work(p) >= 6
<1>1. Len(argv[p]) \in Nat /\ argi[p] \in Nat /\ Len(cache[p]) \in Nat
  BY Lengths
<1>2. argi[p] <= Len(argv[p]) + 1
      /\ (pc[p] \in {"mmap", "creat", "write"} => argi[p] <= Len(argv[p]))
  BY DEF Counted
<1>3. /\ 6 * (Len(argv[p]) + 1 - argi[p]) + Len(cache[p]) \in Nat
      /\ Len(cache[p]) <= 6 * (Len(argv[p]) + 1 - argi[p]) + Len(cache[p])
      /\ argi[p] <= Len(argv[p]) => 6 * (Len(argv[p]) + 1 - argi[p]) + Len(cache[p]) >= 6
  BY <1>1, <1>2, ArgsCost, Zenon
<1>4. Work(p) \in Nat /\ Len(cache[p]) <= Work(p) /\ (argi[p] <= Len(argv[p]) => Work(p) >= 6)
  BY <1>3, Zenon DEF Work
<1>5. QED
  BY <1>1, <1>2, <1>4, Between, Zenon

\* A process that has not ended has calls left.
LEMMA CallsLeft ==
  ASSUME TypeOK, LockOwned, LockFilePrefix, NEW p \in Proc, Counted(p)
  PROVE  /\ StepsLeft(p) \in Nat
         /\ pc[p] \notin {"idle", "read"} => StepsLeft(p) >= 1
         /\ pc[p] \in {"args", "mmap", "creat", "entries"} => StepsLeft(p) >= 2
<1>1. Work(p) \in Nat /\ (pc[p] \in {"creat", "write"} => Work(p) >= 6) /\ pc[p] \in Pc
  BY WorkLeft, Lengths, Zenon
<1>2. pc[p] = "entries" =>
        Len(lock.body) \in Nat /\ Len(cache[p]) \in Nat /\ Len(lock.body) <= Len(cache[p])
  BY Lengths, Zenon DEF LockFilePrefix, Holding
<1>3. CASE pc[p] \in {"lock", "args", "mmap", "creat", "write"}
  <2>1. \/ pc[p] = "lock" /\ StepsLeft(p) = Work(p) + 4
        \/ pc[p] = "args" /\ StepsLeft(p) = Work(p) + 3
        \/ pc[p] = "mmap" /\ StepsLeft(p) = Work(p) + 2
        \/ pc[p] = "creat" /\ StepsLeft(p) = Work(p) + 1
        \/ pc[p] = "write" /\ StepsLeft(p) = Work(p)
    BY <1>3, Zenon DEF StepsLeft
  <2>2. QED
    BY <1>1, <2>1, ArgCalls, Zenon
<1>4. CASE pc[p] = "entries"
  <2>1. StepsLeft(p) = Len(cache[p]) - Len(lock.body) + 2
    BY <1>4, Zenon DEF StepsLeft
  <2>2. QED
    BY <1>2, <1>4, <2>1, EntryCalls, Zenon
<1>5. CASE pc[p] \in {"unlink", "idle", "read"}
  <2>1. \/ pc[p] = "unlink" /\ StepsLeft(p) = 1
        \/ pc[p] \in {"idle", "read"} /\ StepsLeft(p) = 0
    BY <1>5, Zenon DEF StepsLeft
  <2>2. QED
    BY <2>1, LastCalls, Zenon
<1>6. QED
  BY <1>1, <1>3, <1>4, <1>5, Zenon DEF Pc, Holding

\* A step of a process brings its end nearer.
LEMMA StepShrinks ==
  ASSUME Inv, NEW p \in Proc, Counted(p), pc[p] \notin {"idle", "read"},
         Step(p) \/ CallFails(p) \/ Crash(p)
  PROVE  StepsLeft(p)' \in 0 .. StepsLeft(p) - 1
<1>0. TypeOK /\ LockOwned /\ LockFilePrefix
  BY Zenon DEF Inv
<1>1. Work(p) \in Nat /\ Len(cache[p]) \in 0 .. Work(p)
  BY <1>0, WorkLeft, Zenon
<1>2. Len(cache[p]) \in Nat /\ (pc[p] \in Holding => Len(lock.body) \in Nat)
  BY <1>0, Lengths, Zenon
<1>3. Moves(p)
  BY StepMoves, Zenon
<1>4. CASE pc'[p] = "idle"
  <2>1. StepsLeft(p)' = 0
    BY <1>4, Zenon DEF StepsLeft
  <2>2. StepsLeft(p) \in Nat /\ StepsLeft(p) >= 1
    BY <1>0, CallsLeft, Zenon
  <2>3. QED
    BY <2>1, <2>2, LastCalls, Zenon
<1>5. CASE pc'[p] = "unlink"
  <2>1. StepsLeft(p)' = 1 /\ pc[p] \in {"args", "mmap", "creat", "entries"}
    BY <1>3, <1>5, Zenon DEF StepsLeft, Moves
  <2>2. StepsLeft(p) \in Nat /\ StepsLeft(p) >= 2
    BY <1>0, <2>1, CallsLeft, Zenon
  <2>3. QED
    BY <2>1, <2>2, LastCalls, Zenon
<1>6. CASE /\ argv'[p] = argv[p] /\ argi'[p] = argi[p] /\ cache'[p] = cache[p]
           /\ <<pc[p], pc'[p]>> \in {<<"lock", "args">>, <<"args", "mmap">>,
                                     <<"mmap", "creat">>, <<"creat", "write">>}
  <2>1. Work(p)' = Work(p)
    BY <1>6 DEF Work
  <2>2. \/ StepsLeft(p) = Work(p) + 4 /\ StepsLeft(p)' = Work(p) + 3
        \/ StepsLeft(p) = Work(p) + 3 /\ StepsLeft(p)' = Work(p) + 2
        \/ StepsLeft(p) = Work(p) + 2 /\ StepsLeft(p)' = Work(p) + 1
        \/ StepsLeft(p) = Work(p) + 1 /\ StepsLeft(p)' = Work(p)
    BY <1>6, <2>1, Zenon DEF StepsLeft
  <2>3. QED
    BY <1>1, <2>2, CallDone, Zenon
<1>7. CASE /\ argv'[p] = argv[p] /\ argi'[p] = argi[p] + 1 /\ pc'[p] = "args"
           /\ pc[p] \in {"args", "creat", "write"} /\ argi[p] <= Len(argv[p])
           /\ Len(cache'[p]) \in 0 .. Len(cache[p]) + 1
  <2>1. Len(argv[p]) \in Nat /\ argi[p] \in 1 .. Len(argv[p])
    BY <1>0, <1>7, Lengths, Between, Zenon
  <2>2. Work(p)' \in 0 .. Work(p) - 5
    <3>1. 6 * (Len(argv[p]) + 1 - (argi[p] + 1)) + Len(cache'[p])
            \in 0 .. (6 * (Len(argv[p]) + 1 - argi[p]) + Len(cache[p])) - 5
      BY <1>2, <1>7, <2>1, ArgDone, Zenon
    <3>2. QED
      BY <1>7, <3>1, Zenon DEF Work
  <2>3. /\ StepsLeft(p)' = Work(p)' + 3
        /\ StepsLeft(p) \in {Work(p) + 3, Work(p) + 1, Work(p)}
    BY <1>7, Zenon DEF StepsLeft
  <2>4. QED
    BY <1>1, <2>2, <2>3, LastCallDone, Zenon
<1>8. CASE /\ pc[p] = "args" /\ pc'[p] = "entries"
           /\ cache'[p] = cache[p] /\ lock'.body = lock.body
  <2>1. Len(lock.body) = 0
    BY <1>0, <1>8, EmptyLength, Zenon DEF LockFilePrefix
  <2>2. StepsLeft(p) = Work(p) + 3 /\ StepsLeft(p)' = Len(cache[p]) - Len(lock.body) + 2
    BY <1>8, Zenon DEF StepsLeft
  <2>3. QED
    BY <1>1, <2>1, <2>2, HeaderDone, Zenon
<1>9. CASE /\ pc[p] = "entries" /\ pc'[p] = "entries" /\ cache'[p] = cache[p]
           /\ Len(lock.body) < Len(cache[p]) /\ Len(lock'.body) = Len(lock.body) + 1
  <2>1. /\ StepsLeft(p) = Len(cache[p]) - Len(lock.body) + 2
        /\ StepsLeft(p)' = Len(cache[p]) - Len(lock'.body) + 2
    BY <1>9, Zenon DEF StepsLeft
  <2>2. QED
    BY <1>2, <1>9, <2>1, EntryDone, Zenon DEF Holding
<1>10. CASE pc[p] \in {"args", "creat", "write"} /\ pc'[p] = "args"
  <2>1. /\ argv'[p] = argv[p] /\ argi'[p] = argi[p] + 1
        /\ pc[p] = "args" => argi[p] <= Len(argv[p]) /\ Len(cache'[p]) \in 0 .. Len(cache[p])
        /\ pc[p] # "args" => Len(cache'[p]) \in 0 .. Len(cache[p]) + 1
    BY <1>3, <1>10, Zenon DEF Moves
  <2>2. argi[p] <= Len(argv[p]) /\ Len(cache'[p]) \in 0 .. Len(cache[p]) + 1
    <3>1. argi[p] <= Len(argv[p])
      BY <1>10, <2>1, Zenon DEF Counted
    <3>2. QED
      BY <1>2, <2>1, <3>1, AtMost, Zenon
  <2>3. QED
    BY <1>7, <1>10, <2>1, <2>2, Zenon
<1>11. QED
  BY <1>3, <1>4, <1>5, <1>6, <1>8, <1>9, <1>10, Zenon DEF Moves

(***************************************************************************)
(* The bound, for any number of processes, paths, edits and faults.        *)
(***************************************************************************)
THEOREM AddTakesBoundedSteps == Spec => AddEnds
<1> DEFINE AllCounted == \A p \in Proc : Counted(p)
<1>1. Init => AllCounted
  BY DEF Init, Counted
<1>2. Inv /\ AllCounted /\ [Next]_vars => AllCounted'
  BY NextCounted
<1>3. ASSUME Inv, AllCounted, [Next]_vars, NEW p \in Proc, pc[p] \notin {"idle", "read"}
      PROVE  /\ StepsLeft(p)' \in 0 .. StepsLeft(p)
             /\ Step(p) \/ CallFails(p) \/ Crash(p) => StepsLeft(p)' < StepsLeft(p)
  <2>0. TypeOK /\ LockOwned /\ LockFilePrefix /\ Counted(p)
    BY <1>3 DEF Inv
  <2>1. StepsLeft(p) \in Nat
    BY <2>0, CallsLeft, Zenon
  <2>2. CASE Step(p) \/ CallFails(p) \/ Crash(p)
    <3>1. StepsLeft(p)' \in 0 .. StepsLeft(p) - 1
      BY <1>3, <2>0, <2>2, StepShrinks
    <3>2. QED
      BY <2>1, <2>2, <3>1, AtMost, Zenon
  <2>3. CASE ~(Step(p) \/ CallFails(p) \/ Crash(p))
    <3>1. ~Start(p)
      BY <1>3 DEF Start
    <3>2. UNCHANGED <<pc[p], cache[p], argv[p], argi[p]>>
      BY <1>3, <2>0, <2>3, <3>1, Bystander
    <3>3. pc[p] \in Holding => lock' = lock
      BY <1>3, <2>3, LockStays
    <3>4. StepsLeft(p)' = StepsLeft(p)
      BY <3>2, <3>3 DEF StepsLeft, Work, Holding
    <3>5. QED
      BY <2>1, <2>3, <3>4, AtMost, Zenon
  <2>4. QED
    BY <2>2, <2>3
<1>4. Inv /\ AllCounted /\ [Next]_vars =>
        [\A p \in Proc : pc[p] \notin {"idle", "read"} =>
           /\ StepsLeft(p)' \in 0 .. StepsLeft(p)
           /\ Step(p) \/ CallFails(p) \/ Crash(p) => StepsLeft(p)' < StepsLeft(p)]_vars
  BY <1>3
<1>5. QED
  BY Invariance, <1>1, <1>2, <1>4, PTL DEF Spec, AddEnds
=============================================================================
