-------------------------- MODULE UpdateCacheProofs --------------------------
(***************************************************************************)
(* The safety of git --add, for any number of processes, paths, edits,     *)
(* invocations and faults.  The inductive invariant Inv is proved one      *)
(* conjunct after the other, each from those before it.                    *)
(***************************************************************************)
EXTENDS UpdateCache, DirCacheProofs

\* An ended process has well-typed memory.
LEMMA ExitType ==
  ASSUME TypeOK, NEW p \in Proc, Exit(p)
  PROVE  /\ pc' \in [Proc -> Pc]
         /\ argv' \in [Proc -> Seq(Path)]
         /\ argi' \in [Proc -> Nat \ {0}]
         /\ cache' \in [Proc -> Seq(Entry)]
         /\ alloc' \in [Proc -> Nat]
         /\ fd' \in [Proc -> Blob \cup Unmappable]
         /\ ce' \in [Proc -> Entry]
         /\ base' \in [Proc -> {NoFile} \cup IndexFile]
<1>1. NoEntry \in Entry
  BY NamesAssumption DEF NoEntry, Entry
<1>2. Torn \in Blob
  BY NamesAssumption
<1>3. <<>> \in Seq(Path) /\ <<>> \in Seq(Entry)
  OBVIOUS
<1>4. "idle" \in Pc
  BY DEF Pc
<1>5. QED
  BY <1>1, <1>2, <1>3, <1>4 DEF TypeOK, Exit, Goto

\* Staging an entry keeps memory well typed, and puts the process at "args".
LEMMA StageType ==
  ASSUME TypeOK, CachesSorted, NEW p \in Proc, Stage(p)
  PROVE  /\ pc' \in [Proc -> Pc]
         /\ argi' \in [Proc -> Nat \ {0}]
         /\ cache' \in [Proc -> Seq(Entry)]
         /\ alloc' \in [Proc -> Nat]
<1>1. PICK pos \in NamePositions(cache[p], ce[p].name) :
        /\ cache' = [cache EXCEPT ![p] = AddCacheEntry(cache[p], pos, ce[p])]
        /\ alloc' = [alloc EXCEPT ![p] = AllocAfterAdd(cache[p], pos, alloc[p])]
  BY DEF Stage
<1>2. cache[p] \in Seq(Entry) /\ Sorted(cache[p]) /\ ce[p] \in Entry /\ alloc[p] \in Nat
  BY DEF TypeOK, CachesSorted
<1>3. AddCacheEntry(cache[p], pos, ce[p]) \in Seq(Entry)
  BY <1>2, AddKeepsSorted
<1>4. AllocAfterAdd(cache[p], pos, alloc[p]) \in Nat
  BY <1>2, AllocSlackAssumption DEF AllocAfterAdd, AllocNr
<1>5. pc' \in [Proc -> Pc] /\ argi' \in [Proc -> Nat \ {0}]
  BY DEF TypeOK, Stage, NextArg, Goto, Pc, Holding
<1>6. QED
  BY <1>1, <1>3, <1>4, <1>5 DEF TypeOK

\* The types hold at the start.
LEMMA InitType == Init => TypeOK
<1> SUFFICES ASSUME Init PROVE TypeOK
  OBVIOUS
<1>1. NoEntry \in Entry /\ Torn \in Blob
  BY NamesAssumption DEF NoEntry, Entry
<1>2. <<>> \in Seq(Path) /\ <<>> \in Seq(Entry) /\ "idle" \in Pc
  BY DEF Pc
<1>3. QED
  BY <1>1, <1>2, WorkAssumption DEF Init, TypeOK, Held

\* The argument that the loop of update_cache looks at.
LEMMA ArgIsPath ==
  ASSUME TypeOK, NEW p \in Proc, InLoop(p)
  PROVE  argi[p] \in 1 .. Len(argv[p]) /\ Arg(p) \in Path
<1>1. argv[p] \in Seq(Path) /\ argi[p] \in Nat \ {0}
  BY DEF TypeOK
<1>2. argi[p] <= Len(argv[p])
  BY DEF InLoop
<1>3. argi[p] \in 1 .. Len(argv[p])
  BY <1>1, <1>2
<1>4. QED
  BY <1>1, <1>3 DEF Arg

(***************************************************************************)
(* Types are preserved.  The cache has to be sorted for that, because      *)
(* cache_name_pos promises nothing otherwise, and the lock file has to be  *)
(* the process's own when it is written and renamed.                       *)
(***************************************************************************)
LEMMA NextType == Inv /\ [Next]_vars => TypeOK'
<1> SUFFICES ASSUME Inv, [Next]_vars PROVE TypeOK'
  OBVIOUS
<1>0. TypeOK /\ CachesSorted /\ LockOwned /\ LockFilePrefix
  BY DEF Inv
<1> USE <1>0
<1> USE DEF disk, world, memory
<1>1. ASSUME NEW p \in Proc, Start(p) PROVE TypeOK'
  <2>1. PICK a \in Argvs : argv' = [argv EXCEPT ![p] = a]
    BY <1>1 DEF Start
  <2>2. a \in Seq(Path) /\ "read" \in Pc
    BY NamesAssumption DEF Pc
  <2>3. QED
    BY <1>1, <2>1, <2>2 DEF Start, TypeOK, Goto
<1>2. ASSUME NEW p \in Proc, ReadCache(p) PROVE TypeOK'
  <2>1. "lock" \in Pc
    BY DEF Pc
  <2>2. CASE index = NoFile
    BY <1>2, <2>1, <2>2 DEF ReadCache, TypeOK, Goto
  <2>3. CASE index # NoFile
    <3>1. index \in IndexFile /\ index.body \in Seq(Entry) /\ index.entries \in Nat
      BY <2>3 DEF TypeOK, IndexFile
    <3>2. AllocNr(index.entries) \in Nat
      BY <3>1, AllocSlackAssumption DEF AllocNr
    <3>3. QED
      <4>1. /\ cache' = [cache EXCEPT ![p] = index.body]
            /\ alloc' = [alloc EXCEPT ![p] = AllocNr(index.entries)]
            /\ base' = [base EXCEPT ![p] = index]
            /\ pc' = [pc EXCEPT ![p] = "lock"]
            /\ UNCHANGED <<disk, world, runs, faults, argv, argi, fd, ce>>
        BY <1>2, <2>3 DEF ReadCache, Goto
      <4>2. QED
        BY <2>1, <3>1, <3>2, <4>1 DEF TypeOK
  <2>4. QED
    BY <2>2, <2>3
<1>3. ASSUME NEW p \in Proc, ReadCacheFails(p) PROVE TypeOK'
  BY <1>3, ExitType DEF ReadCacheFails, TypeOK
<1>4. ASSUME NEW p \in Proc, OpenLock(p) PROVE TypeOK'
  <2>1. lock' \in LockFile
    BY <1>4 DEF OpenLock, LockFile
  <2>2. QED
    BY <1>4, <2>1 DEF OpenLock, TypeOK, Goto, Pc, Holding
<1>5. ASSUME NEW p \in Proc, LockTaken(p) PROVE TypeOK'
  BY <1>5, ExitType DEF LockTaken, TypeOK
<1>6. ASSUME NEW p \in Proc, IgnorePath(p) PROVE TypeOK'
  BY <1>6 DEF IgnorePath, NextArg, TypeOK, Goto, Pc, Holding
<1>7. ASSUME NEW p \in Proc, RemoveDeleted(p) PROVE TypeOK'
  <2>1. Arg(p) \in Path
    BY <1>7, ArgIsPath DEF RemoveDeleted
  <2>2. PICK pos \in NamePositions(cache[p], Arg(p)) :
          cache' = [cache EXCEPT ![p] = RemoveFileFromCache(cache[p], pos)]
    BY <1>7 DEF RemoveDeleted
  <2>3. RemoveFileFromCache(cache[p], pos) \in Seq(Entry)
    BY <2>1, RemoveKeepsSorted DEF TypeOK, CachesSorted
  <2>4. cache' \in [Proc -> Seq(Entry)]
    BY <2>2, <2>3 DEF TypeOK
  <2>5. pc' \in [Proc -> Pc] /\ argi' \in [Proc -> Nat \ {0}]
    <3>1. CASE NextArg(p)
      BY <3>1 DEF NextArg, TypeOK, Goto, Pc, Holding
    <3>2. CASE Goto(p, "unlink") /\ UNCHANGED argi
      BY <3>2 DEF TypeOK, Goto, Pc, Holding
    <3>3. QED
      BY <1>7, <3>1, <3>2 DEF RemoveDeleted
  <2>6. QED
    BY <1>7, <2>4, <2>5 DEF RemoveDeleted, TypeOK
<1>8. ASSUME NEW p \in Proc, OpenFile(p) PROVE TypeOK'
  <2>1. Arg(p) \in Path
    BY <1>8, ArgIsPath DEF OpenFile
  <2>2. work[Arg(p)].data \in Blob \cup Unmappable /\ work[Arg(p)].stat \in Nat
    BY <1>8, <2>1 DEF OpenFile, TypeOK, WorkFile
  <2>3. ce' \in [Proc -> Entry]
    <3>1. ce' = [ce EXCEPT ![p].name = Arg(p), ![p].stat = work[Arg(p)].stat]
      BY <1>8 DEF OpenFile
    <3>2. ce \in [Proc -> Entry]
      BY DEF TypeOK
    <3>3. QED
      BY <2>1, <2>2, <3>1, <3>2 DEF Entry
  <2>4. QED
    BY <1>8, <2>2, <2>3 DEF OpenFile, TypeOK, Goto, Pc, Holding
<1>9. ASSUME NEW p \in Proc, HashFile(p) PROVE TypeOK'
  <2>1. PICK b \in Seen(p) : ce' = [ce EXCEPT ![p].sha1 = Stream(b)]
    BY <1>9 DEF HashFile
  <2>2. Stream(b) \in Blob
    <3>1. b \in Blob
      BY <1>9, <2>1, NamesAssumption DEF HashFile, Seen, TypeOK
    <3>2. QED
      BY <3>1, StreamAssumption, Zenon
  <2>3. ce' \in [Proc -> Entry]
    BY <2>1, <2>2 DEF TypeOK, Entry
  <2>4. QED
    BY <1>9, <2>3 DEF HashFile, TypeOK, Goto, Pc, Holding
<1>10. ASSUME NEW p \in Proc, MmapRefused(p) PROVE TypeOK'
  BY <1>10 DEF MmapRefused, TypeOK, Goto, Pc, Holding
<1>11. ASSUME NEW p \in Proc, TruncatedWhileRead(p) PROVE TypeOK'
  BY <1>11, ExitType DEF TruncatedWhileRead, TypeOK
<1>12. ASSUME NEW p \in Proc, CreateObject(p) PROVE TypeOK'
  <2>1. objects' \in [Blob -> Held]
    BY <1>12 DEF CreateObject, TypeOK, Held
  <2>2. QED
    BY <1>12, <2>1 DEF CreateObject, TypeOK, Goto, Pc, Holding
<1>13. ASSUME NEW p \in Proc, ObjectExists(p) PROVE TypeOK'
  BY <1>13, StageType DEF ObjectExists, Stage, TypeOK
<1>14. ASSUME NEW p \in Proc, WriteObject(p) PROVE TypeOK'
  <2>1. objects' \in [Blob -> Held]
    BY <1>14, FilledHeld DEF WriteObject, TypeOK
  <2>2. Stage(p)
    BY <1>14 DEF WriteObject
  <2>3. QED
    BY <1>14, <2>1, <2>2, StageType DEF WriteObject, Stage, TypeOK
<1>15. ASSUME NEW p \in Proc, WriteHeader(p) PROVE TypeOK'
  <2>1. lock \in LockFile /\ Len(cache[p]) \in Nat
    BY <1>15 DEF WriteHeader, LockOwned, TypeOK, Holding
  <2>2. lock' \in LockFile
    BY <1>15, <2>1 DEF WriteHeader, LockFile
  <2>3. QED
    BY <1>15, <2>2 DEF WriteHeader, TypeOK, Goto, Pc, Holding
<1>16. ASSUME NEW p \in Proc, WriteEntry(p) PROVE TypeOK'
  <2>1. lock \in LockFile /\ cache[p] \in Seq(Entry)
    BY <1>16 DEF WriteEntry, LockOwned, TypeOK, Holding
  <2>2. lock.body \in Seq(Entry)
    BY <2>1 DEF LockFile
  <2>3. cache[p][Len(lock.body) + 1] \in Entry
    BY <1>16, <2>1, <2>2 DEF WriteEntry
  <2>4. Append(lock.body, cache[p][Len(lock.body) + 1]) \in Seq(Entry)
    BY <2>2, <2>3
  <2>5. lock' \in LockFile
    BY <1>16, <2>1, <2>4 DEF WriteEntry, LockFile
  <2>6. QED
    BY <1>16, <2>5 DEF WriteEntry, TypeOK
<1>17. ASSUME NEW p \in Proc, Rename(p) PROVE TypeOK'
  <2>1. lock \in LockFile /\ lock.entries = Len(cache[p]) /\ cache[p] \in Seq(Entry)
    BY <1>17 DEF Rename, LockOwned, LockFilePrefix, TypeOK, Holding
  <2>2. lock.entries \in Nat /\ lock.body \in Seq(Entry)
    BY <2>1 DEF LockFile
  <2>3. index' \in IndexFile
    BY <1>17, <2>2 DEF Rename, IndexFile
  <2>4. QED
    BY <1>17, <2>3, ExitType DEF Rename, TypeOK
<1>18. ASSUME NEW p \in Proc, Unlink(p) PROVE TypeOK'
  BY <1>18, ExitType DEF Unlink, TypeOK
<1>19. ASSUME NEW p \in Proc, CallFails(p) PROVE TypeOK'
  <2>1. faults' \in Nat
    BY <1>19 DEF CallFails, Fault, TypeOK
  <2>2. CASE Exit(p)
    BY <1>19, <2>1, <2>2, ExitType DEF CallFails, TypeOK
  <2>3. CASE Goto(p, "unlink") /\ UNCHANGED memory
    BY <1>19, <2>1, <2>3 DEF CallFails, TypeOK, Goto, Pc, Holding
  <2>4. CASE Stage(p)
    BY <1>19, <2>1, <2>4, StageType DEF CallFails, Stage, TypeOK
  <2>5. QED
    BY <1>19, <2>2, <2>3, <2>4 DEF CallFails
<1>20. ASSUME NEW p \in Proc, Crash(p) PROVE TypeOK'
  <2>1. faults' \in Nat
    BY <1>20 DEF Crash, Fault, TypeOK
  <2>2. QED
    BY <1>20, <2>1, ExitType DEF Crash, TypeOK
<1>21. ASSUME NEW q \in Editable, Edit(q) PROVE TypeOK'
  <2>1. PICK d \in (Blob \ {Torn}) \cup Unmappable :
          work' = [work EXCEPT ![q] = [data |-> d, stat |-> clock + 1]]
    BY <1>21 DEF Edit
  <2>2. [data |-> d, stat |-> clock + 1] \in WorkFile
    BY DEF WorkFile, TypeOK
  <2>3. QED
    BY <1>21, <2>1, <2>2, NamesAssumption DEF Edit, TypeOK
<1>22. ASSUME NEW q \in Deletable, Delete(q) PROVE TypeOK'
  BY <1>22, NamesAssumption DEF Delete, TypeOK
<1>23. CASE ClearLock
  BY <1>23 DEF ClearLock, TypeOK
<1>24. CASE UNCHANGED vars
  BY <1>24 DEF vars, TypeOK
<1>25. QED
  BY <1>1, <1>2, <1>3, <1>4, <1>5, <1>6, <1>7, <1>8, <1>9, <1>10, <1>11, <1>12,
     <1>13, <1>14, <1>15, <1>16, <1>17, <1>18, <1>19, <1>20, <1>21, <1>22, <1>23,
     <1>24 DEF Next, Step

-----------------------------------------------------------------------------
\* The lock file and the file it becomes.

LockInv == LockOwned /\ LockFilePrefix /\ IndexComplete

(***************************************************************************)
(* A step of p that leaves the files alone and enters neither the locked   *)
(* section nor the writing of the entries keeps the lock invariants.       *)
(***************************************************************************)
LEMMA QuietStep ==
  ASSUME TypeOK, LockInv, NEW p \in Proc, NEW l \in Pc, Goto(p, l),
         lock' = lock, index' = index,
         \A q \in Proc : q # p => cache'[q] = cache[q],
         \/ l \in {"idle", "read", "lock"}
         \/ l = "unlink" /\ pc[p] \in Holding
         \/ /\ l \in {"args", "mmap", "creat", "write"}
            /\ pc[p] \in {"args", "mmap", "creat", "write"}
  PROVE  LockInv'
<1>1. pc' = [pc EXCEPT ![p] = l] /\ pc \in [Proc -> Pc]
  BY DEF Goto, TypeOK
<1>2. LockOwned'
  BY <1>1 DEF LockInv, LockOwned, Holding
<1>3. LockFilePrefix'
  BY <1>1 DEF LockInv, LockFilePrefix
<1>4. IndexComplete'
  BY DEF LockInv, IndexComplete
<1>5. QED
  BY <1>2, <1>3, <1>4 DEF LockInv

\* In the locked section the process is the only one there.
LEMMA Exclusive ==
  ASSUME LockOwned, NEW p \in Proc, NEW q \in Proc,
         pc[p] \in Holding, pc[q] \in Holding
  PROVE  p = q
BY DEF LockOwned

\* Only opening, writing, renaming and unlinking touch the lock file, and
\* each of them is done by its owner.
LEMMA NextLock == Inv /\ [Next]_vars => LockInv'
<1> SUFFICES ASSUME Inv, [Next]_vars PROVE LockInv'
  OBVIOUS
<1>0. TypeOK /\ LockInv
  BY DEF Inv, LockInv
<1> USE <1>0 DEF disk, world, memory
<1>1. ASSUME NEW p \in Proc, Start(p) PROVE LockInv'
  BY <1>1, QuietStep DEF Start, Pc
<1>2. ASSUME NEW p \in Proc, ReadCache(p) PROVE LockInv'
  <2>1. \A q \in Proc : q # p => cache'[q] = cache[q]
    BY <1>2 DEF ReadCache, TypeOK
  <2>2. QED
    BY <1>2, <2>1, QuietStep DEF ReadCache, Pc
<1>3. ASSUME NEW p \in Proc, Exit(p), lock' = lock, index' = index PROVE LockInv'
  <2>1. \A q \in Proc : q # p => cache'[q] = cache[q]
    BY <1>3 DEF Exit, TypeOK
  <2>2. QED
    BY <1>3, <2>1, QuietStep DEF Exit, Pc
<1>4. ASSUME NEW p \in Proc, OpenLock(p) PROVE LockInv'
  <2>1. \A q \in Proc : pc[q] \notin Holding
    BY <1>4 DEF OpenLock, LockInv, LockOwned
  <2>2. pc' = [pc EXCEPT ![p] = "args"] /\ lock' = [owner |-> p, entries |-> -1, body |-> <<>>]
    BY <1>4 DEF OpenLock, Goto
  <2>3. lock' # NoFile
    <3>1. lock' \in LockFile
      BY <2>2 DEF LockFile
    <3>2. QED
      BY <3>1, WorkAssumption
  <2>4. LockOwned' /\ LockFilePrefix'
    BY <2>1, <2>2, <2>3 DEF LockOwned, LockFilePrefix, TypeOK, Holding
  <2>5. QED
    BY <1>4, <2>4 DEF OpenLock, LockInv, IndexComplete
<1>5. ASSUME NEW p \in Proc, Stage(p), pc[p] \in {"creat", "write"},
             lock' = lock, index' = index
      PROVE  LockInv'
  <2>1. \A q \in Proc : q # p => cache'[q] = cache[q]
    BY <1>5 DEF Stage, TypeOK
  <2>2. QED
    BY <1>5, <2>1, QuietStep DEF Stage, NextArg, Pc, Holding
<1>6. ASSUME NEW p \in Proc, IgnorePath(p) PROVE LockInv'
  BY <1>6, QuietStep DEF IgnorePath, InLoop, NextArg, Pc, Holding
<1>7. ASSUME NEW p \in Proc, RemoveDeleted(p) PROVE LockInv'
  <2>1. \A q \in Proc : q # p => cache'[q] = cache[q]
    BY <1>7 DEF RemoveDeleted, TypeOK
  <2>2. CASE Goto(p, "args")
    BY <1>7, <2>1, <2>2, QuietStep DEF RemoveDeleted, InLoop, Pc, Holding
  <2>3. CASE Goto(p, "unlink")
    BY <1>7, <2>1, <2>3, QuietStep DEF RemoveDeleted, InLoop, Pc, Holding
  <2>4. QED
    BY <1>7, <2>2, <2>3 DEF RemoveDeleted, NextArg
<1>8. ASSUME NEW p \in Proc, OpenFile(p) PROVE LockInv'
  BY <1>8, QuietStep DEF OpenFile, InLoop, Pc, Holding
<1>9. ASSUME NEW p \in Proc, HashFile(p) PROVE LockInv'
  BY <1>9, QuietStep DEF HashFile, Pc, Holding
<1>10. ASSUME NEW p \in Proc, MmapRefused(p) PROVE LockInv'
  BY <1>10, QuietStep DEF MmapRefused, Pc, Holding
<1>11. ASSUME NEW p \in Proc, CreateObject(p) PROVE LockInv'
  BY <1>11, QuietStep DEF CreateObject, Pc, Holding
<1>12. ASSUME NEW p \in Proc, WriteHeader(p) PROVE LockInv'
  <2>1. /\ pc[p] \in Holding /\ lock \in LockFile /\ lock # NoFile /\ lock.owner = p
        /\ lock.body = <<>>
    BY <1>12 DEF WriteHeader, LockInv, LockOwned, LockFilePrefix, Holding, TypeOK
  <2>2. /\ lock' = [lock EXCEPT !.entries = Len(cache[p])]
        /\ pc' = [pc EXCEPT ![p] = "entries"] /\ cache' = cache /\ index' = index
    BY <1>12 DEF WriteHeader, Goto
  <2>3. /\ lock'.owner = p /\ lock'.body = <<>> /\ lock'.entries = Len(cache[p])
        /\ lock' \in LockFile
    <3>1. Len(cache[p]) \in Nat
      BY DEF TypeOK
    <3>2. lock' \in LockFile
      BY <2>1, <2>2, <3>1 DEF LockFile
    <3>3. lock'.owner = lock.owner /\ lock'.body = lock.body /\ lock'.entries = Len(cache[p])
      BY <2>1, <2>2 DEF LockFile
    <3>4. QED
      BY <2>1, <3>2, <3>3
  <2>4. \A q \in Proc : pc[q] \in Holding => q = p
    BY <2>1, Exclusive DEF LockInv
  <2>5. LockOwned'
    BY <2>2, <2>3, <2>4, WorkAssumption DEF LockOwned, TypeOK, Holding
  <2>6. \A q \in Proc : q # p => pc'[q] \notin Holding
    BY <2>2, <2>4 DEF TypeOK
  <2>7. LockFilePrefix'
    BY <2>2, <2>3, <2>6 DEF LockFilePrefix, TypeOK, Holding
  <2>8. QED
    BY <2>2, <2>5, <2>7 DEF LockInv, IndexComplete
<1>13. ASSUME NEW p \in Proc, WriteEntry(p) PROVE LockInv'
  <2>1. /\ pc[p] \in Holding /\ lock \in LockFile /\ lock # NoFile /\ lock.owner = p
        /\ lock.entries = Len(cache[p]) /\ cache[p] \in Seq(Entry)
        /\ \A i \in 1 .. Len(lock.body) : lock.body[i] = cache[p][i]
    BY <1>13 DEF WriteEntry, LockInv, LockOwned, LockFilePrefix, Holding, TypeOK
  <2>2. /\ lock' = [lock EXCEPT !.body = Append(lock.body, cache[p][Len(lock.body) + 1])]
        /\ pc' = pc /\ cache' = cache /\ index' = index /\ pc[p] = "entries"
        /\ Len(lock.body) < Len(cache[p])
    BY <1>13 DEF WriteEntry
  <2>3. lock.body \in Seq(Entry)
    BY <2>1 DEF LockFile
  <2>4. /\ lock'.owner = p /\ lock'.entries = Len(cache[p]) /\ lock' \in LockFile
        /\ lock'.body = Append(lock.body, cache[p][Len(lock.body) + 1])
    <3> DEFINE longer == Append(lock.body, cache[p][Len(lock.body) + 1])
    <3>1. longer \in Seq(Entry)
      BY <2>1, <2>2, <2>3
    <3>2. lock' = [lock EXCEPT !.body = longer]
      BY <2>2
    <3> HIDE DEF longer
    <3>3. lock' \in LockFile
      BY <2>1, <3>1, <3>2 DEF LockFile
    <3>4. lock'.owner = lock.owner /\ lock'.entries = lock.entries /\ lock'.body = longer
      BY <2>1, <3>2 DEF LockFile
    <3>5. QED
      BY <2>1, <3>3, <3>4 DEF longer
  <2>5. /\ Len(lock'.body) <= Len(cache[p])
        /\ \A i \in 1 .. Len(lock'.body) : lock'.body[i] = cache[p][i]
    BY <2>1, <2>2, <2>3, <2>4
  <2>6. \A q \in Proc : pc[q] \in Holding => q = p
    BY <2>1, Exclusive DEF LockInv
  <2>7. LockOwned'
    BY <2>2, <2>4, <2>6, WorkAssumption DEF LockOwned
  <2>8. LockFilePrefix'
    BY <2>2, <2>4, <2>5, <2>6 DEF LockFilePrefix, Holding
  <2>9. QED
    BY <2>2, <2>7, <2>8 DEF LockInv, IndexComplete
<1>14. ASSUME NEW p \in Proc, pc[p] \in Holding, Exit(p) PROVE LockOwned' /\ LockFilePrefix'
  <2>1. \A q \in Proc : pc'[q] \notin Holding
    BY <1>14, Exclusive DEF Exit, Goto, TypeOK, LockInv, Holding
  <2>2. QED
    BY <2>1 DEF LockOwned, LockFilePrefix, Holding
<1>15. ASSUME NEW p \in Proc, Rename(p) PROVE LockInv'
  <2>1. lock.entries = Len(cache[p]) /\ Len(lock.body) = Len(cache[p])
    BY <1>15 DEF Rename, LockInv, LockFilePrefix
  <2>2. IndexComplete'
    BY <1>15, <2>1 DEF Rename, IndexComplete
  <2>3. pc[p] \in Holding /\ Exit(p)
    BY <1>15 DEF Rename, Holding
  <2>4. QED
    BY <1>14, <2>2, <2>3 DEF LockInv
<1>16. ASSUME NEW p \in Proc, Unlink(p) PROVE LockInv'
  <2>1. pc[p] \in Holding /\ Exit(p) /\ index' = index
    BY <1>16 DEF Unlink, Holding
  <2>2. QED
    BY <1>14, <2>1 DEF LockInv, IndexComplete
<1>17. ASSUME NEW p \in Proc, CallFails(p) PROVE LockInv'
  <2>1. lock' = lock /\ index' = index
    BY <1>17 DEF CallFails
  <2>2. CASE Exit(p)
    BY <1>3, <2>1, <2>2
  <2>3. CASE pc[p] \in {"args", "mmap", "creat", "entries"} /\ Goto(p, "unlink") /\ UNCHANGED memory
    BY <2>1, <2>3, QuietStep DEF Pc, Holding
  <2>4. CASE pc[p] = "write" /\ Stage(p)
    BY <1>5, <2>1, <2>4
  <2>5. QED
    BY <1>17, <2>2, <2>3, <2>4 DEF CallFails
<1>18. CASE ClearLock
  <2>1. \A q \in Proc : pc[q] \notin Holding
    BY <1>18 DEF ClearLock, Orphaned, LockInv, LockOwned
  <2>2. QED
    BY <1>18, <2>1 DEF ClearLock, LockInv, LockOwned, LockFilePrefix, IndexComplete, Holding
<1>19. CASE UNCHANGED <<index, lock, pc, cache>>
  BY <1>19 DEF LockInv, LockOwned, LockFilePrefix, IndexComplete
<1>20. ASSUME NEW p \in Proc, Step(p) PROVE LockInv'
  <2>1. CASE ReadCacheFails(p) \/ LockTaken(p) \/ TruncatedWhileRead(p)
    BY <1>3, <2>1 DEF ReadCacheFails, LockTaken, TruncatedWhileRead
  <2>2. CASE ObjectExists(p) \/ WriteObject(p)
    BY <1>5, <2>2 DEF ObjectExists, WriteObject
  <2>3. QED
    BY <1>2, <1>4, <1>6, <1>7, <1>8, <1>9, <1>10, <1>11, <1>12, <1>13, <1>15,
       <1>16, <1>20, <2>1, <2>2 DEF Step
<1>21. ASSUME NEW p \in Proc, Crash(p) PROVE LockInv'
  BY <1>3, <1>21 DEF Crash
<1>22. CASE (\E q \in Editable : Edit(q)) \/ (\E q \in Deletable : Delete(q)) \/ UNCHANGED vars
  BY <1>19, <1>22 DEF Edit, Delete, vars
<1>23. QED
  BY <1>1, <1>17, <1>18, <1>20, <1>21, <1>22 DEF Next

-----------------------------------------------------------------------------
\* The order of the entries and the room for them.

OrderInv == IndexSorted /\ CachesSorted /\ NrWithinAlloc

\* The order of the entries is kept by every way of changing a cache.
LEMMA NextOrder == Inv /\ [Next]_vars => OrderInv'
<1> SUFFICES ASSUME Inv, [Next]_vars PROVE OrderInv'
  OBVIOUS
<1>0. TypeOK /\ LockInv /\ OrderInv /\ CachesSorted
  BY DEF Inv, LockInv, OrderInv
<1> USE <1>0 DEF disk, world, memory
<1>1. CASE UNCHANGED <<index, cache, alloc>>
  BY <1>1 DEF OrderInv, IndexSorted, CachesSorted, NrWithinAlloc
<1>2. ASSUME NEW p \in Proc, NEW c \in Seq(Entry), NEW a \in Nat,
             cache' = [cache EXCEPT ![p] = c], alloc' = [alloc EXCEPT ![p] = a],
             Sorted(c), Len(c) <= a
      PROVE  CachesSorted' /\ NrWithinAlloc'
  <2>1. \A q \in Proc : /\ cache'[q] = IF q = p THEN c ELSE cache[q]
                        /\ alloc'[q] = IF q = p THEN a ELSE alloc[q]
    BY <1>2 DEF TypeOK
  <2>2. QED
    BY <1>2, <2>1 DEF OrderInv, CachesSorted, NrWithinAlloc
<1>3. ASSUME NEW p \in Proc, Exit(p) PROVE CachesSorted' /\ NrWithinAlloc'
  <2>1. <<>> \in Seq(Entry) /\ Sorted(<<>>) /\ Len(<<>>) <= 0
    BY DEF Sorted
  <2>2. QED
    BY <1>2, <1>3, <2>1 DEF Exit
<1>4. ASSUME NEW p \in Proc, Exit(p), index' = index PROVE OrderInv'
  BY <1>3, <1>4 DEF OrderInv, IndexSorted
<1>5. ASSUME NEW p \in Proc, ReadCache(p) PROVE OrderInv'
  <2>1. CASE index = NoFile
    BY <1>1, <1>5, <2>1 DEF ReadCache
  <2>2. CASE index # NoFile
    <3>1. index.body \in Seq(Entry) /\ index.entries \in Nat
      BY <2>2 DEF TypeOK, IndexFile
    <3>2. Sorted(index.body) /\ index.entries = Len(index.body)
      BY <2>2 DEF OrderInv, IndexSorted, LockInv, IndexComplete
    <3>3. AllocNr(index.entries) \in Nat /\ index.entries <= AllocNr(index.entries)
      BY <3>1, AllocSlackAssumption DEF AllocNr
    <3>4. CachesSorted' /\ NrWithinAlloc'
      BY <1>2, <1>5, <2>2, <3>1, <3>2, <3>3 DEF ReadCache
    <3>5. QED
      BY <1>5, <3>4 DEF ReadCache, OrderInv, IndexSorted
  <2>3. QED
    BY <2>1, <2>2
<1>6. ASSUME NEW p \in Proc, RemoveDeleted(p) PROVE OrderInv'
  <2>1. Arg(p) \in Path
    BY <1>6, ArgIsPath DEF RemoveDeleted
  <2>2. PICK pos \in NamePositions(cache[p], Arg(p)) :
          cache' = [cache EXCEPT ![p] = RemoveFileFromCache(cache[p], pos)]
    BY <1>6 DEF RemoveDeleted
  <2> DEFINE c == RemoveFileFromCache(cache[p], pos)
  <2>3. cache[p] \in Seq(Entry) /\ Sorted(cache[p]) /\ Len(cache[p]) <= alloc[p]
        /\ alloc[p] \in Nat
    BY DEF TypeOK, CachesSorted, OrderInv, NrWithinAlloc
  <2>4. /\ c \in Seq(Entry) /\ Sorted(c)
        /\ Len(c) = IF pos < 0 THEN Len(cache[p]) - 1 ELSE Len(cache[p])
    BY <2>1, <2>3, RemoveKeepsSorted
  <2>5. alloc' = [alloc EXCEPT ![p] = alloc[p]]
    BY <1>6 DEF RemoveDeleted, TypeOK
  <2> HIDE DEF c
  <2>6. Len(c) <= alloc[p]
    BY <2>3, <2>4
  <2>7. CachesSorted' /\ NrWithinAlloc'
    BY <1>2, <2>2, <2>3, <2>4, <2>5, <2>6 DEF c
  <2>8. QED
    BY <1>6, <2>7 DEF RemoveDeleted, OrderInv, IndexSorted
<1>7. ASSUME NEW p \in Proc, Stage(p), index' = index PROVE OrderInv'
  <2>1. PICK pos \in NamePositions(cache[p], ce[p].name) :
          /\ cache' = [cache EXCEPT ![p] = AddCacheEntry(cache[p], pos, ce[p])]
          /\ alloc' = [alloc EXCEPT ![p] = AllocAfterAdd(cache[p], pos, alloc[p])]
    BY <1>7 DEF Stage
  <2> DEFINE c == AddCacheEntry(cache[p], pos, ce[p])
             a == AllocAfterAdd(cache[p], pos, alloc[p])
  <2>2. /\ cache[p] \in Seq(Entry) /\ Sorted(cache[p]) /\ Len(cache[p]) <= alloc[p]
        /\ alloc[p] \in Nat /\ ce[p] \in Entry /\ pos \in Int
    BY DEF TypeOK, CachesSorted, OrderInv, NrWithinAlloc, NamePositions
  <2>3. /\ c \in Seq(Entry) /\ Sorted(c)
        /\ Len(c) = IF pos < 0 THEN Len(cache[p]) ELSE Len(cache[p]) + 1
    BY <2>2, AddKeepsSorted
  <2>4. a \in Nat /\ Len(cache[p]) <= a /\ (pos >= 0 => Len(cache[p]) + 1 <= a)
    BY <2>2, AllocRoom
  <2> HIDE DEF c, a
  <2>5. Len(c) <= a
    BY <2>2, <2>3, <2>4
  <2>6. cache' = [cache EXCEPT ![p] = c] /\ alloc' = [alloc EXCEPT ![p] = a]
    BY <2>1 DEF c, a
  <2>7. CachesSorted' /\ NrWithinAlloc'
    BY <1>2, <2>3, <2>4, <2>5, <2>6
  <2>8. QED
    BY <1>7, <2>7 DEF OrderInv, IndexSorted
<1>8. ASSUME NEW p \in Proc, Rename(p) PROVE OrderInv'
  <2>1. /\ Len(lock.body) = Len(cache[p])
        /\ \A i \in 1 .. Len(lock.body) : lock.body[i] = cache[p][i]
    BY <1>8 DEF Rename, LockInv, LockFilePrefix
  <2>2. Sorted(lock.body)
    BY <2>1 DEF Sorted, CachesSorted
  <2>3. IndexSorted'
    BY <1>8, <2>2 DEF Rename, IndexSorted
  <2>4. QED
    BY <1>3, <1>8, <2>3 DEF Rename, OrderInv
<1>9. ASSUME NEW p \in Proc, Step(p) PROVE OrderInv'
  <2>1. CASE ReadCacheFails(p) \/ LockTaken(p) \/ TruncatedWhileRead(p) \/ Unlink(p)
    BY <1>4, <2>1 DEF ReadCacheFails, LockTaken, TruncatedWhileRead, Unlink
  <2>2. CASE ObjectExists(p) \/ WriteObject(p)
    BY <1>7, <2>2 DEF ObjectExists, WriteObject
  <2>3. CASE OpenLock(p) \/ MmapRefused(p) \/ CreateObject(p) \/ WriteHeader(p) \/ WriteEntry(p)
    BY <1>1, <2>3 DEF OpenLock, MmapRefused, CreateObject, WriteHeader, WriteEntry
  <2>4. CASE IgnorePath(p) \/ OpenFile(p) \/ HashFile(p)
    BY <1>1, <2>4 DEF IgnorePath, OpenFile, HashFile
  <2>5. QED
    BY <1>5, <1>6, <1>8, <1>9, <2>1, <2>2, <2>3, <2>4 DEF Step
<1>10. ASSUME NEW p \in Proc, CallFails(p) PROVE OrderInv'
  BY <1>1, <1>4, <1>7, <1>10 DEF CallFails
<1>11. ASSUME NEW p \in Proc, Crash(p) PROVE OrderInv'
  BY <1>4, <1>11 DEF Crash
<1>12. ASSUME NEW p \in Proc, Start(p) PROVE OrderInv'
  BY <1>1, <1>12 DEF Start
<1>13. CASE \/ \E q \in Editable : Edit(q)
            \/ \E q \in Deletable : Delete(q)
            \/ ClearLock
            \/ UNCHANGED vars
  BY <1>1, <1>13 DEF Edit, Delete, ClearLock, vars
<1>14. QED
  BY <1>9, <1>10, <1>11, <1>12, <1>13 DEF Next

-----------------------------------------------------------------------------
\* The entries, their objects and the work tree.

\* Only the user changes the work tree, one file at a time.
LEMMA WorldChanges ==
  ASSUME [Next]_vars
  PROVE  \/ UNCHANGED <<work, clock>>
         \/ \E q \in Editable : Edit(q)
         \/ \E q \in Deletable : Delete(q)
<1> USE DEF disk, world, memory
<1>1. ASSUME NEW p \in Proc, Step(p) PROVE UNCHANGED <<work, clock>>
  BY <1>1 DEF Step, ReadCache, ReadCacheFails, OpenLock, LockTaken, IgnorePath,
     RemoveDeleted, OpenFile, HashFile, MmapRefused, TruncatedWhileRead, CreateObject,
     ObjectExists, WriteObject, WriteHeader, WriteEntry, Rename, Unlink
<1>2. ASSUME NEW p \in Proc, Start(p) \/ CallFails(p) \/ Crash(p)
      PROVE  UNCHANGED <<work, clock>>
  BY <1>2 DEF Start, CallFails, Crash
<1>3. CASE ClearLock \/ UNCHANGED vars
  BY <1>3 DEF ClearLock, vars
<1>4. QED
  BY <1>1, <1>2, <1>3 DEF Next

\* The entries of the index.
LEMMA IndexBody ==
  ASSUME TypeOK, index # NoFile
  PROVE  index.body \in Seq(Entry) /\ \A i \in 1 .. Len(index.body) : index.body[i] \in Entry
<1>1. index \in IndexFile
  BY DEF TypeOK
<1>2. index.body \in Seq(Entry)
  BY <1>1 DEF IndexFile
<1>3. QED
  BY <1>2

(***************************************************************************)
(* Once contents describe a file under a stamp they keep doing so: an edit *)
(* takes a stamp that was never used.                                      *)
(***************************************************************************)
LEMMA DescribesStable ==
  ASSUME TypeOK, [Next]_vars, NEW q \in Path, NEW s \in Nat, NEW b, Describes(q, s, b)
  PROVE  Describes(q, s, b)'
<1> USE DEF disk, world, memory
<1>1. CASE UNCHANGED <<work, clock>>
  BY <1>1 DEF Describes
<1>2. ASSUME NEW r \in Editable, Edit(r) PROVE Describes(q, s, b)'
  <2>1. PICK d : work' = [work EXCEPT ![r] = [data |-> d, stat |-> clock + 1]]
    BY <1>2 DEF Edit
  <2>2. clock' = clock + 1 /\ clock \in Nat
    BY <1>2 DEF Edit, TypeOK
  <2> DEFINE W == {NoFile} \cup WorkFile
  <2>w. work \in [Path -> W]
    BY DEF TypeOK
  <2> HIDE DEF W
  <2>3. CASE q = r
    <3>1. work'[q] = [data |-> d, stat |-> clock + 1]
      BY <2>1, <2>3, <2>w
    <3>2. QED
      BY <2>2, <3>1 DEF Describes
  <2>4. CASE q # r
    <3>1. work'[q] = work[q]
      BY <2>1, <2>4, <2>w
    <3>2. QED
      BY <2>2, <3>1 DEF Describes
  <2>5. QED
    BY <2>3, <2>4
<1>3. ASSUME NEW r \in Deletable, Delete(r) PROVE Describes(q, s, b)'
  <2>1. clock' = clock + 1 /\ clock \in Nat /\ (work'[q] = work[q] \/ work'[q] = NoFile)
    BY <1>3 DEF Delete, TypeOK
  <2>2. QED
    BY <2>1 DEF Describes
<1>4. QED
  BY <1>1, <1>2, <1>3, WorldChanges

\* No object file is ever removed.
LEMMA ObjectsStay ==
  ASSUME TypeOK, [Next]_vars, NEW b \in Blob, objects[b] # "absent"
  PROVE  objects'[b] # "absent"
<1> USE DEF disk, world, memory
<1>1. CASE UNCHANGED objects
  BY <1>1
<1>2. ASSUME NEW p \in Proc, CreateObject(p) \/ WriteObject(p) PROVE objects'[b] # "absent"
  BY <1>2, FilledHeld DEF CreateObject, WriteObject, TypeOK
<1>3. ASSUME NEW p \in Proc, Step(p) PROVE objects'[b] # "absent"
  <2>1. CASE CreateObject(p) \/ WriteObject(p)
    BY <1>2, <2>1
  <2>2. CASE ~(CreateObject(p) \/ WriteObject(p))
    BY <1>1, <1>3, <2>2 DEF Step, ReadCache, ReadCacheFails, OpenLock, LockTaken,
       IgnorePath, RemoveDeleted, OpenFile, HashFile, MmapRefused, TruncatedWhileRead,
       ObjectExists, WriteHeader, WriteEntry, Rename, Unlink
  <2>3. QED
    BY <2>1, <2>2
<1>4. ASSUME NEW p \in Proc, Start(p) \/ CallFails(p) \/ Crash(p) PROVE UNCHANGED objects
  BY <1>4 DEF Start, CallFails, Crash
<1>5. CASE \/ \E q \in Editable : Edit(q)
           \/ \E q \in Deletable : Delete(q)
           \/ ClearLock
           \/ UNCHANGED vars
  BY <1>1, <1>5 DEF Edit, Delete, ClearLock, vars
<1>6. QED
  BY <1>1, <1>3, <1>4, <1>5 DEF Next

\* A sound entry stays sound.
LEMMA SoundStable ==
  ASSUME TypeOK, [Next]_vars, NEW e \in Entry, Sound(e)
  PROVE  Sound(e)'
<1>1. e.name \in Path /\ e.stat \in Nat /\ e.sha1 \in Blob
  BY DEF Entry
<1>2. Describes(e.name, e.stat, e.sha1)'
  BY <1>1, DescribesStable DEF Sound
<1>3. objects'[e.sha1] # "absent"
  BY <1>1, ObjectsStay DEF Sound
<1>4. QED
  BY <1>2, <1>3 DEF Sound

\* The memory of a process that takes no part in a step stays sound.
LEMMA BystanderSound ==
  ASSUME TypeOK, [Next]_vars, NEW q \in Proc, MemorySound(q),
         cache'[q] = cache[q], ce'[q] = ce[q], fd'[q] = fd[q], pc'[q] = pc[q]
  PROVE  MemorySound(q)'
<1>1. cache[q] \in Seq(Entry) /\ ce[q] \in Entry
  BY DEF TypeOK
<1>2. ce[q].name \in Path /\ ce[q].stat \in Nat /\ ce[q].sha1 \in Blob
  BY <1>1 DEF Entry
<1>3. (\A i \in 1 .. Len(cache[q]) : Sound(cache[q][i]))'
  <2> SUFFICES ASSUME NEW i \in 1 .. Len(cache[q]) PROVE Sound(cache[q][i])'
    OBVIOUS
  <2>1. PICK e \in Entry : e = cache[q][i]
    BY <1>1
  <2>2. Sound(e)'
    BY <2>1, SoundStable DEF MemorySound
  <2>3. QED
    BY <2>1, <2>2 DEF Sound, Describes
<1>4. PICK n \in Path, s \in Nat, h \in Blob :
        n = ce[q].name /\ s = ce[q].stat /\ h = ce[q].sha1
  BY <1>2 DEF TypeOK
<1>5. (pc[q] = "mmap" => Describes(ce[q].name, ce[q].stat, Stream(fd[q])))'
  <2>1. SUFFICES ASSUME pc[q] = "mmap" PROVE Describes(ce[q].name, ce[q].stat, Stream(fd[q]))'
    OBVIOUS
  <2>2. PICK t : t = Stream(fd[q])
    OBVIOUS
  <2>3. Describes(n, s, t)
    BY <1>4, <2>1, <2>2 DEF MemorySound
  <2>4. Describes(n, s, t)'
    BY <2>3, DescribesStable
  <2>5. Stream(fd[q])' = t
    BY <2>2
  <2>6. QED
    BY <1>4, <2>4, <2>5 DEF Describes
<1>6. (pc[q] \in {"creat", "write"} => Describes(ce[q].name, ce[q].stat, ce[q].sha1))'
  <2>1. SUFFICES ASSUME pc[q] \in {"creat", "write"}
                 PROVE  Describes(ce[q].name, ce[q].stat, ce[q].sha1)'
    OBVIOUS
  <2>2. Describes(n, s, h)
    BY <1>4, <2>1 DEF MemorySound
  <2>3. Describes(n, s, h)'
    BY <2>2, DescribesStable
  <2>4. QED
    BY <1>4, <2>3 DEF Describes
<1>7. (pc[q] = "write" => objects[ce[q].sha1] # "absent")'
  BY <1>2, ObjectsStay DEF MemorySound
<1>8. QED
  BY <1>3, <1>5, <1>6, <1>7 DEF MemorySound

\* A cache whose entries were sound before the step is sound after it.
LEMMA CacheStaysSound ==
  ASSUME TypeOK, [Next]_vars, NEW p \in Proc,
         \A i \in 1 .. Len(cache'[p]) : \E e \in Entry : Sound(e) /\ cache'[p][i] = e
  PROVE  (\A i \in 1 .. Len(cache[p]) : Sound(cache[p][i]))'
<1> SUFFICES ASSUME NEW i \in 1 .. Len(cache'[p]) PROVE Sound(cache[p][i])'
  OBVIOUS
<1>1. PICK e \in Entry : Sound(e) /\ cache'[p][i] = e
  OBVIOUS
<1>2. Sound(e)'
  BY <1>1, SoundStable
<1>3. QED
  BY <1>1, <1>2 DEF Sound, Describes

\* A step of one process leaves the memory of the others alone.
LEMMA OthersUnchanged ==
  ASSUME TypeOK, NEW p \in Proc, Start(p) \/ Step(p) \/ CallFails(p) \/ Crash(p),
         NEW q \in Proc, q # p
  PROVE  cache'[q] = cache[q] /\ ce'[q] = ce[q] /\ fd'[q] = fd[q] /\ pc'[q] = pc[q]
<1> USE DEF disk, world, memory, TypeOK
<1> DEFINE Same == cache'[q] = cache[q] /\ ce'[q] = ce[q] /\ fd'[q] = fd[q] /\ pc'[q] = pc[q]
<1>1. CASE Exit(p)
  BY <1>1 DEF Exit, Goto
<1>2. CASE Stage(p)
  BY <1>2 DEF Stage, NextArg, Goto
<1>3. ASSUME NEW l, Goto(p, l), UNCHANGED <<cache, ce, fd>> PROVE Same
  BY <1>3 DEF Goto
<1>4. CASE Start(p) \/ OpenLock(p) \/ MmapRefused(p) \/ CreateObject(p) \/ WriteHeader(p)
  BY <1>3, <1>4 DEF Start, OpenLock, MmapRefused, CreateObject, WriteHeader
<1>5. CASE ReadCache(p)
  BY <1>5 DEF ReadCache, Goto
<1>6. CASE IgnorePath(p)
  BY <1>3, <1>6 DEF IgnorePath, NextArg
<1>7. CASE RemoveDeleted(p)
  <2>1. pc'[q] = pc[q]
    BY <1>7 DEF RemoveDeleted, NextArg, Goto
  <2>2. QED
    BY <1>7, <2>1 DEF RemoveDeleted
<1>8. CASE OpenFile(p) \/ HashFile(p)
  BY <1>8 DEF OpenFile, HashFile, Goto
<1>9. CASE WriteEntry(p)
  BY <1>9 DEF WriteEntry
<1>10. CASE \/ ReadCacheFails(p) \/ LockTaken(p) \/ TruncatedWhileRead(p)
            \/ Rename(p) \/ Unlink(p) \/ Crash(p)
  BY <1>1, <1>10 DEF ReadCacheFails, LockTaken, TruncatedWhileRead, Rename, Unlink, Crash
<1>11. CASE ObjectExists(p) \/ WriteObject(p)
  BY <1>2, <1>11 DEF ObjectExists, WriteObject
<1>12. CASE CallFails(p)
  BY <1>1, <1>2, <1>3, <1>12 DEF CallFails
<1>13. QED
  BY <1>4, <1>5, <1>6, <1>7, <1>8, <1>9, <1>10, <1>11, <1>12 DEF Step

\* Only a rename replaces the index.
LEMMA IndexChanges ==
  ASSUME [Next]_vars
  PROVE  index' = index \/ \E p \in Proc : Rename(p)
<1> USE DEF disk, world, memory
<1>1. ASSUME NEW p \in Proc, Step(p) PROVE index' = index \/ Rename(p)
  BY <1>1 DEF Step, ReadCache, ReadCacheFails, OpenLock, LockTaken, IgnorePath,
     RemoveDeleted, OpenFile, HashFile, MmapRefused, TruncatedWhileRead, CreateObject,
     ObjectExists, WriteObject, WriteHeader, WriteEntry, Unlink
<1>2. ASSUME NEW p \in Proc, Start(p) \/ CallFails(p) \/ Crash(p) PROVE index' = index
  BY <1>2 DEF Start, CallFails, Crash
<1>3. CASE \/ \E q \in Editable : Edit(q)
           \/ \E q \in Deletable : Delete(q)
           \/ ClearLock
           \/ UNCHANGED vars
  BY <1>3 DEF Edit, Delete, ClearLock, vars
<1>4. QED
  BY <1>1, <1>2, <1>3 DEF Next

\* Each step installs, stages or constructs only sound entries.
LEMMA NextSound == Inv /\ [Next]_vars => EntriesSound'
<1> SUFFICES ASSUME Inv, [Next]_vars PROVE EntriesSound'
  OBVIOUS
<1>0. TypeOK /\ TypeOK' /\ LockInv /\ CachesSorted /\ EntriesSound
  BY NextType DEF Inv, LockInv
<1> USE <1>0 DEF disk, world, memory
<1>1. (\A q \in Path : work[q] # NoFile => work[q].stat <= clock)'
  <2>1. CASE UNCHANGED <<work, clock>>
    BY <2>1 DEF EntriesSound
  <2>2. ASSUME NEW r \in Editable, Edit(r)
        PROVE  (\A q \in Path : work[q] # NoFile => work[q].stat <= clock)'
    <3>1. PICK d : work' = [work EXCEPT ![r] = [data |-> d, stat |-> clock + 1]]
      BY <2>2 DEF Edit
    <3>2. clock' = clock + 1 /\ clock \in Nat
      BY <2>2 DEF Edit, TypeOK
    <3>3. \A q \in Path : work'[q] = work[q] \/ work'[q].stat = clock + 1
      BY <3>1 DEF TypeOK
    <3>4. \A q \in Path : work[q] # NoFile => work[q].stat \in Nat
      BY DEF TypeOK, WorkFile
    <3>5. QED
      BY <3>2, <3>3, <3>4 DEF EntriesSound
  <2>3. ASSUME NEW r \in Deletable, Delete(r)
        PROVE  (\A q \in Path : work[q] # NoFile => work[q].stat <= clock)'
    <3>1. clock' = clock + 1 /\ clock \in Nat
      BY <2>3 DEF Delete, TypeOK
    <3>2. \A q \in Path : work'[q] = work[q] \/ work'[q] = NoFile
      BY <2>3 DEF Delete, TypeOK
    <3>3. \A q \in Path : work[q] # NoFile => work[q].stat \in Nat
      BY DEF TypeOK, WorkFile
    <3>4. QED
      BY <3>1, <3>2, <3>3 DEF EntriesSound
  <2>4. QED
    BY <2>1, <2>2, <2>3, WorldChanges
<1>2. (index # NoFile => \A i \in 1 .. Len(index.body) : Sound(index.body[i]))'
  <2> SUFFICES ASSUME index' # NoFile, NEW i \in 1 .. Len(index'.body)
               PROVE  Sound(index.body[i])'
    OBVIOUS
  <2>1. PICK e \in Entry : Sound(e) /\ index'.body[i] = e
    <3>1. CASE index' = index
      <4>1. index.body[i] \in Entry
        BY <3>1, IndexBody
      <4>2. index.body[i] \in Entry /\ Sound(index.body[i])
        BY <3>1, <4>1 DEF EntriesSound
      <4>3. QED
        BY <3>1, <4>2
    <3>2. ASSUME NEW p \in Proc, Rename(p)
          PROVE  \E e \in Entry : Sound(e) /\ index'.body[i] = e
      <4>1. index'.body = lock.body /\ cache[p] \in Seq(Entry)
        BY <3>2 DEF Rename, TypeOK
      <4>2. /\ Len(lock.body) = Len(cache[p])
            /\ \A k \in 1 .. Len(lock.body) : lock.body[k] = cache[p][k]
        BY <3>2 DEF Rename, LockInv, LockFilePrefix
      <4>3. i \in 1 .. Len(cache[p]) /\ index'.body[i] = cache[p][i]
        BY <4>1, <4>2
      <4>4. cache[p][i] \in Entry
        BY <4>1, <4>3
      <4>5. Sound(cache[p][i])
        BY <4>3, Zenon DEF EntriesSound, MemorySound
      <4>6. QED
        BY <4>3, <4>4, <4>5
    <3>3. QED
      BY <3>1, <3>2, IndexChanges
  <2>2. Sound(e)'
    BY <2>1, SoundStable
  <2>3. QED
    BY <2>1, <2>2 DEF Sound, Describes
<1>3. \A p \in Proc : /\ cache[p] \in Seq(Entry) /\ ce[p] \in Entry /\ MemorySound(p)
                      /\ \A i \in 1 .. Len(cache[p]) : cache[p][i] \in Entry /\ Sound(cache[p][i])
  <2>1. \A p \in Proc : cache[p] \in Seq(Entry) /\ ce[p] \in Entry /\ MemorySound(p)
    BY DEF TypeOK, EntriesSound
  <2>2. ASSUME NEW p \in Proc, NEW i \in 1 .. Len(cache[p])
        PROVE  cache[p][i] \in Entry /\ Sound(cache[p][i])
    <3>1. cache[p] \in Seq(Entry)
      BY <2>1
    <3>2. cache[p][i] \in Entry
      BY <3>1
    <3>3. Sound(cache[p][i])
      BY <2>1, Zenon DEF MemorySound
    <3>4. QED
      BY <3>2, <3>3
  <2>3. QED
    BY <2>1, <2>2, Zenon
<1>4. ASSUME NEW p \in Proc, cache'[p] = cache[p]
      PROVE  (\A i \in 1 .. Len(cache[p]) : Sound(cache[p][i]))'
  BY <1>3, <1>4, CacheStaysSound
<1>5. ASSUME NEW p \in Proc, (\A i \in 1 .. Len(cache[p]) : Sound(cache[p][i]))',
             pc'[p] \notin {"mmap", "creat", "write"}
      PROVE  MemorySound(p)'
  BY <1>5 DEF MemorySound
<1>6. ASSUME NEW p \in Proc, Exit(p) PROVE MemorySound(p)'
  <2>1. cache'[p] = <<>> /\ pc'[p] = "idle"
    BY <1>6 DEF Exit, Goto, TypeOK
  <2>2. QED
    BY <2>1 DEF MemorySound
<1>7. ASSUME NEW p \in Proc, NEW l \in {"read", "lock", "args", "entries", "unlink"},
             Goto(p, l), cache' = cache
      PROVE  MemorySound(p)'
  <2>1. pc'[p] = l
    BY <1>7 DEF Goto, TypeOK
  <2>2. QED
    BY <1>4, <1>5, <1>7, <2>1
<1>8. ASSUME NEW p \in Proc, ReadCache(p) PROVE MemorySound(p)'
  <2>1. CASE index = NoFile
    BY <1>7, <1>8, <2>1 DEF ReadCache
  <2>2. CASE index # NoFile
    <3>1. index.body \in Seq(Entry) /\ cache'[p] = index.body /\ pc'[p] = "lock"
      <4>1. cache \in [Proc -> Seq(Entry)] /\ pc \in [Proc -> Pc]
        BY DEF TypeOK
      <4>2. index.body \in Seq(Entry)
        BY <2>2, IndexBody
      <4>3. cache' = [cache EXCEPT ![p] = index.body] /\ pc' = [pc EXCEPT ![p] = "lock"]
        BY <1>8, <2>2 DEF ReadCache, Goto
      <4>4. QED
        BY <4>1, <4>2, <4>3
    <3>2. \A i \in 1 .. Len(index.body) : index.body[i] \in Entry /\ Sound(index.body[i])
      <4>1. \A i \in 1 .. Len(index.body) : Sound(index.body[i])
        BY <2>2, Zenon DEF EntriesSound
      <4>2. \A i \in 1 .. Len(index.body) : index.body[i] \in Entry
        BY <3>1
      <4>3. QED
        BY <4>1, <4>2, Zenon
    <3>3. (\A i \in 1 .. Len(cache[p]) : Sound(cache[p][i]))'
      BY <3>1, <3>2, CacheStaysSound
    <3>4. QED
      BY <1>5, <3>1, <3>3
  <2>3. QED
    BY <2>1, <2>2
<1>9. ASSUME NEW p \in Proc, RemoveDeleted(p) PROVE MemorySound(p)'
  <2>1. Arg(p) \in Path /\ Sorted(cache[p])
    <3>1. Arg(p) \in Path
      BY <1>9, ArgIsPath DEF RemoveDeleted
    <3>2. QED
      BY <3>1, Zenon DEF CachesSorted
  <2>2. PICK pos \in NamePositions(cache[p], Arg(p)) :
          cache'[p] = RemoveFileFromCache(cache[p], pos)
    BY <1>9 DEF RemoveDeleted, TypeOK
  <2>3. \A i \in 1 .. Len(cache'[p]) : \E j \in 1 .. Len(cache[p]) : cache'[p][i] = cache[p][j]
    <3>1. cache[p] \in Seq(Entry)
      BY DEF TypeOK
    <3>2. \A i \in 1 .. Len(RemoveFileFromCache(cache[p], pos)) :
            \E j \in 1 .. Len(cache[p]) : RemoveFileFromCache(cache[p], pos)[i] = cache[p][j]
      BY <2>1, <3>1, RemoveKeepsSorted, Zenon
    <3>3. QED
      BY <2>2, <3>2, Zenon
  <2>4. (\A i \in 1 .. Len(cache[p]) : Sound(cache[p][i]))'
    BY <1>3, <2>3, CacheStaysSound
  <2>5. pc'[p] \in {"args", "unlink"}
    BY <1>9 DEF RemoveDeleted, NextArg, Goto, TypeOK
  <2>6. QED
    BY <1>5, <2>4, <2>5
<1>10. ASSUME NEW p \in Proc, OpenFile(p) PROVE MemorySound(p)'
  <2>1. Arg(p) \in Path /\ work[Arg(p)] # NoFile
    BY <1>10, ArgIsPath DEF OpenFile
  <2>2. /\ cache'[p] = cache[p] /\ pc'[p] = "mmap" /\ work' = work /\ clock' = clock
        /\ fd'[p] = work[Arg(p)].data
        /\ ce'[p] = [ce[p] EXCEPT !.name = Arg(p), !.stat = work[Arg(p)].stat]
    BY <1>10 DEF OpenFile, Goto, TypeOK
  <2>3. ce'[p].name = Arg(p) /\ ce'[p].stat = work[Arg(p)].stat
    BY <1>3, <2>2 DEF Entry
  <2>4. Describes(ce[p].name, ce[p].stat, Stream(fd[p]))'
    BY <2>1, <2>2, <2>3 DEF Describes, EntriesSound
  <2>5. (\A i \in 1 .. Len(cache[p]) : Sound(cache[p][i]))'
    BY <1>4, <2>2
  <2>6. QED
    BY <2>2, <2>4, <2>5 DEF MemorySound
<1>11. ASSUME NEW p \in Proc, HashFile(p) PROVE MemorySound(p)'
  <2>1. PICK b \in Seen(p) : ce'[p] = [ce[p] EXCEPT !.sha1 = Stream(b)]
    BY <1>11 DEF HashFile, TypeOK
  <2>2. /\ cache'[p] = cache[p] /\ pc'[p] = "creat" /\ work' = work /\ clock' = clock
        /\ Describes(ce[p].name, ce[p].stat, Stream(fd[p]))
    BY <1>3, <1>11 DEF HashFile, Goto, TypeOK, MemorySound
  <2>3. ce'[p].name = ce[p].name /\ ce'[p].stat = ce[p].stat /\ ce'[p].sha1 = Stream(b)
    BY <1>3, <2>1 DEF Entry
  <2>4. Describes(ce[p].name, ce[p].stat, Stream(b))
    BY <2>1, <2>2 DEF Describes, Seen, Changed
  <2>5. Describes(ce[p].name, ce[p].stat, ce[p].sha1)'
    BY <2>2, <2>3, <2>4 DEF Describes
  <2>6. (\A i \in 1 .. Len(cache[p]) : Sound(cache[p][i]))'
    BY <1>4, <2>2
  <2>7. QED
    BY <2>2, <2>5, <2>6 DEF MemorySound
<1>12. ASSUME NEW p \in Proc, CreateObject(p) PROVE MemorySound(p)'
  <2>1. /\ cache' = cache /\ ce' = ce /\ pc'[p] = "write" /\ work' = work /\ clock' = clock
        /\ Describes(ce[p].name, ce[p].stat, ce[p].sha1)
    BY <1>3, <1>12 DEF CreateObject, Goto, TypeOK, MemorySound
  <2>2. objects'[ce[p].sha1] = "partial"
    BY <1>3, <1>12 DEF CreateObject, TypeOK, Entry
  <2>3. Describes(ce[p].name, ce[p].stat, ce[p].sha1)'
    BY <2>1 DEF Describes
  <2>4. (\A i \in 1 .. Len(cache[p]) : Sound(cache[p][i]))'
    BY <1>4, <2>1
  <2>5. QED
    BY <2>1, <2>2, <2>3, <2>4 DEF MemorySound
<1>13. ASSUME NEW p \in Proc, pc[p] \in {"creat", "write"}, objects[ce[p].sha1] # "absent",
              Stage(p)
       PROVE  MemorySound(p)'
  <2>1. PICK pos \in NamePositions(cache[p], ce[p].name) :
          cache'[p] = AddCacheEntry(cache[p], pos, ce[p])
    BY <1>13 DEF Stage, TypeOK
  <2>2. Sorted(cache[p]) /\ pc'[p] = "args"
    BY <1>13 DEF CachesSorted, Stage, NextArg, Goto, TypeOK
  <2>3. \A i \in 1 .. Len(cache'[p]) :
          cache'[p][i] = ce[p] \/ \E j \in 1 .. Len(cache[p]) : cache'[p][i] = cache[p][j]
    <3>1. cache[p] \in Seq(Entry) /\ ce[p] \in Entry
      BY <1>3
    <3>2. \A i \in 1 .. Len(AddCacheEntry(cache[p], pos, ce[p])) :
            \/ AddCacheEntry(cache[p], pos, ce[p])[i] = ce[p]
            \/ \E j \in 1 .. Len(cache[p]) :
                 AddCacheEntry(cache[p], pos, ce[p])[i] = cache[p][j]
      BY <2>2, <3>1, AddKeepsSorted
    <3>3. QED
      BY <2>1, <3>2
  <2>4. Sound(ce[p])
    BY <1>3, <1>13 DEF MemorySound, Sound
  <2>5. (\A i \in 1 .. Len(cache[p]) : Sound(cache[p][i]))'
    BY <1>3, <2>3, <2>4, CacheStaysSound
  <2>6. QED
    BY <1>5, <2>2, <2>5
<1>14. ASSUME NEW p \in Proc, ObjectExists(p) \/ WriteObject(p) PROVE MemorySound(p)'
  <2>1. pc[p] = "write" => objects[ce[p].sha1] # "absent"
    BY <1>3 DEF MemorySound
  <2>2. QED
    BY <1>13, <1>14, <2>1 DEF ObjectExists, WriteObject
<1>15. ASSUME NEW p \in Proc, WriteEntry(p) PROVE MemorySound(p)'
  BY <1>3, <1>15, BystanderSound DEF WriteEntry
<1>16. ASSUME NEW p \in Proc, CallFails(p) PROVE MemorySound(p)'
  <2>1. pc[p] = "write" => objects[ce[p].sha1] # "absent"
    BY <1>3 DEF MemorySound
  <2>2. QED
    BY <1>6, <1>7, <1>13, <1>16, <2>1 DEF CallFails
<1>17. ASSUME NEW p \in Proc, Start(p) \/ Step(p) \/ CallFails(p) \/ Crash(p)
       PROVE  MemorySound(p)'
  <2>1. CASE \/ ReadCacheFails(p) \/ LockTaken(p) \/ TruncatedWhileRead(p)
             \/ Rename(p) \/ Unlink(p) \/ Crash(p)
    BY <1>6, <2>1 DEF ReadCacheFails, LockTaken, TruncatedWhileRead, Rename, Unlink, Crash
  <2>2. CASE Start(p) \/ OpenLock(p) \/ IgnorePath(p) \/ MmapRefused(p) \/ WriteHeader(p)
    BY <1>7, <2>2 DEF Start, OpenLock, IgnorePath, NextArg, MmapRefused, WriteHeader
  <2>3. QED
    BY <1>8, <1>9, <1>10, <1>11, <1>12, <1>14, <1>15, <1>16, <1>17, <2>1, <2>2 DEF Step
<1>18. \A p \in Proc : MemorySound(p)'
  <2>1. ASSUME NEW p \in Proc, Start(p) \/ Step(p) \/ CallFails(p) \/ Crash(p),
               NEW q \in Proc
        PROVE  MemorySound(q)'
    <3>1. CASE q = p
      BY <1>17, <2>1, <3>1
    <3>2. CASE q # p
      BY <1>3, <2>1, <3>2, OthersUnchanged, BystanderSound
    <3>3. QED
      BY <3>1, <3>2
  <2>2. ASSUME NEW q \in Proc, UNCHANGED <<cache, ce, fd, pc>> PROVE MemorySound(q)'
    BY <1>3, <2>2, BystanderSound
  <2>3. CASE \/ \E q \in Editable : Edit(q)
             \/ \E q \in Deletable : Delete(q)
             \/ ClearLock
             \/ UNCHANGED vars
    BY <2>2, <2>3 DEF Edit, Delete, ClearLock, vars
  <2>4. QED
    BY <2>1, <2>3 DEF Next
<1>19. QED
  BY <1>1, <1>2, <1>18 DEF EntriesSound

-----------------------------------------------------------------------------
\* The theorems.

\* The invariant holds at the start.
LEMMA InitInv == Init => Inv
<1> SUFFICES ASSUME Init PROVE Inv
  OBVIOUS
<1>1. TypeOK
  BY InitType
<1>2. \A p \in Proc : cache[p] = <<>> /\ alloc[p] = 0 /\ pc[p] = "idle"
  BY DEF Init
<1>3. LockOwned /\ LockFilePrefix /\ IndexComplete /\ IndexSorted
  BY <1>2 DEF Init, LockOwned, LockFilePrefix, IndexComplete, IndexSorted, Holding
<1>4. CachesSorted /\ NrWithinAlloc
  BY <1>2 DEF CachesSorted, NrWithinAlloc, Sorted
<1>5. EntriesSound
  <2>1. \A q \in Path : work[q] # NoFile => work[q].stat <= clock
    BY WorkAssumption DEF Init
  <2>2. index = NoFile
    BY DEF Init
  <2>3. ASSUME NEW p \in Proc PROVE MemorySound(p)
    BY <1>2 DEF MemorySound
  <2>4. QED
    BY <2>1, <2>2, <2>3 DEF EntriesSound
<1>6. QED
  BY <1>1, <1>3, <1>4, <1>5 DEF Inv

\* The invariant is inductive.
LEMMA NextInv == Inv /\ [Next]_vars => Inv'
BY NextType, NextLock, NextOrder, NextSound DEF Inv, LockInv, OrderInv

\* Inv holds in every reachable state of git --add.
THEOREM Invariance == Spec => []Inv
BY InitInv, NextInv, PTL DEF Spec

(***************************************************************************)
(* Every variable keeps its type, for any number of processes and paths.   *)
(***************************************************************************)
THEOREM TypeCorrect == Spec => []TypeOK
BY Invariance, PTL DEF Inv

(***************************************************************************)
(* index.lock belongs to the process in the locked section of              *)
(* update_cache, whatever fails and whoever is killed.                     *)
(***************************************************************************)
THEOREM LockIsExclusive == Spec => []LockOwned
BY Invariance, PTL DEF Inv

(***************************************************************************)
(* The index is never a partly written one: its header counts its entries. *)
(***************************************************************************)
THEOREM IndexIsComplete == Spec => []IndexComplete
BY Invariance, PTL DEF Inv

(***************************************************************************)
(* The index is always in name order, remove_file_from_cache included.     *)
(***************************************************************************)
THEOREM IndexIsSorted == Spec => []IndexSorted
BY Invariance, PTL DEF Inv

(***************************************************************************)
(* The array active_cache has room for what add_cache_entry stores.        *)
(***************************************************************************)
THEOREM ArrayBounds == Spec => []NrWithinAlloc
BY Invariance, PTL DEF Inv

(***************************************************************************)
(* The index only names objects that have a file in the object database.   *)
(***************************************************************************)
THEOREM ObjectsExist == Spec => []IndexObjectsExist
<1>1. Inv => IndexObjectsExist
  BY DEF Inv, EntriesSound, Sound, IndexObjectsExist
<1>2. QED
  BY <1>1, Invariance, PTL

(***************************************************************************)
(* An unchanged stat means unchanged contents, for every interleaving of   *)
(* the user's edits with the fstat and the read of add_file_to_cache.      *)
(***************************************************************************)
THEOREM StatIsReliable == Spec => []StatMatchMeansSame
<1>1. Inv => StatMatchMeansSame
  BY DEF Inv, EntriesSound, Sound, Describes, StatMatchMeansSame
<1>2. QED
  BY <1>1, Invariance, PTL
=============================================================================
