---------------------------- MODULE StoreProofs -----------------------------
(***************************************************************************)
(* git --add seen from outside, for any number of processes, paths, edits, *)
(* invocations and faults.  It implements IndexStore; beyond the invariant *)
(* Inv this needs ObjectsSettled: without faults a partial object has a    *)
(* writer, and so holds the lock, when anybody else could stage an entry   *)
(* that names it.  And an install changes no more than it should, as long  *)
(* as the short memmove does no harm.                                      *)
(***************************************************************************)
EXTENDS UpdateCacheProofs

-----------------------------------------------------------------------------
\* git --add implements IndexStore

\* Object files change only when they are created and when they are written.
LEMMA ObjectChanges ==
  ASSUME [Next]_vars
  PROVE  objects' = objects \/ \E p \in Proc : CreateObject(p) \/ WriteObject(p)
<1> USE DEF disk, world, memory
<1>1. ASSUME NEW p \in Proc, Step(p)
      PROVE  objects' = objects \/ CreateObject(p) \/ WriteObject(p)
  BY <1>1 DEF Step, ReadCache, ReadCacheFails, OpenLock, LockTaken, IgnorePath,
     RemoveDeleted, OpenFile, HashFile, MmapRefused, TruncatedWhileRead,
     ObjectExists, WriteHeader, WriteEntry, Rename, Unlink
<1>2. ASSUME NEW p \in Proc, Start(p) \/ CallFails(p) \/ Crash(p) PROVE objects' = objects
  BY <1>2 DEF Start, CallFails, Crash
<1>3. CASE \/ \E q \in Editable : Edit(q)
           \/ \E q \in Deletable : Delete(q)
           \/ ClearLock
           \/ UNCHANGED vars
  BY <1>3 DEF Edit, Delete, ClearLock, vars
<1>4. QED
  BY <1>1, <1>2, <1>3 DEF Next

\* Faults are only ever counted up.
LEMMA FaultsGrow ==
  ASSUME TypeOK, [Next]_vars
  PROVE  /\ faults' = faults \/ \E p \in Proc : CallFails(p) \/ Crash(p)
         /\ \A p \in Proc : CallFails(p) \/ Crash(p) => faults' = faults + 1
         /\ faults' > 0 \/ faults' = faults
<1> USE DEF disk, world, memory
<1>1. ASSUME NEW p \in Proc, Step(p) PROVE faults' = faults
  BY <1>1 DEF Step, ReadCache, ReadCacheFails, OpenLock, LockTaken, IgnorePath,
     RemoveDeleted, OpenFile, HashFile, MmapRefused, TruncatedWhileRead, CreateObject,
     ObjectExists, WriteObject, WriteHeader, WriteEntry, Rename, Unlink
<1>2. ASSUME NEW p \in Proc, Start(p) PROVE faults' = faults
  BY <1>2 DEF Start
<1>3. ASSUME NEW p \in Proc, CallFails(p) \/ Crash(p) PROVE faults' = faults + 1
  BY <1>3 DEF CallFails, Crash, Fault
<1>4. ASSUME \/ \E q \in Editable : Edit(q)
             \/ \E q \in Deletable : Delete(q)
             \/ ClearLock
             \/ UNCHANGED vars
      PROVE  faults' = faults
  BY <1>4 DEF Edit, Delete, ClearLock, vars
<1>5. faults' = faults \/ \E p \in Proc : CallFails(p) \/ Crash(p)
  BY <1>1, <1>2, <1>4 DEF Next
<1>6. faults \in Nat
  BY DEF TypeOK
<1>7. \A p \in Proc : CallFails(p) \/ Crash(p) => faults' = faults + 1
  BY <1>3
<1>8. faults' > 0 \/ faults' = faults
  BY <1>5, <1>6, <1>7
<1>9. QED
  BY <1>5, <1>7, <1>8

\* rename installs the cache of the process, which it has written to the end.
LEMMA RenameInstallsCache ==
  ASSUME Inv, NEW p \in Proc, Rename(p)
  PROVE  index' # NoFile /\ index'.body = cache[p]
<1>0. TypeOK
  BY DEF Inv
<1>1. lock # NoFile /\ lock \in LockFile
  BY <1>0 DEF Rename, TypeOK, Inv, LockOwned, Holding
<1>2. index' = [entries |-> lock.entries, body |-> lock.body]
  BY DEF Rename
<1>3. lock.entries = Len(cache[p]) /\ lock.entries \in Nat
  <2>1. pc[p] = "entries" /\ LockFilePrefix
    BY DEF Rename, Inv
  <2>2. lock.entries = Len(cache[p])
    BY <2>1 DEF LockFilePrefix
  <2>3. cache[p] \in Seq(Entry)
    BY <1>0 DEF TypeOK
  <2>4. QED
    BY <2>2, <2>3
<1>4. index' \in IndexFile
  BY <1>1, <1>2, <1>3 DEF LockFile, IndexFile
<1>5. lock.body \in Seq(Entry) /\ cache[p] \in Seq(Entry)
  BY <1>0, <1>1 DEF LockFile, TypeOK
<1>6. /\ Len(lock.body) = Len(cache[p])
      /\ \A i \in 1 .. Len(lock.body) : lock.body[i] = cache[p][i]
  BY DEF Rename, Inv, LockFilePrefix
<1>7. lock.body = cache[p]
  BY <1>5, <1>6
<1>8. QED
  BY <1>2, <1>4, <1>7, WorkAssumption

\* A whole object stays whole.
LEMMA WholeStable ==
  ASSUME Inv, ObjectsSettled, [Next]_vars, NEW e \in Entry, Whole(e)
  PROVE  Whole(e)'
<1>1. TypeOK /\ e.sha1 \in Blob /\ faults \in Nat
  BY DEF Inv, TypeOK, Entry
<1>2. CASE faults > 0
  BY <1>1, <1>2, FaultsGrow DEF Whole
<1>3. CASE objects[e.sha1] = Filled(e.sha1)
  <2>1. objects'[e.sha1] = Filled(e.sha1)
    BY <1>1, <1>3, ObjectChanges, FilledHeld DEF CreateObject, WriteObject, TypeOK
  <2>2. QED
    BY <2>1 DEF Whole
<1>4. QED
  BY <1>2, <1>3 DEF Whole

\* The steps that may put an entry for the process's new object in its cache.
Stages(p) ==
  ObjectExists(p) \/ WriteObject(p) \/ (pc[p] = "write" /\ CallFails(p))

(***************************************************************************)
(* Where the entries of a cache come from: the cache before the step, the  *)
(* index that read_cache read, or the entry that was just completed.       *)
(***************************************************************************)
LEMMA CacheOrigin ==
  ASSUME Inv, NEW p \in Proc, Start(p) \/ Step(p) \/ CallFails(p) \/ Crash(p),
         NEW i \in 1 .. Len(cache'[p])
  PROVE  \/ \E j \in 1 .. Len(cache[p]) : cache'[p][i] = cache[p][j]
         \/ index # NoFile /\ \E j \in 1 .. Len(index.body) : cache'[p][i] = index.body[j]
         \/ Stages(p) /\ cache'[p][i] = ce[p]
<1> USE DEF disk, world, memory
<1> DEFINE Old == \E j \in 1 .. Len(cache[p]) : cache'[p][i] = cache[p][j]
           Read == index # NoFile /\ \E j \in 1 .. Len(index.body) : cache'[p][i] = index.body[j]
<1>0. TypeOK /\ CachesSorted /\ cache[p] \in Seq(Entry) /\ ce[p] \in Entry /\ Sorted(cache[p])
  BY DEF Inv, TypeOK, CachesSorted
<1>1. CASE cache' = cache
  BY <1>1
<1>2. CASE Exit(p)
  BY <1>0, <1>2 DEF Exit, TypeOK
<1>3. CASE ReadCache(p)
  BY <1>0, <1>3 DEF ReadCache, TypeOK
<1>4. CASE RemoveDeleted(p)
  <2>1. Arg(p) \in Path
    BY <1>0, <1>4, ArgIsPath DEF RemoveDeleted
  <2>2. PICK pos \in NamePositions(cache[p], Arg(p)) :
          cache'[p] = RemoveFileFromCache(cache[p], pos)
    BY <1>0, <1>4 DEF RemoveDeleted, TypeOK
  <2>3. \A k \in 1 .. Len(RemoveFileFromCache(cache[p], pos)) :
          \E j \in 1 .. Len(cache[p]) : RemoveFileFromCache(cache[p], pos)[k] = cache[p][j]
    BY <1>0, <2>1, RemoveKeepsSorted, Zenon
  <2>4. QED
    BY <2>2, <2>3, Zenon
<1>5. CASE Stage(p) /\ Stages(p)
  <2>1. PICK pos \in NamePositions(cache[p], ce[p].name) :
          cache'[p] = AddCacheEntry(cache[p], pos, ce[p])
    BY <1>0, <1>5 DEF Stage, TypeOK
  <2>2. \A k \in 1 .. Len(AddCacheEntry(cache[p], pos, ce[p])) :
          \/ AddCacheEntry(cache[p], pos, ce[p])[k] = ce[p]
          \/ \E j \in 1 .. Len(cache[p]) :
               AddCacheEntry(cache[p], pos, ce[p])[k] = cache[p][j]
    BY <1>0, AddKeepsSorted
  <2>3. QED
    BY <1>5, <2>1, <2>2, Zenon
<1>6. CASE \/ ReadCacheFails(p) \/ LockTaken(p) \/ TruncatedWhileRead(p)
           \/ Rename(p) \/ Unlink(p) \/ Crash(p)
  BY <1>2, <1>6 DEF ReadCacheFails, LockTaken, TruncatedWhileRead, Rename, Unlink, Crash
<1>7. CASE \/ Start(p) \/ OpenLock(p) \/ MmapRefused(p) \/ CreateObject(p)
           \/ WriteHeader(p) \/ WriteEntry(p)
  BY <1>1, <1>7 DEF Start, OpenLock, MmapRefused, CreateObject, WriteHeader, WriteEntry
<1>8. CASE IgnorePath(p) \/ OpenFile(p) \/ HashFile(p)
  BY <1>1, <1>8 DEF IgnorePath, OpenFile, HashFile
<1>9. CASE ObjectExists(p) \/ WriteObject(p)
  BY <1>5, <1>9 DEF ObjectExists, WriteObject, Stages
<1>10. CASE CallFails(p)
  BY <1>1, <1>2, <1>5, <1>10 DEF CallFails, Stages
<1>11. QED
  BY <1>3, <1>4, <1>6, <1>7, <1>8, <1>9, <1>10 DEF Step

-----------------------------------------------------------------------------
\* ObjectsSettled.

\* Every action of the system is one process's, or leaves processes alone.
LEMMA Actors ==
  ASSUME [Next]_vars
  PROVE  \/ \E p \in Proc : Start(p) \/ Step(p) \/ CallFails(p) \/ Crash(p)
         \/ UNCHANGED <<index, objects, runs, faults, pc, memory>>
BY DEF Next, Edit, Delete, ClearLock, vars, disk, world

\* Only CreateObject takes a process to "write".
LEMMA ToWrite ==
  ASSUME TypeOK, NEW p \in Proc, Start(p) \/ Step(p) \/ CallFails(p) \/ Crash(p),
         pc'[p] = "write"
  PROVE  CreateObject(p)
<1> USE DEF disk, world, memory
<1>1. ASSUME NEW l, Goto(p, l), l # "write" PROVE FALSE
  BY <1>1 DEF Goto, TypeOK
<1>2. CASE Exit(p) \/ Stage(p)
  BY <1>1, <1>2 DEF Exit, Stage, NextArg
<1>3. CASE Start(p) \/ ReadCache(p) \/ OpenLock(p) \/ IgnorePath(p) \/ RemoveDeleted(p)
  BY <1>1, <1>3 DEF Start, ReadCache, OpenLock, IgnorePath, RemoveDeleted, NextArg
<1>4. CASE OpenFile(p) \/ HashFile(p) \/ MmapRefused(p) \/ WriteHeader(p)
  BY <1>1, <1>4 DEF OpenFile, HashFile, MmapRefused, WriteHeader
<1>5. CASE WriteEntry(p)
  BY <1>5 DEF WriteEntry
<1>6. CASE \/ ReadCacheFails(p) \/ LockTaken(p) \/ TruncatedWhileRead(p) \/ Rename(p)
           \/ Unlink(p) \/ Crash(p) \/ ObjectExists(p) \/ WriteObject(p)
  BY <1>2, <1>6 DEF ReadCacheFails, LockTaken, TruncatedWhileRead, Rename, Unlink, Crash,
     ObjectExists, WriteObject
<1>7. CASE CallFails(p)
  BY <1>1, <1>2, <1>7 DEF CallFails
<1>8. QED
  BY <1>3, <1>4, <1>5, <1>6, <1>7 DEF Step

\* From "write" a process without a fault only goes on by writing.
LEMMA FromWrite ==
  ASSUME NEW p \in Proc, Start(p) \/ Step(p) \/ CallFails(p) \/ Crash(p), pc[p] = "write"
  PROVE  WriteObject(p) \/ CallFails(p) \/ Crash(p)
BY DEF Step, Start, ReadCache, ReadCacheFails, OpenLock, LockTaken, IgnorePath,
   RemoveDeleted, OpenFile, HashFile, MmapRefused, TruncatedWhileRead, CreateObject,
   ObjectExists, WriteHeader, WriteEntry, Rename, Unlink, InLoop

\* ObjectsSettled is inductive.
LEMMA NextSettled == Inv /\ ObjectsSettled /\ [Next]_vars => ObjectsSettled'
<1> SUFFICES ASSUME Inv, ObjectsSettled, [Next]_vars PROVE ObjectsSettled'
  OBVIOUS
<1>0. TypeOK /\ TypeOK' /\ LockOwned /\ faults \in Nat
  BY NextType DEF Inv, TypeOK
<1> USE DEF memory
<1>1. ASSUME NEW q \in Proc, pc'[q] = "write" PROVE objects'[ce'[q].sha1] = "partial"
  <2>1. ce[q].sha1 \in Blob
    BY <1>0 DEF TypeOK, Entry
  <2>2. ASSUME pc[q] = "write", ce'[q] = ce[q], ~WriteObject(q)
        PROVE  objects'[ce'[q].sha1] = "partial"
    <3>1. objects[ce[q].sha1] = "partial"
      BY <2>2 DEF ObjectsSettled
    <3>2. ASSUME NEW p \in Proc, WriteObject(p) PROVE FALSE
      BY <1>0, <2>2, <3>2, Exclusive DEF WriteObject, Holding
    <3>3. ASSUME NEW p \in Proc, CreateObject(p) PROVE objects'[ce[q].sha1] = "partial"
      BY <1>0, <2>1, <3>1, <3>3 DEF CreateObject, TypeOK
    <3>4. QED
      BY <2>2, <3>1, <3>2, <3>3, ObjectChanges
  <2>3. ASSUME NEW p \in Proc, Start(p) \/ Step(p) \/ CallFails(p) \/ Crash(p)
        PROVE  objects'[ce'[q].sha1] = "partial"
    <3>1. CASE p = q
      <4>1. CreateObject(q)
        BY <1>0, <1>1, <2>3, <3>1, ToWrite
      <4>2. QED
        BY <1>0, <2>1, <4>1 DEF CreateObject, TypeOK
    <3>2. CASE p # q
      <4>1. ce'[q] = ce[q] /\ pc'[q] = pc[q]
        BY <1>0, <2>3, <3>2, OthersUnchanged
      <4>2. ~WriteObject(q)
        BY <1>0, <1>1, <4>1 DEF WriteObject, Stage, NextArg, Goto, TypeOK
      <4>3. QED
        BY <1>1, <2>2, <4>1, <4>2
    <3>3. QED
      BY <3>1, <3>2
  <2>4. CASE UNCHANGED <<index, objects, runs, faults, pc, memory>>
    BY <1>1, <2>4 DEF ObjectsSettled
  <2>5. QED
    BY <2>3, <2>4, Actors
<1>s. ASSUME NEW b \in Blob PROVE objects'[b] \in {"absent", "partial", Filled(b)}
  <2>1. objects[b] \in {"absent", "partial", Filled(b)}
    BY Zenon DEF ObjectsSettled
  <2>2. ASSUME NEW p \in Proc, CreateObject(p) \/ WriteObject(p)
        PROVE  objects'[b] \in {"absent", "partial", Filled(b)}
    BY <1>0, <2>1, <2>2 DEF CreateObject, WriteObject, TypeOK
  <2>3. QED
    BY <2>1, <2>2, ObjectChanges
<1>2. PartialHasWriter'
  <2> SUFFICES ASSUME NEW b \in Blob, objects'[b] = "partial", faults' = 0
               PROVE  \E p \in Proc : pc'[p] = "write" /\ ce'[p].sha1 = b
    BY DEF PartialHasWriter
  <2>1. faults = 0
    BY <1>0, FaultsGrow
  <2>2. CASE objects[b] = "partial"
    <3>1. PICK q \in Proc : pc[q] = "write" /\ ce[q].sha1 = b
      BY <2>1, <2>2 DEF ObjectsSettled, PartialHasWriter
    <3>2. ASSUME NEW p \in Proc, Start(p) \/ Step(p) \/ CallFails(p) \/ Crash(p), p = q
          PROVE  FALSE
      <4>1. CASE WriteObject(q)
        <5>1. objects'[b] = Filled(b)
          BY <1>0, <3>1, <4>1 DEF WriteObject, TypeOK
        <5>2. QED
          BY <5>1, FilledHeld
      <4>2. CASE CallFails(q) \/ Crash(q)
        BY <1>0, <2>1, <4>2, FaultsGrow
      <4>3. QED
        BY <3>1, <3>2, <4>1, <4>2, FromWrite
    <3>3. pc'[q] = pc[q] /\ ce'[q] = ce[q]
      BY <1>0, <3>2, Actors, OthersUnchanged
    <3>4. QED
      BY <3>1, <3>3
  <2>3. CASE objects[b] # "partial"
    <3>1. PICK p \in Proc : CreateObject(p) \/ WriteObject(p)
      BY <2>3, ObjectChanges
    <3>2. ~WriteObject(p)
      BY <1>0, <2>3, FilledHeld DEF WriteObject, TypeOK
    <3>3. CreateObject(p) /\ ce[p].sha1 = b
      BY <1>0, <2>3, <3>1, <3>2 DEF CreateObject, TypeOK
    <3>4. pc'[p] = "write" /\ ce'[p].sha1 = b
      BY <1>0, <3>3 DEF CreateObject, Goto, TypeOK
    <3>5. QED
      BY <3>4
  <2>4. QED
    BY <2>2, <2>3
<1>3. ASSUME NEW p \in Proc, Stages(p) PROVE Whole(ce[p])'
  <2>1. ce[p] \in Entry /\ ce[p].sha1 \in Blob
    BY <1>0 DEF TypeOK, Entry
  <2>2. CASE CallFails(p)
    BY <1>0, <2>2, FaultsGrow DEF Whole
  <2>3. CASE WriteObject(p)
    <3>1. ce' = ce /\ objects'[ce[p].sha1] = Filled(ce[p].sha1)
      BY <1>0, <2>1, <2>3 DEF WriteObject, Stage, TypeOK
    <3>2. QED
      BY <3>1 DEF Whole
  <2>4. CASE ObjectExists(p)
    <3>1. pc[p] = "creat" /\ objects[ce[p].sha1] # "absent" /\ ce' = ce
      BY <2>4 DEF ObjectExists, Stage
    <3>2. ASSUME objects[ce[p].sha1] = "partial", faults = 0 PROVE FALSE
      <4>1. PICK q \in Proc : pc[q] = "write"
        BY <2>1, <3>2 DEF ObjectsSettled, PartialHasWriter
      <4>2. q = p
        BY <1>0, <3>1, <4>1, Exclusive DEF Holding
      <4>3. QED
        BY <3>1, <4>1, <4>2
    <3>3. objects[ce[p].sha1] \in {"absent", "partial", Filled(ce[p].sha1)}
      BY <2>1, Zenon DEF ObjectsSettled
    <3>4. Whole(ce[p])
      BY <1>0, <3>1, <3>2, <3>3 DEF Whole
    <3>5. PICK e \in Entry : e = ce[p]
      BY <2>1
    <3>6. Whole(e)'
      BY <3>4, <3>5, WholeStable
    <3>7. QED
      BY <3>1, <3>5, <3>6 DEF Whole
  <2>5. QED
    BY <1>3, <2>2, <2>3, <2>4 DEF Stages
<1>4. ASSUME NEW p \in Proc, NEW i \in 1 .. Len(cache'[p]) PROVE Whole(cache[p][i])'
  <2>1. ASSUME NEW e \in Entry, Whole(e), cache'[p][i] = e PROVE Whole(cache[p][i])'
    <3>1. Whole(e)'
      BY <2>1, WholeStable
    <3>2. QED
      BY <2>1, <3>1 DEF Whole
  <2>2. ASSUME NEW j \in 1 .. Len(cache[p]), cache'[p][i] = cache[p][j]
        PROVE  Whole(cache[p][i])'
    <3>1. cache[p][j] \in Entry
      BY <1>0 DEF TypeOK
    <3>2. Whole(cache[p][j])
      BY DEF ObjectsSettled
    <3>3. QED
      BY <2>1, <2>2, <3>1, <3>2
  <2>3. ASSUME index # NoFile, NEW j \in 1 .. Len(index.body), cache'[p][i] = index.body[j]
        PROVE  Whole(cache[p][i])'
    <3>1. index.body[j] \in Entry
      BY <1>0, <2>3, IndexBody
    <3>2. Whole(index.body[j])
      BY <2>3 DEF ObjectsSettled, IndexObjectsWhole
    <3>3. QED
      BY <2>1, <2>3, <3>1, <3>2
  <2>4. ASSUME Start(p) \/ Step(p) \/ CallFails(p) \/ Crash(p) PROVE Whole(cache[p][i])'
    <3>1. CASE Stages(p) /\ cache'[p][i] = ce[p]
      <4>1. ce'[p] = ce[p]
        BY <3>1 DEF Stages, ObjectExists, WriteObject, CallFails, Stage
      <4>2. Whole(ce[p])'
        BY <1>3, <3>1
      <4>3. QED
        BY <3>1, <4>1, <4>2 DEF Whole
    <3>2. QED
      BY <2>2, <2>3, <2>4, <3>1, CacheOrigin
  <2>5. CASE cache'[p] = cache[p]
    BY <2>2, <2>5
  <2>6. QED
    BY <1>0, <2>4, <2>5, Actors, OthersUnchanged
<1>5. IndexObjectsWhole'
  <2> SUFFICES ASSUME index' # NoFile, NEW i \in 1 .. Len(index'.body)
               PROVE  Whole(index.body[i])'
    BY DEF IndexObjectsWhole
  <2>1. ASSUME NEW e \in Entry, Whole(e), index'.body[i] = e PROVE Whole(index.body[i])'
    <3>1. Whole(e)'
      BY <2>1, WholeStable
    <3>2. QED
      BY <2>1, <3>1 DEF Whole
  <2>2. CASE index' = index
    <3>1. index.body[i] \in Entry
      BY <1>0, <2>2, IndexBody
    <3>2. Whole(index.body[i])
      BY <2>2 DEF ObjectsSettled, IndexObjectsWhole
    <3>3. QED
      BY <2>1, <2>2, <3>1, <3>2
  <2>3. ASSUME NEW p \in Proc, Rename(p) PROVE Whole(index.body[i])'
    <3>1. index'.body = cache[p]
      BY <2>3, RenameInstallsCache
    <3>2. i \in 1 .. Len(cache[p])
      BY <3>1
    <3>3. cache[p][i] \in Entry
      BY <1>0, <3>2 DEF TypeOK
    <3>4. Whole(cache[p][i])
      BY <3>2 DEF ObjectsSettled
    <3>5. QED
      BY <2>1, <3>1, <3>2, <3>3, <3>4
  <2>4. QED
    BY <2>2, <2>3, IndexChanges
<1>6. QED
  BY <1>1, <1>s, <1>2, <1>4, <1>5 DEF ObjectsSettled

\* ObjectsSettled holds at the start.
LEMMA InitSettled == Init => ObjectsSettled
<1> SUFFICES ASSUME Init PROVE ObjectsSettled
  OBVIOUS
<1>1. PartialHasWriter /\ IndexObjectsWhole
  BY DEF Init, PartialHasWriter, IndexObjectsWhole
<1>2. \A p \in Proc : cache[p] = <<>> /\ pc[p] = "idle"
  BY DEF Init
<1>3. \A b \in Blob : objects[b] = "absent"
  BY DEF Init
<1>4. QED
  BY <1>1, <1>2, <1>3 DEF ObjectsSettled

\* ObjectsSettled holds in every reachable state of git --add.
THEOREM Settled == Spec => [](Inv /\ ObjectsSettled)
BY InitInv, NextInv, InitSettled, NextSettled, PTL DEF Spec

(***************************************************************************)
(* Without faults no error path of update_cache leaves a partly written    *)
(* object behind.                                                          *)
(***************************************************************************)
THEOREM PartialIsWritten == Spec => []PartialHasWriter
<1>1. ObjectsSettled => PartialHasWriter
  BY DEF ObjectsSettled
<1>2. QED
  BY <1>1, Settled, PTL

(***************************************************************************)
(* Without faults every object file that the index names holds all that    *)
(* index_fd made, although write_sha1_buffer takes any existing file for   *)
(* the object.  For contents that fit the buffer this is the whole object. *)
(***************************************************************************)
THEOREM ObjectsWhole == Spec => []IndexObjectsWhole
<1>1. ObjectsSettled => IndexObjectsWhole
  BY DEF ObjectsSettled
<1>2. QED
  BY <1>1, Settled, PTL

-----------------------------------------------------------------------------
\* The refinement.

\* The store writes the same streams.
LEMMA SameFilled == \A b : Store!Filled(b) = Filled(b)
BY DEF Filled, Store!Filled

\* A step of git --add changes the store in one of its ways, or not at all.
LEMMA StoreStep ==
  Inv /\ ObjectsSettled /\ [Next]_vars => [Store!StoreNext]_(Store!store)
<1> SUFFICES ASSUME Inv, ObjectsSettled, [Next]_vars
             PROVE  Store!StoreNext \/ Store!store' = Store!store
  OBVIOUS
<1> USE DEF memory, world
<1>0. TypeOK /\ faults \in Nat
  BY DEF Inv, TypeOK
<1>1. ASSUME NEW p \in Proc, Rename(p) PROVE Store!Install
  <2>1. cache[p] \in Seq(Entry) /\ objects' = objects /\ faults' = faults
    BY <1>0, <1>1 DEF Rename, TypeOK
  <2>2. IndexContents' = cache[p]
    BY <1>1, RenameInstallsCache DEF IndexContents
  <2>3. Store!Sorted(cache[p])
    BY DEF Inv, CachesSorted, Sorted, Store!Sorted
  <2>4. ASSUME NEW i \in 1 .. Len(cache[p]) PROVE Store!Usable(cache[p][i].sha1)
    <3>0. cache[p][i] \in Entry
      BY <2>1
    <3>1. cache[p][i].sha1 \in Blob
      BY <3>0 DEF Entry
    <3>2. objects[cache[p][i].sha1] # "absent"
      BY DEF Inv, EntriesSound, MemorySound, Sound
    <3>3. objects[cache[p][i].sha1] \in {"partial", Filled(cache[p][i].sha1)}
      BY <3>1, <3>2, Zenon DEF ObjectsSettled
    <3>4. Whole(cache[p][i])
      BY DEF ObjectsSettled
    <3>5. QED
      BY <3>3, <3>4, SameFilled DEF Whole, Store!Usable
  <2>5. QED
    BY <2>1, <2>2, <2>3, <2>4 DEF Store!Install
<1>2. ASSUME NEW p \in Proc, CreateObject(p) PROVE Store!CreateBlob(ce[p].sha1)
  BY <1>2 DEF CreateObject, Store!CreateBlob, IndexContents
<1>3. ASSUME NEW p \in Proc, WriteObject(p) PROVE Store!FillBlob(ce[p].sha1)
  BY <1>3, SameFilled DEF WriteObject, Store!FillBlob, IndexContents, ObjectsSettled
<1>4. ASSUME NEW p \in Proc PROVE ce[p].sha1 \in Blob
  BY <1>0 DEF TypeOK, Entry
<1>5. ASSUME index' = index, objects' = objects
      PROVE  Store!GoWrong \/ Store!store' = Store!store
  <2>1. IndexContents' = IndexContents
    BY <1>5 DEF IndexContents
  <2>2. (faults > 0)' = (faults > 0) \/ (~(faults > 0) /\ (faults > 0)' = TRUE)
    BY <1>0, FaultsGrow
  <2>3. QED
    BY <1>5, <2>1, <2>2 DEF Store!GoWrong, Store!store
<1>6. QED
  BY <1>1, <1>2, <1>3, <1>4, <1>5, IndexChanges, ObjectChanges DEF Store!StoreNext

(***************************************************************************)
(* git --add implements IndexStore, whatever fails: other commands see the *)
(* old index or the new one, sorted and with its objects in place.         *)
(***************************************************************************)
THEOREM AddImplementsStore == Spec => ImplementsStore
<1>1. Init => Store!StoreInit
  BY DEF Init, Store!StoreInit, IndexContents
<1>2. QED
  BY <1>1, Settled, StoreStep, PTL DEF Spec, ImplementsStore, Store!StoreSpec

-----------------------------------------------------------------------------
\* When only the last path is deleted.

\* A path that was found stays found, or is one the user deletes.
LEMMA KeptStays ==
  ASSUME TypeOK, [Next]_vars, NEW q \in Path, Kept(q)
  PROVE  Kept(q)'
<1>1. ASSUME NEW f \in Editable, Edit(f), work[q] # NoFile PROVE work'[q] # NoFile
  <2>1. PICK d \in (Blob \ {Torn}) \cup Unmappable :
          work' = [work EXCEPT ![f] = [data |-> d, stat |-> clock + 1]]
    BY <1>1 DEF Edit
  <2>2. [data |-> d, stat |-> clock + 1] \in WorkFile
    BY DEF TypeOK, WorkFile
  <2>3. QED
    BY <1>1, <2>1, <2>2, WorkAssumption DEF TypeOK
<1>2. ASSUME NEW f \in Deletable, Delete(f), work[q] # NoFile
      PROVE  work'[q] # NoFile \/ q \in Deletable
  BY <1>2 DEF Delete, TypeOK
<1>3. QED
  BY <1>1, <1>2, WorldChanges DEF Kept

\* So do the names of a list of entries.
LEMMA KeptListStays ==
  ASSUME TypeOK, [Next]_vars, NEW s \in Seq(Entry), UniqueAndKept(s)
  PROVE  Unique(s) /\ \A i \in 1 .. Len(s) : Kept(s[i].name)'
<1>1. \A i \in 1 .. Len(s) : s[i] \in Entry
  OBVIOUS
<1>2. \A i \in 1 .. Len(s) : s[i].name \in Path
  BY <1>1 DEF Entry
<1>3. QED
  BY <1>2, KeptStays DEF UniqueAndKept

\* A cached path that has gone is that of the last entry.
LEMMA GoneIsLast ==
  ASSUME OnlyLastDeleted, NEW s \in Seq(Entry), Sorted(s), UniqueAndKept(s),
         NEW k \in 1 .. Len(s), work[s[k].name] = NoFile
  PROVE  k = Len(s)
<1>1. \A i \in 1 .. Len(s) : s[i] \in Entry
  OBVIOUS
<1>2. \A i \in 1 .. Len(s) : s[i].name \in Path /\ s[i].name \in Nat
  BY <1>1, PathAssumption DEF Entry
<1>3. s[k].name \in Deletable /\ s[Len(s)].name \in Path \ Rejected
  BY <1>2 DEF UniqueAndKept, Kept
<1>4. s[Len(s)].name <= s[k].name
  BY <1>3 DEF OnlyLastDeleted
<1>5. ASSUME k < Len(s) PROVE FALSE
  <2>1. Len(s) \in 1 .. Len(s)
    BY <1>5
  <2>2. s[k].name <= s[Len(s)].name /\ s[k].name # s[Len(s)].name
    BY <1>5, <2>1 DEF Sorted, UniqueAndKept, Unique
  <2>3. QED
    BY <1>2, <1>4, <2>1, <2>2
<1>6. QED
  BY <1>5

\* Process p's cache loses its last entry, whose name is its argument.
DropsLast(p) ==
  /\ Len(cache[p]) > 0
  /\ cache[p][Len(cache[p])].name = Arg(p)
  /\ cache'[p] \in Seq(Entry)
  /\ Len(cache'[p]) = Len(cache[p]) - 1
  /\ \A i \in 1 .. Len(cache'[p]) : cache'[p][i] = cache[p][i]

\* How a step changes the cache of its process when only the last entry goes.
LEMMA CacheSteps ==
  ASSUME OnlyLastDeleted, Inv, OnlyLastGoes, NEW p \in Proc,
         Start(p) \/ Step(p) \/ CallFails(p) \/ Crash(p)
  PROVE  \/ cache'[p] = cache[p] /\ ~ReadCache(p)
         \/ Exit(p)
         \/ ReadCache(p)
         \/ Stage(p) /\ pc[p] \in {"creat", "write"}
         \/ RemoveDeleted(p) /\ DropsLast(p)
<1> USE DEF disk, world, memory
<1>1. CASE RemoveDeleted(p)
  <2>1. /\ Arg(p) \in Path /\ work[Arg(p)] = NoFile
        /\ cache[p] \in Seq(Entry) /\ Sorted(cache[p]) /\ UniqueAndKept(cache[p])
    BY <1>1, ArgIsPath DEF RemoveDeleted, TypeOK, Inv, CachesSorted, OnlyLastGoes
  <2>2. PICK pos \in NamePositions(cache[p], Arg(p)) :
          cache' = [cache EXCEPT ![p] = RemoveFileFromCache(cache[p], pos)]
    BY <1>1 DEF RemoveDeleted
  <2>3. cache'[p] = RemoveFileFromCache(cache[p], pos)
    BY <2>2 DEF Inv, TypeOK
  <2>4. CASE pos >= 0
    BY <1>1, <2>3, <2>4 DEF RemoveFileFromCache, RemoveDeleted, ReadCache, InLoop
  <2>5. CASE pos < 0
    <3>1. PICK k \in 1 .. Len(cache[p]) : pos = -k /\ cache[p][k].name = Arg(p)
      BY <2>1, <2>5, LengthIsNat, PositionSign, Zenon
    <3>2. k = Len(cache[p])
      BY <2>1, <3>1, GoneIsLast
    <3>3. cache'[p] = RemoveFileFromCache(cache[p], -Len(cache[p])) /\ Len(cache[p]) > 0
      BY <2>3, <3>1, <3>2
    <3>4. QED
      BY <1>1, <2>1, <3>1, <3>2, <3>3, RemoveLastIsExact DEF DropsLast
  <2>6. QED
    BY <2>1, <2>4, <2>5, LengthIsNat, PositionSign, Zenon
<1>2. CASE \/ ReadCacheFails(p) \/ LockTaken(p) \/ TruncatedWhileRead(p)
           \/ Rename(p) \/ Unlink(p) \/ Crash(p)
  BY <1>2 DEF ReadCacheFails, LockTaken, TruncatedWhileRead, Rename, Unlink, Crash
<1>3. CASE \/ Start(p) \/ OpenLock(p) \/ IgnorePath(p) \/ OpenFile(p) \/ HashFile(p)
           \/ MmapRefused(p) \/ CreateObject(p) \/ WriteHeader(p) \/ WriteEntry(p)
  BY <1>3 DEF Start, OpenLock, IgnorePath, OpenFile, HashFile, MmapRefused, CreateObject,
     WriteHeader, WriteEntry, ReadCache, InLoop
<1>4. CASE ObjectExists(p) \/ WriteObject(p)
  BY <1>4 DEF ObjectExists, WriteObject
<1>5. CASE CallFails(p)
  BY <1>5 DEF CallFails, ReadCache
<1>6. QED
  BY <1>1, <1>2, <1>3, <1>4, <1>5 DEF Step

\* The entry under construction is of a path that was found in the work tree
\* and stands on the command line.
LEMMA NewEntryName ==
  ASSUME Inv, NEW p \in Proc, Start(p) \/ Step(p) \/ CallFails(p) \/ Crash(p),
         pc'[p] \in {"mmap", "creat", "write"}
  PROVE  /\ argv'[p] = argv[p]
         /\ \/ OpenFile(p) /\ ce'[p].name = Arg(p)
            \/ pc[p] \in {"mmap", "creat", "write"} /\ ce'[p].name = ce[p].name
<1> USE DEF disk, world, memory
<1>0. TypeOK
  BY DEF Inv
<1>1. ASSUME NEW l, Goto(p, l), l \notin {"mmap", "creat", "write"} PROVE FALSE
  BY <1>0, <1>1 DEF Goto, TypeOK
<1>2. CASE Exit(p) \/ Stage(p) \/ NextArg(p)
  BY <1>1, <1>2 DEF Exit, Stage, NextArg
<1>3. CASE \/ ReadCacheFails(p) \/ LockTaken(p) \/ TruncatedWhileRead(p) \/ IgnorePath(p)
           \/ Rename(p) \/ Unlink(p) \/ Crash(p) \/ ObjectExists(p) \/ WriteObject(p)
  BY <1>2, <1>3 DEF ReadCacheFails, LockTaken, TruncatedWhileRead, IgnorePath, Rename, Unlink,
     Crash, ObjectExists, WriteObject
<1>4. CASE \/ Start(p) \/ ReadCache(p) \/ OpenLock(p) \/ RemoveDeleted(p) \/ MmapRefused(p)
           \/ WriteHeader(p)
  BY <1>1, <1>2, <1>4 DEF Start, ReadCache, OpenLock, RemoveDeleted, MmapRefused, WriteHeader
<1>5. CASE WriteEntry(p)
  BY <1>5 DEF WriteEntry
<1>6. CASE OpenFile(p)
  <2>1. ce'[p].name = Arg(p)
    BY <1>0, <1>6 DEF OpenFile, TypeOK, Entry
  <2>2. QED
    BY <1>6, <2>1 DEF OpenFile
<1>7. CASE HashFile(p)
  <2>1. ce'[p].name = ce[p].name
    BY <1>0, <1>7 DEF HashFile, TypeOK, Entry
  <2>2. QED
    BY <1>7, <2>1 DEF HashFile
<1>8. CASE CreateObject(p)
  BY <1>8 DEF CreateObject
<1>9. CASE CallFails(p)
  BY <1>1, <1>2, <1>9 DEF CallFails
<1>10. QED
  BY <1>3, <1>4, <1>5, <1>6, <1>7, <1>8, <1>9 DEF Step

\* OnlyLastGoes is inductive.
LEMMA NextUnique ==
  ASSUME OnlyLastDeleted
  PROVE  Inv /\ OnlyLastGoes /\ [Next]_vars => OnlyLastGoes'
<1> SUFFICES ASSUME Inv, OnlyLastGoes, [Next]_vars PROVE OnlyLastGoes'
  OBVIOUS
<1> USE DEF memory
<1>0. TypeOK
  BY DEF Inv
<1>1. ASSUME NEW s \in Seq(Entry), UniqueAndKept(s), NEW t, t = s
      PROVE  Unique(t) /\ \A i \in 1 .. Len(t) : Kept(t[i].name)'
  BY <1>0, <1>1, KeptListStays
<1>2. ASSUME NEW p \in Proc PROVE UniqueAndKept(cache[p])'
  <2>0. cache[p] \in Seq(Entry) /\ UniqueAndKept(cache[p])
    BY <1>0 DEF TypeOK, OnlyLastGoes
  <2>1. CASE cache'[p] = cache[p]
    BY <1>1, <2>0, <2>1 DEF UniqueAndKept
  <2>2. CASE Exit(p)
    <3>1. cache'[p] = <<>>
      BY <1>0, <2>2 DEF Exit, TypeOK
    <3>2. 1 .. Len(cache'[p]) = {}
      BY <3>1, EmptyRange, Zenon
    <3>3. QED
      BY <3>2, Zenon DEF UniqueAndKept, Unique
  <2>3. CASE ReadCache(p)
    <3>1. CASE index = NoFile
      BY <2>1, <2>3, <3>1 DEF ReadCache
    <3>2. CASE index # NoFile
      <4>1. cache'[p] = index.body
        BY <1>0, <2>3, <3>2 DEF ReadCache, TypeOK
      <4>2. index.body \in Seq(Entry) /\ UniqueAndKept(index.body)
        BY <1>0, <3>2, IndexBody DEF OnlyLastGoes
      <4>3. QED
        BY <1>1, <4>1, <4>2 DEF UniqueAndKept
    <3>3. QED
      BY <3>1, <3>2
  <2>4. CASE Stage(p) /\ pc[p] \in {"creat", "write"}
    <3>0. ce[p] \in Entry /\ Sorted(cache[p]) /\ Kept(ce[p].name)
      BY <1>0, <2>4 DEF TypeOK, Inv, CachesSorted, OnlyLastGoes
    <3>1. PICK pos \in NamePositions(cache[p], ce[p].name) :
            cache'[p] = AddCacheEntry(cache[p], pos, ce[p])
      BY <1>0, <2>4 DEF Stage, TypeOK
    <3> DEFINE r == AddCacheEntry(cache[p], pos, ce[p])
    <3>2. r \in Seq(Entry) /\ Unique(r)
      BY <2>0, <3>0, AddKeepsSorted, AddKeepsUnique DEF UniqueAndKept
    <3>3. \A i \in 1 .. Len(r) : r[i] = ce[p] \/ \E j \in 1 .. Len(cache[p]) : r[i] = cache[p][j]
      BY <2>0, <3>0, AddKeepsSorted
    <3> HIDE DEF r
    <3>4. \A i \in 1 .. Len(r) : Kept(r[i].name)
      BY <2>0, <3>0, <3>3 DEF UniqueAndKept
    <3>5. UniqueAndKept(r)
      BY <3>2, <3>4 DEF UniqueAndKept
    <3>6. cache'[p] = r
      BY <3>1 DEF r
    <3>7. QED
      BY <1>1, <3>2, <3>5, <3>6 DEF UniqueAndKept
  <2>5. CASE DropsLast(p)
    <3> DEFINE r == cache'[p]
    <3>1. r \in Seq(Entry) /\ \A i \in 1 .. Len(r) : i \in 1 .. Len(cache[p]) /\ r[i] = cache[p][i]
      BY <2>0, <2>5 DEF DropsLast
    <3>2. UniqueAndKept(r)
      BY <2>0, <3>1 DEF UniqueAndKept, Unique
    <3>3. QED
      BY <1>1, <3>1, <3>2 DEF UniqueAndKept
  <2>6. QED
    BY <1>0, <2>1, <2>2, <2>3, <2>4, <2>5, Actors, OthersUnchanged, CacheSteps
<1>3. ASSUME index' # NoFile PROVE UniqueAndKept(index.body)'
  <2>1. CASE index' = index
    <3>1. index.body \in Seq(Entry) /\ UniqueAndKept(index.body)
      BY <1>0, <1>3, <2>1, IndexBody DEF OnlyLastGoes
    <3>2. QED
      BY <1>1, <2>1, <3>1 DEF UniqueAndKept
  <2>2. ASSUME NEW p \in Proc, Rename(p) PROVE UniqueAndKept(index.body)'
    <3>1. index'.body = cache[p]
      BY <2>2, RenameInstallsCache
    <3>2. cache[p] \in Seq(Entry) /\ UniqueAndKept(cache[p])
      BY <1>0 DEF TypeOK, OnlyLastGoes
    <3>3. QED
      BY <1>1, <3>1, <3>2 DEF UniqueAndKept
  <2>3. QED
    BY <2>1, <2>2, IndexChanges
<1>4. ASSUME NEW p \in Proc, pc'[p] \in {"mmap", "creat", "write"}
      PROVE  Kept(ce[p].name)'
  <2>0. ce[p].name \in Path
    BY <1>0 DEF TypeOK, Entry
  <2>1. CASE OpenFile(p) /\ ce'[p].name = Arg(p)
    <3>1. Arg(p) \in Path /\ Kept(Arg(p))
      BY <1>0, <2>1, ArgIsPath DEF OpenFile, Kept
    <3>2. QED
      BY <1>0, <2>1, <3>1, KeptStays DEF Kept
  <2>2. CASE pc[p] \in {"mmap", "creat", "write"} /\ ce'[p].name = ce[p].name
    BY <1>0, <2>0, <2>2, KeptStays DEF OnlyLastGoes, Kept
  <2>3. QED
    BY <1>0, <1>4, <2>1, <2>2, Actors, OthersUnchanged, NewEntryName
<1>5. QED
  BY <1>2, <1>3, <1>4 DEF OnlyLastGoes

(***************************************************************************)
(* As long as only the last path is deleted, names are unique in the       *)
(* index: the short memmove of remove_file_from_cache is the only source   *)
(* of duplicates.                                                          *)
(***************************************************************************)
THEOREM NamesStayUnique ==
  ASSUME OnlyLastDeleted
  PROVE  Spec => []IndexUnique
<1>1. Init => OnlyLastGoes
  <2> SUFFICES ASSUME Init PROVE OnlyLastGoes
    OBVIOUS
  <2>1. index = NoFile /\ \A p \in Proc : cache[p] = <<>> /\ pc[p] = "idle"
    BY DEF Init
  <2>2. UniqueAndKept(<<>>)
    BY DEF UniqueAndKept, Unique
  <2>3. QED
    BY <2>1, <2>2 DEF OnlyLastGoes
<1>2. OnlyLastGoes => IndexUnique
  BY DEF OnlyLastGoes, UniqueAndKept, IndexUnique
<1>3. QED
  BY <1>1, <1>2, InitInv, NextInv, NextUnique, PTL DEF Spec

\* The other processes keep their arguments and their snapshot.
LEMMA OthersKeepArgs ==
  ASSUME TypeOK, NEW p \in Proc, Start(p) \/ Step(p) \/ CallFails(p) \/ Crash(p),
         NEW q \in Proc, q # p
  PROVE  argv'[q] = argv[q] /\ base'[q] = base[q]
<1> USE DEF disk, world, memory
<1>1. CASE Exit(p)
  BY <1>1 DEF Exit, TypeOK
<1>2. CASE UNCHANGED <<argv, base>>
  BY <1>2
<1>3. CASE Start(p) \/ ReadCache(p)
  BY <1>3 DEF Start, ReadCache, TypeOK
<1>4. CASE \/ ReadCacheFails(p) \/ LockTaken(p) \/ TruncatedWhileRead(p)
           \/ Rename(p) \/ Unlink(p) \/ Crash(p)
  BY <1>1, <1>4 DEF ReadCacheFails, LockTaken, TruncatedWhileRead, Rename, Unlink, Crash
<1>5. CASE \/ OpenLock(p) \/ IgnorePath(p) \/ RemoveDeleted(p) \/ OpenFile(p) \/ HashFile(p)
           \/ MmapRefused(p) \/ CreateObject(p) \/ WriteHeader(p) \/ WriteEntry(p)
  BY <1>2, <1>5 DEF OpenLock, IgnorePath, RemoveDeleted, OpenFile, HashFile, MmapRefused,
     CreateObject, WriteHeader, WriteEntry
<1>6. CASE ObjectExists(p) \/ WriteObject(p)
  BY <1>2, <1>6 DEF ObjectExists, WriteObject, Stage
<1>7. CASE CallFails(p)
  BY <1>1, <1>2, <1>7 DEF CallFails, Stage
<1>8. QED
  BY <1>3, <1>4, <1>5, <1>6, <1>7 DEF Step

\* A process starts, ends, reads the index, or keeps arguments and snapshot.
LEMMA Phases ==
  ASSUME TypeOK, NEW p \in Proc, Start(p) \/ Step(p) \/ CallFails(p) \/ Crash(p)
  PROVE  \/ Start(p)
         \/ Exit(p)
         \/ ReadCache(p)
         \/ /\ argv'[p] = argv[p] /\ base'[p] = base[p]
            /\ pc[p] \notin {"idle", "read"} /\ pc'[p] \notin {"idle", "read"}
<1> USE DEF disk, world, memory
<1>1. CASE \/ ReadCacheFails(p) \/ LockTaken(p) \/ TruncatedWhileRead(p)
           \/ Rename(p) \/ Unlink(p) \/ Crash(p)
  BY <1>1 DEF ReadCacheFails, LockTaken, TruncatedWhileRead, Rename, Unlink, Crash
<1>2. CASE \/ OpenLock(p) \/ IgnorePath(p) \/ OpenFile(p) \/ HashFile(p)
           \/ MmapRefused(p) \/ CreateObject(p) \/ WriteHeader(p)
  BY <1>2 DEF OpenLock, IgnorePath, OpenFile, HashFile, MmapRefused, CreateObject,
     WriteHeader, InLoop, NextArg, Goto, TypeOK
<1>3. CASE RemoveDeleted(p)
  BY <1>3 DEF RemoveDeleted, InLoop, NextArg, Goto, TypeOK
<1>4. CASE WriteEntry(p)
  BY <1>4 DEF WriteEntry
<1>5. CASE ObjectExists(p) \/ WriteObject(p)
  BY <1>5 DEF ObjectExists, WriteObject, Stage, NextArg, Goto, TypeOK
<1>6. CASE CallFails(p)
  BY <1>6 DEF CallFails, Stage, NextArg, Goto, TypeOK
<1>7. QED
  BY <1>1, <1>2, <1>3, <1>4, <1>5, <1>6 DEF Step

\* CacheIsLocal is inductive.
LEMMA NextLocal ==
  ASSUME OnlyLastDeleted
  PROVE  Inv /\ OnlyLastGoes /\ CacheIsLocal /\ [Next]_vars => CacheIsLocal'
<1> SUFFICES ASSUME Inv, OnlyLastGoes, CacheIsLocal, [Next]_vars, NEW p \in Proc
             PROVE  /\ pc'[p] \in {"idle", "read"} => cache'[p] = <<>>
                    /\ pc'[p] \in {"mmap", "creat", "write"} => ce'[p].name \in Args(p)'
                    /\ pc'[p] \notin {"idle", "read"} => OnlyArgsDiffer(p)'
  BY DEF CacheIsLocal
<1> USE DEF memory
<1>0. TypeOK /\ cache[p] \in Seq(Entry) /\ ce[p] \in Entry /\ Sorted(cache[p])
  BY DEF Inv, TypeOK, CachesSorted
<1>1. CASE UNCHANGED <<pc[p], cache[p], ce[p], argv[p], base[p]>>
  <2>1. Args(p)' = Args(p) /\ Entries(base[p])' = Entries(base[p])
    BY <1>1 DEF Args, Entries
  <2>2. OnlyArgsDiffer(p) => OnlyArgsDiffer(p)'
    BY <1>1, <2>1 DEF OnlyArgsDiffer
  <2>3. QED
    BY <1>1, <2>1, <2>2 DEF CacheIsLocal
<1>2. ASSUME Start(p) \/ Step(p) \/ CallFails(p) \/ Crash(p)
      PROVE  /\ pc'[p] \in {"idle", "read"} => cache'[p] = <<>>
             /\ pc'[p] \in {"mmap", "creat", "write"} => ce'[p].name \in Args(p)'
             /\ pc'[p] \notin {"idle", "read"} => OnlyArgsDiffer(p)'
  <2>1. CASE Exit(p)
    BY <1>0, <2>1 DEF Exit, Goto, TypeOK
  <2>2. CASE Start(p)
    BY <1>0, <2>2 DEF Start, Goto, TypeOK, CacheIsLocal
  <2>3. CASE ReadCache(p)
    <3>1. pc'[p] = "lock" /\ base'[p] = index /\ argv' = argv
      BY <1>0, <2>3 DEF ReadCache, Goto, TypeOK
    <3>2. CASE index = NoFile
      <4>1. cache'[p] = <<>>
        BY <2>3, <3>2 DEF ReadCache, CacheIsLocal
      <4>2. Len(<<>>) = 0 /\ Entries(base[p])' = {}
        BY <3>1, <3>2 DEF Entries
      <4>3. 1 .. Len(cache[p]') = {}
        BY <4>1, <4>2
      <4>4. \A e \in Entry : /\ e \notin Entries(base[p])'
                            /\ ~ \E i \in 1 .. Len(cache[p]') : cache'[p][i] = e
        BY <4>2, <4>3
      <4>5. OnlyArgsDiffer(p)'
        BY <4>4, Zenon DEF OnlyArgsDiffer
      <4>6. QED
        BY <3>1, <4>5
    <3>3. CASE index # NoFile
      <4>1. cache'[p] = index.body
        BY <1>0, <2>3, <3>3 DEF ReadCache, TypeOK
      <4>2. Entries(base[p])' = {index.body[i] : i \in 1 .. Len(index.body)}
        BY <3>1, <3>3 DEF Entries
      <4>3. OnlyArgsDiffer(p)'
        BY <4>1, <4>2 DEF OnlyArgsDiffer
      <4>4. QED
        BY <3>1, <4>3
    <3>4. QED
      BY <3>2, <3>3
  <2>4. ASSUME argv'[p] = argv[p], base'[p] = base[p],
               pc[p] \notin {"idle", "read"}, pc'[p] \notin {"idle", "read"},
               ~Exit(p), ~ReadCache(p)
        PROVE  /\ pc'[p] \in {"mmap", "creat", "write"} => ce'[p].name \in Args(p)'
               /\ OnlyArgsDiffer(p)'
    <3>1. Args(p)' = Args(p) /\ Entries(base[p])' = Entries(base[p])
      BY <2>4 DEF Args, Entries
    <3>2. ASSUME pc'[p] \in {"mmap", "creat", "write"} PROVE ce'[p].name \in Args(p)
      <4>1. CASE OpenFile(p) /\ ce'[p].name = Arg(p)
        BY <1>0, <4>1 DEF OpenFile, InLoop, Arg, Args, TypeOK
      <4>2. QED
        BY <1>2, <3>2, <4>1, NewEntryName DEF CacheIsLocal
    <3>3. OnlyArgsDiffer(p)
      BY <2>4 DEF CacheIsLocal
    <3>4. CASE cache'[p] = cache[p]
      BY <2>4, <3>1, <3>2, <3>3, <3>4 DEF OnlyArgsDiffer
    <3>5. CASE Stage(p) /\ pc[p] \in {"creat", "write"}
      <4>1. ce[p].name \in Args(p)
        BY <3>5 DEF CacheIsLocal
      <4>2. PICK pos \in NamePositions(cache[p], ce[p].name) :
              cache'[p] = AddCacheEntry(cache[p], pos, ce[p])
        BY <1>0, <3>5 DEF Stage, TypeOK
      <4> DEFINE r == AddCacheEntry(cache[p], pos, ce[p])
      <4>3. /\ \A i \in 1 .. Len(r) :
                 r[i] = ce[p] \/ \E j \in 1 .. Len(cache[p]) : r[i] = cache[p][j]
            /\ \A j \in 1 .. Len(cache[p]) : cache[p][j].name # ce[p].name =>
                 \E i \in 1 .. Len(r) : r[i] = cache[p][j]
        BY <1>0, AddKeepsSorted
      <4> HIDE DEF r
      <4>4. ASSUME NEW e \in Entry, e.name \notin Args(p)
            PROVE  (\E i \in 1 .. Len(cache[p]) : cache[p][i] = e)
                     <=> \E i \in 1 .. Len(r) : r[i] = e
        BY <4>1, <4>3, <4>4
      <4>5. cache'[p] = r
        BY <4>2 DEF r
      <4>6. ASSUME NEW e \in Entry, e.name \notin Args(p)
            PROVE  e \in Entries(base[p])
                     <=> \E i \in 1 .. Len(cache'[p]) : cache'[p][i] = e
        BY <3>3, <4>4, <4>5, <4>6 DEF OnlyArgsDiffer
      <4>7. OnlyArgsDiffer(p)'
        BY <3>1, <4>6 DEF OnlyArgsDiffer
      <4>8. QED
        BY <3>1, <3>2, <4>7
    <3>6. CASE RemoveDeleted(p) /\ DropsLast(p)
      <4> DEFINE n == Len(cache[p])
      <4>1. cache[p][n].name \in Args(p)
        <5>1. cache[p][n].name = argv[p][argi[p]]
          BY <3>6, Zenon DEF DropsLast, Arg
        <5>2. argi[p] \in 1 .. Len(argv[p])
          BY <3>6 DEF RemoveDeleted, InLoop, Inv, TypeOK
        <5>3. QED
          BY <5>1, <5>2, Zenon DEF Args
      <4>2. n \in Nat /\ n > 0 /\ Len(cache'[p]) = n - 1
            /\ \A i \in 1 .. n - 1 : cache'[p][i] = cache[p][i]
        BY <1>0, <3>6 DEF DropsLast
      <4> HIDE DEF n
      <4>3. ASSUME NEW e \in Entry, e.name \notin Args(p)
            PROVE  (\E i \in 1 .. n : cache[p][i] = e)
                     <=> \E i \in 1 .. n - 1 : cache'[p][i] = e
        BY <4>1, <4>2, <4>3
      <4>4. ASSUME NEW e \in Entry, e.name \notin Args(p)
            PROVE  e \in Entries(base[p])
                     <=> \E i \in 1 .. Len(cache'[p]) : cache'[p][i] = e
        BY <3>3, <4>2, <4>3, <4>4 DEF OnlyArgsDiffer, n
      <4>5. OnlyArgsDiffer(p)'
        BY <3>1, <4>4 DEF OnlyArgsDiffer
      <4>6. QED
        BY <3>1, <3>2, <4>5
    <3>7. QED
      BY <1>2, <2>4, <3>1, <3>2, <3>4, <3>5, <3>6, CacheSteps
  <2>5. QED
    BY <1>0, <1>2, <2>1, <2>2, <2>3, <2>4, Phases
<1>3. QED
  BY <1>0, <1>1, <1>2, Actors, OthersUnchanged, OthersKeepArgs

\* Installing a local cache changes only the process's arguments.
LEMMA LocalInstall ==
  ASSUME Inv, CacheIsLocal, NEW p \in Proc, Rename(p), base[p] = index
  PROVE  TouchesOnlyArgs(p)
<1>1. index' # NoFile /\ index'.body = cache[p] /\ cache[p] \in Seq(Entry)
  BY RenameInstallsCache DEF Inv, TypeOK
<1>2. Entries(index)' = {cache[p][i] : i \in 1 .. Len(cache[p])}
  BY <1>1 DEF Entries
<1>3. Entries(index') = Entries(index)'
  BY DEF Entries
<1>4. OnlyArgsDiffer(p)
  BY DEF CacheIsLocal, Rename
<1>5. Entries(index) \subseteq Entry
  <2>1. CASE index = NoFile
    BY <2>1 DEF Entries
  <2>2. CASE index # NoFile
    <3>1. index.body \in Seq(Entry)
      BY <2>2, IndexBody DEF Inv
    <3>2. QED
      BY <2>2, <3>1 DEF Entries
  <2>3. QED
    BY <2>1, <2>2
<1>6. Entries(index') \subseteq Entry
  BY <1>1, <1>2, <1>3
<1>7. \A e \in Entry : e.name \notin Args(p) => (e \in Entries(index) <=> e \in Entries(index'))
  BY <1>2, <1>3, <1>4 DEF OnlyArgsDiffer
<1>8. QED
  BY <1>5, <1>6, <1>7 DEF TouchesOnlyArgs

(***************************************************************************)
(* As long as only the last path is deleted, a process whose snapshot is   *)
(* current when it renames the lock file changes only the paths on its     *)
(* command line.                                                           *)
(***************************************************************************)
THEOREM CurrentInstallStaysLocal ==
  ASSUME OnlyLastDeleted
  PROVE  Spec => CurrentInstallIsLocal
<1>1. Init => OnlyLastGoes /\ CacheIsLocal
  <2> SUFFICES ASSUME Init PROVE OnlyLastGoes /\ CacheIsLocal
    OBVIOUS
  <2>1. index = NoFile /\ \A p \in Proc : cache[p] = <<>> /\ pc[p] = "idle"
    BY DEF Init
  <2>2. UniqueAndKept(<<>>)
    BY DEF UniqueAndKept, Unique
  <2>3. QED
    BY <2>1, <2>2 DEF OnlyLastGoes, CacheIsLocal
<1>2. Inv /\ CacheIsLocal /\ [Next]_vars =>
        [\A p \in Proc : Rename(p) /\ base[p] = index => TouchesOnlyArgs(p)]_vars
  BY LocalInstall
<1>3. QED
  BY <1>1, <1>2, InitInv, NextInv, NextUnique, NextLocal, PTL DEF Spec, CurrentInstallIsLocal
=============================================================================
