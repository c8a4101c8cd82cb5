---------------------------- MODULE CommitProofs ----------------------------
(***************************************************************************)
(* The safety of git --commit beside git --add, for any number of          *)
(* processes, indexes and invocations, whatever fails.  With the theorem   *)
(* CommitBesideAdd of RepositoryProofs it holds beside the real git --add  *)
(* processes.                                                              *)
(***************************************************************************)
EXTENDS Commit, TLAPS

\* A step is one of git --add, which leaves commits alone, or of one process.
LEMMA Actors ==
  ASSUME [Next]_vars
  PROVE  \/ AddStep
         \/ \E p \in Committer : Start(p) \/ Step(p) \/ CallFails(p) \/ Crash(p)
         \/ UNCHANGED vars
BY DEF Next

\* What a step of a committing process leaves alone.
LEMMA CommitterStep ==
  ASSUME NEW p \in Committer, Start(p) \/ Step(p) \/ CallFails(p) \/ Crash(p)
  PROVE  /\ index' = index /\ objects' = objects
         /\ faulty => faulty'
<1> USE DEF store
<1>1. CASE Start(p)
  BY <1>1 DEF Start
<1>2. CASE \/ ReadIndex(p) \/ NoCache(p) \/ CheckEntry(p) \/ EncodeTree(p)
           \/ CreateTree(p) \/ TreeExists(p) \/ WriteTree(p)
  BY <1>2 DEF ReadIndex, NoCache, CheckEntry, EncodeTree, CreateTree, TreeExists, WriteTree
<1>3. CASE \/ ParseParents(p) \/ BadParent(p) \/ CreateCommit(p) \/ CommitExists(p)
           \/ WriteCommit(p)
  BY <1>3 DEF ParseParents, BadParent, CreateCommit, CommitExists, WriteCommit
<1>4. CASE CallFails(p) \/ Crash(p)
  BY <1>4 DEF CallFails, Crash
<1>5. CASE CheckFails(p)
  BY <1>5 DEF CheckFails
<1>6. QED
  BY <1>1, <1>2, <1>3, <1>4, <1>5 DEF Step

\* Faults are remembered.
LEMMA FaultsStay == ASSUME [Next]_vars, faulty PROVE faulty'
<1>1. CASE AddStep
  BY <1>1 DEF AddStep, StoreNext, Install, CreateBlob, FillBlob, GoWrong
<1>2. ASSUME NEW p \in Committer, Start(p) \/ Step(p) \/ CallFails(p) \/ Crash(p)
      PROVE  faulty'
  BY <1>2, CommitterStep
<1>3. CASE UNCHANGED vars
  BY <1>3 DEF vars, store
<1>4. QED
  BY <1>1, <1>2, <1>3, Actors

\* An object that an entry may name stays so.
LEMMA UsableStays ==
  ASSUME StoreTypeOK, [Next]_vars, NEW b \in Blob, Usable(b)
  PROVE  Usable(b)'
<1>0. objects \in [Blob -> Held]
  BY DEF StoreTypeOK
<1>1. CASE objects' = objects
  BY <1>1, FaultsStay DEF Usable
<1>2. ASSUME NEW c \in Blob, CreateBlob(c) \/ FillBlob(c) PROVE Usable(b)'
  BY <1>0, <1>2 DEF Usable, CreateBlob, FillBlob, Filled
<1>3. CASE AddStep
  BY <1>1, <1>2, <1>3 DEF AddStep, StoreNext, Install, GoWrong
<1>4. CASE UNCHANGED vars
  BY <1>1, <1>4 DEF vars, store
<1>5. QED
  BY <1>1, <1>3, <1>4, Actors, CommitterStep

\* How the object database changes.
LEMMA DatabaseSteps ==
  ASSUME [Next]_vars
  PROVE  \/ made' = made /\ filled' = filled
         \/ \E p \in Committer :
              \/ CreateTree(p) /\ made' = made \cup {TreeObject(p)} /\ filled' = filled
              \/ CreateCommit(p) /\ made' = made \cup {NewCommit(p)} /\ filled' = filled
              \/ WriteTree(p) /\ made' = made /\ filled' = filled \cup {TreeObject(p)}
              \/ WriteCommit(p) /\ made' = made /\ filled' = filled \cup {NewCommit(p)}
<1> USE DEF database
<1>1. CASE AddStep \/ UNCHANGED vars
  BY <1>1 DEF AddStep, vars
<1>2. ASSUME NEW p \in Committer, Start(p) \/ Step(p) \/ CallFails(p) \/ Crash(p)
      PROVE  \/ made' = made /\ filled' = filled
             \/ CreateTree(p) /\ made' = made \cup {TreeObject(p)} /\ filled' = filled
             \/ CreateCommit(p) /\ made' = made \cup {NewCommit(p)} /\ filled' = filled
             \/ WriteTree(p) /\ made' = made /\ filled' = filled \cup {TreeObject(p)}
             \/ WriteCommit(p) /\ made' = made /\ filled' = filled \cup {NewCommit(p)}
  <2>1. CASE \/ Start(p) \/ ReadIndex(p) \/ NoCache(p) \/ CheckEntry(p) \/ CheckFails(p)
             \/ EncodeTree(p) \/ TreeExists(p) \/ ParseParents(p) \/ BadParent(p)
             \/ CommitExists(p) \/ CallFails(p) \/ Crash(p)
    BY <2>1 DEF Start, ReadIndex, NoCache, CheckEntry, CheckFails, EncodeTree, TreeExists,
       ParseParents, BadParent, CommitExists, CallFails, Crash
  <2>2. CASE CreateTree(p) \/ WriteTree(p) \/ CreateCommit(p) \/ WriteCommit(p)
    BY <2>2 DEF CreateTree, WriteTree, CreateCommit, WriteCommit
  <2>3. QED
    BY <1>2, <2>1, <2>2 DEF Step
<1>3. QED
  BY <1>1, <1>2, Actors

\* Objects are only ever added.
LEMMA DatabaseGrows ==
  ASSUME [Next]_vars
  PROVE  made \subseteq made' /\ filled \subseteq filled'
BY DatabaseSteps

\* The contents of a tree, entry by entry.
LEMMA TreeEntries ==
  ASSUME NEW c \in Contents
  PROVE  /\ c \in Seq(Entry) /\ TreeOf(c) \in Trees
         /\ Len(TreeOf(c)) = Len(c)
         /\ \A i \in 1 .. Len(c) : TreeOf(c)[i].sha1 = c[i].sha1 /\ c[i].sha1 \in Blob
<1>1. c \in Seq(Entry) /\ Len(c) \in Nat
  BY ContentsAssumption
<1>2. TreeOf(c) \in Trees
  BY DEF Trees
<1>3. DOMAIN TreeOf(c) = 1 .. Len(c)
  BY DEF TreeOf
<1>4. Len(TreeOf(c)) = Len(c)
  <2>1. TreeOf(c) \in Seq({TreeOf(c)[i] : i \in 1 .. Len(c)})
    BY <1>1, SMTT(30) DEF TreeOf
  <2>2. QED
    BY <1>1, <1>3, <2>1
<1>5. ASSUME NEW i \in 1 .. Len(c) PROVE TreeOf(c)[i].sha1 = c[i].sha1 /\ c[i].sha1 \in Blob
  <2>1. c[i] \in Entry
    BY <1>1
  <2>2. QED
    BY <2>1 DEF TreeOf, Entry
<1>6. QED
  BY <1>1, <1>2, <1>4, <1>5

\* The arguments that commit_tree visits.
LEMMA VisitedArgs ==
  ASSUME NEW a \in Argvs \cup {<<>>}
  PROVE  /\ Visited(a) \in Seq(Word)
         /\ Len(a) <= 1 => Visited(a) = a
<1>1. a \in Seq(Word) /\ Len(a) \in Nat
  <2>1. <<>> \in Seq(Word)
    OBVIOUS
  <2>2. a \in Seq(Word)
    BY <2>1, CommitAssumption
  <2>3. QED
    BY <2>2
<1>2. (Len(a) + 1) \div 2 \in Nat
  BY <1>1
<1>3. ASSUME NEW i \in 1 .. (Len(a) + 1) \div 2 PROVE a[2 * i - 1] \in Word
  <2>1. 2 * i - 1 \in 1 .. Len(a)
    BY <1>1
  <2>2. QED
    BY <1>1, <2>1
<1>4. Visited(a) \in Seq(Word)
  BY <1>2, <1>3 DEF Visited
<1>5. ASSUME Len(a) = 0 PROVE Visited(a) = a
  <2>1. DOMAIN Visited(a) = 1 .. 0 /\ DOMAIN a = 1 .. 0
    BY <1>1, <1>5 DEF Visited
  <2>2. Len(Visited(a)) = 0
    BY <1>4, <2>1
  <2>3. QED
    BY <1>1, <1>4, <1>5, <2>2
<1>6. ASSUME Len(a) = 1 PROVE Visited(a) = a
  <2>1. (Len(a) + 1) \div 2 = 1
    BY <1>6
  <2>2. Visited(a) = [i \in 1 .. 1 |-> a[2 * i - 1]]
    BY <2>1 DEF Visited
  <2>3. Len(Visited(a)) = 1 /\ Visited(a)[1] = a[1]
    BY <2>2
  <2>4. QED
    BY <1>1, <1>4, <1>6, <2>3
<1>7. Len(a) <= 1 => Len(a) = 0 \/ Len(a) = 1
  <2>1. \A n \in Nat : n <= 1 => n = 0 \/ n = 1
    OBVIOUS
  <2>2. QED
    BY <1>1, <2>1, Zenon
<1>8. QED
  BY <1>4, <1>5, <1>6, <1>7

-----------------------------------------------------------------------------
\* Types.

ProcessTypeOK ==
  /\ pc \in [Committer -> Pc]
  /\ argv \in [Committer -> Argvs \cup {<<>>}]
  /\ snap \in [Committer -> Contents]
  /\ checked \in [Committer -> Nat]
  /\ name \in [Committer -> Trees \cup {OtherName}]
  /\ commit \in [Committer -> CommitObject]

\* An ended process has well-typed memory.
LEMMA ExitType == ASSUME ProcessTypeOK, NEW p \in Committer, Exit(p) PROVE ProcessTypeOK'
<1>1. NoCommit \in CommitObject
  <2>1. (CHOOSE x \in Info : TRUE) \in Info
    BY CommitAssumption
  <2>2. <<>> \in Seq(Hash)
    OBVIOUS
  <2>3. QED
    BY <2>1, <2>2 DEF NoCommit, CommitObject
<1>2. <<>> \in Contents /\ "idle" \in Pc
  BY CommitAssumption DEF Pc
<1>3. commit' \in [Committer -> CommitObject]
  BY <1>1 DEF Exit, ProcessTypeOK
<1>4. snap' \in [Committer -> Contents] /\ pc' \in [Committer -> Pc]
  BY <1>2 DEF Exit, ProcessTypeOK, Goto
<1>5. QED
  BY <1>3, <1>4 DEF Exit, ProcessTypeOK

\* The name that strcpy leaves is a tree's or a wrong one.
LEMMA CopyType ==
  ASSUME ProcessTypeOK, NEW p \in Committer, CopyName(p)
  PROVE  /\ name' \in [Committer -> Trees \cup {OtherName}]
         /\ name'[p] = TreeOf(snap[p]) \/ (name'[p] = OtherName /\ TreeOf(snap[p]) \in HasZero)
<1>1. snap[p] \in Contents
  BY DEF ProcessTypeOK
<1>2. TreeOf(snap[p]) \in Trees
  BY <1>1, TreeEntries
<1>3. QED
  BY <1>2 DEF CopyName, ProcessTypeOK

\* The end of write_tree keeps memory well typed.
LEMMA TreeDoneType ==
  ASSUME ProcessTypeOK, NEW p \in Committer, TreeDone(p) PROVE ProcessTypeOK'
<1>1. name' \in [Committer -> Trees \cup {OtherName}]
  BY CopyType DEF TreeDone
<1>2. pc' \in [Committer -> Pc]
  BY DEF TreeDone, Goto, Pc, ProcessTypeOK
<1>3. QED
  BY <1>1, <1>2 DEF TreeDone, ProcessTypeOK

\* The memory of the processes keeps its type.
LEMMA NextProcessType ==
  ASSUME ProcessTypeOK, StoreTypeOK, [Next]_vars PROVE ProcessTypeOK'
<1> USE DEF process, store, database
<1>1. CASE AddStep \/ UNCHANGED vars
  BY <1>1 DEF AddStep, vars, ProcessTypeOK
<1>2. ASSUME NEW p \in Committer, Start(p) \/ Step(p) \/ CallFails(p) \/ Crash(p)
      PROVE  ProcessTypeOK'
  <2>1. CASE Start(p)
    BY <2>1 DEF Start, ProcessTypeOK, Goto, Pc
  <2>2. CASE ReadIndex(p)
    <3>1. index \in Contents
      BY <2>2 DEF ReadIndex, HasEntries, StoreTypeOK
    <3>2. snap' \in [Committer -> Contents]
      BY <2>2, <3>1 DEF ReadIndex, ProcessTypeOK
    <3>3. pc' \in [Committer -> Pc]
      BY <2>2 DEF ReadIndex, ProcessTypeOK, Goto, Pc
    <3>4. QED
      BY <2>2, <3>2, <3>3 DEF ReadIndex, ProcessTypeOK
  <2>3. CASE NoCache(p) \/ CheckFails(p) \/ BadParent(p) \/ CommitExists(p) \/ WriteCommit(p) \/ Crash(p)
    BY <2>3, ExitType
       DEF NoCache, CheckFails, BadParent, CommitExists, WriteCommit, Crash, Announce
  <2>4. CASE CheckEntry(p)
    BY <2>4 DEF CheckEntry, ProcessTypeOK
  <2>5. CASE EncodeTree(p) \/ CreateTree(p) \/ CreateCommit(p)
    BY <2>5 DEF EncodeTree, CreateTree, CreateCommit, Goto, Pc, ProcessTypeOK
  <2>6. CASE TreeExists(p) \/ WriteTree(p)
    BY <2>6, TreeDoneType DEF TreeExists, WriteTree
  <2>7. CASE ParseParents(p)
    <3>1. PICK x \in Info :
            commit' = [commit EXCEPT ![p] =
                         [tree |-> name[p], parents |-> Visited(argv[p]), info |-> x]]
      BY <2>7 DEF ParseParents
    <3>2. Visited(argv[p]) \in Seq(Word)
      BY VisitedArgs DEF ProcessTypeOK
    <3>3. \A i \in 1 .. Len(Visited(argv[p])) : Visited(argv[p])[i] \in Hash
      BY <2>7 DEF ParseParents, ParentsValid
    <3>4. Visited(argv[p]) \in Seq(Hash)
      BY <3>2, <3>3
    <3>5. name[p] \in Trees \cup {OtherName}
      BY DEF ProcessTypeOK
    <3>6. [tree |-> name[p], parents |-> Visited(argv[p]), info |-> x] \in CommitObject
      BY <3>4, <3>5 DEF CommitObject
    <3>7. commit' \in [Committer -> CommitObject]
      BY <3>1, <3>6 DEF ProcessTypeOK
    <3>8. pc' \in [Committer -> Pc]
      BY <2>7 DEF ParseParents, Goto, Pc, ProcessTypeOK
    <3>9. QED
      BY <2>7, <3>7, <3>8 DEF ParseParents, ProcessTypeOK
  <2>8. CASE CallFails(p)
    BY <2>8, ExitType, TreeDoneType DEF CallFails, Announce
  <2>9. QED
    BY <1>2, <2>1, <2>2, <2>3, <2>4, <2>5, <2>6, <2>7, <2>8 DEF Step
<1>3. QED
  BY <1>1, <1>2, Actors

\* The store keeps its type.
LEMMA NextStoreType == ASSUME StoreTypeOK, [Next]_vars PROVE StoreTypeOK'
<1> USE DEF store
<1>1. CASE AddStep
  BY <1>1 DEF AddStep, StoreNext, Install, CreateBlob, FillBlob, GoWrong, StoreTypeOK,
               Filled, Held
<1>2. CASE UNCHANGED vars
  BY <1>2 DEF vars, StoreTypeOK
<1>3. ASSUME NEW p \in Committer, Start(p) \/ Step(p) \/ CallFails(p) \/ Crash(p)
      PROVE  StoreTypeOK'
  <2>1. faulty' \in BOOLEAN
    <3>1. CASE Start(p) \/ CallFails(p) \/ Crash(p)
      BY <3>1 DEF Start, CallFails, Crash, StoreTypeOK
    <3>2. CASE \/ ReadIndex(p) \/ NoCache(p) \/ CheckEntry(p) \/ CheckFails(p)
               \/ EncodeTree(p) \/ CreateTree(p) \/ TreeExists(p) \/ WriteTree(p)
      BY <3>2 DEF ReadIndex, NoCache, CheckEntry, CheckFails, EncodeTree, CreateTree,
         TreeExists, WriteTree, StoreTypeOK
    <3>3. CASE \/ ParseParents(p) \/ BadParent(p) \/ CreateCommit(p) \/ CommitExists(p)
               \/ WriteCommit(p)
      BY <3>3 DEF ParseParents, BadParent, CreateCommit, CommitExists, WriteCommit, StoreTypeOK
    <3>4. QED
      BY <1>3, <3>1, <3>2, <3>3 DEF Step
  <2>2. QED
    BY <1>3, <2>1, CommitterStep DEF StoreTypeOK
<1>4. QED
  BY <1>1, <1>2, <1>3, Actors

\* How the announcements change.
LEMMA AnnouncedSteps ==
  ASSUME [Next]_vars
  PROVE  \/ announced' = announced
         \/ \E p \in Committer :
              /\ pc[p] \in {"commit", "write_commit"}
              /\ announced' = announced \cup
                   {[commit |-> commit[p], of |-> snap[p], argv |-> argv[p]]}
<1>1. CASE AddStep \/ UNCHANGED vars
  BY <1>1 DEF AddStep, vars
<1>2. ASSUME NEW p \in Committer, Start(p) \/ Step(p) \/ CallFails(p) \/ Crash(p)
      PROVE  \/ announced' = announced
             \/ pc[p] \in {"commit", "write_commit"} /\ Announce(p)
  <2>1. CASE \/ Start(p) \/ ReadIndex(p) \/ NoCache(p) \/ CheckEntry(p) \/ CheckFails(p)
             \/ EncodeTree(p) \/ ParseParents(p) \/ BadParent(p) \/ Crash(p)
             \/ CreateTree(p) \/ CreateCommit(p)
    BY <2>1 DEF Start, ReadIndex, NoCache, CheckEntry, CheckFails, EncodeTree,
       ParseParents, BadParent, Crash, CreateTree, CreateCommit
  <2>2. CASE TreeExists(p) \/ WriteTree(p) \/ CommitExists(p) \/ WriteCommit(p) \/ CallFails(p)
    BY <2>2 DEF TreeExists, WriteTree, CommitExists, WriteCommit, CallFails, TreeDone
  <2>3. QED
    BY <1>2, <2>1, <2>2 DEF Step
<1>3. QED
  BY <1>1, <1>2, Actors DEF Announce

\* The types hold after every step.
LEMMA NextType == Inv /\ [Next]_vars => TypeOK'
<1> SUFFICES ASSUME Inv, [Next]_vars PROVE TypeOK'
  OBVIOUS
<1>0. StoreTypeOK /\ ProcessTypeOK /\ TypeOK
  BY DEF Inv, TypeOK, ProcessTypeOK
<1>1. StoreTypeOK' /\ ProcessTypeOK'
  BY <1>0, NextStoreType, NextProcessType
<1>2. ASSUME NEW p \in Committer
      PROVE  TreeObject(p) \in Objects /\ NewCommit(p) \in Objects
  <2>1. snap[p] \in Contents /\ commit[p] \in CommitObject
    BY <1>0 DEF ProcessTypeOK
  <2>2. TreeOf(snap[p]) \in Trees
    BY <2>1, TreeEntries
  <2>3. QED
    BY <2>1, <2>2 DEF TreeObject, NewCommit, Objects
<1>3. made' \subseteq Objects
  BY <1>0, <1>2, DatabaseSteps DEF TypeOK
<1>4. filled' \subseteq made'
  <2>1. ASSUME NEW p \in Committer, WriteTree(p) PROVE TreeObject(p) \in made
    BY <2>1 DEF Inv, Building, WriteTree
  <2>2. ASSUME NEW p \in Committer, WriteCommit(p) PROVE NewCommit(p) \in made
    BY <2>2 DEF Inv, Building, WriteCommit
  <2>3. QED
    BY <1>0, <2>1, <2>2, DatabaseSteps DEF TypeOK
<1>5. runs' \in Nat
  <2>1. CASE AddStep \/ UNCHANGED vars
    BY <1>0, <2>1 DEF AddStep, vars, TypeOK
  <2>2. ASSUME NEW p \in Committer, Start(p) \/ Step(p) \/ CallFails(p) \/ Crash(p)
        PROVE  runs' \in Nat
    <3>1. CASE \/ Start(p) \/ ReadIndex(p) \/ NoCache(p) \/ CheckEntry(p) \/ CheckFails(p)
               \/ EncodeTree(p) \/ ParseParents(p) \/ BadParent(p) \/ Crash(p)
               \/ CreateTree(p) \/ CreateCommit(p)
      BY <1>0, <3>1 DEF Start, ReadIndex, NoCache, CheckEntry, CheckFails, EncodeTree,
         ParseParents, BadParent, Crash, CreateTree, CreateCommit, TypeOK
    <3>2. CASE TreeExists(p) \/ WriteTree(p) \/ CommitExists(p) \/ WriteCommit(p) \/ CallFails(p)
      BY <1>0, <3>2 DEF TreeExists, WriteTree, CommitExists, WriteCommit, CallFails, TreeDone,
         Announce, TypeOK
    <3>3. QED
      BY <2>2, <3>1, <3>2 DEF Step
  <2>3. QED
    BY <2>1, <2>2, Actors
<1>6. announced' \subseteq [commit : CommitObject, of : Contents, argv : Argvs \cup {<<>>}]
  <2>1. ASSUME NEW p \in Committer
        PROVE  [commit |-> commit[p], of |-> snap[p], argv |-> argv[p]]
                 \in [commit : CommitObject, of : Contents, argv : Argvs \cup {<<>>}]
    BY <1>0 DEF ProcessTypeOK
  <2>2. QED
    BY <1>0, <2>1, AnnouncedSteps DEF TypeOK
<1>7. QED
  BY <1>1, <1>3, <1>4, <1>5, <1>6 DEF TypeOK, ProcessTypeOK

-----------------------------------------------------------------------------
\* The inductive invariant.

\* A process that does not move goes on building what it was building.
LEMMA BystanderBuilds ==
  ASSUME Inv, [Next]_vars, NEW q \in Committer,
         UNCHANGED <<pc[q], argv[q], snap[q], name[q], commit[q]>>
  PROVE  Building(q)'
<1>1. Building(q) /\ StoreTypeOK /\ snap[q] \in Contents
  BY DEF Inv, TypeOK
<1>2. made \subseteq made' /\ (faulty => faulty')
  BY DatabaseGrows, FaultsStay
<1>3. \A i \in 1 .. Len(snap[q]) : snap[q][i].sha1 \in Blob /\ Usable(snap[q][i].sha1)
  BY <1>1, TreeEntries DEF Building
<1>4. \A i \in 1 .. Len(snap'[q]) : Usable(snap[q][i].sha1)'
  <2> SUFFICES ASSUME NEW i \in 1 .. Len(snap'[q]) PROVE Usable(snap[q][i].sha1)'
    OBVIOUS
  <2>1. PICK b \in Blob : b = snap[q][i].sha1 /\ Usable(b)
    BY <1>3
  <2>2. Usable(b)'
    BY <1>1, <2>1, UsableStays
  <2>3. QED
    BY <2>1, <2>2 DEF Usable
<1>5. TreeObject(q)' = TreeObject(q) /\ NewCommit(q)' = NewCommit(q) /\ TreeOf(snap[q])' = TreeOf(snap[q])
  BY DEF TreeObject, NewCommit, TreeOf
<1>6. Visited(argv[q])' = Visited(argv[q])
  BY DEF Visited
<1>7. QED
  BY <1>1, <1>2, <1>4, <1>5, <1>6 DEF Building

\* The snapshot of a process stays usable, also the one it has just read.
LEMMA SnapStays ==
  ASSUME Inv, [Next]_vars, NEW p \in Committer,
         snap'[p] = snap[p] \/ snap'[p] = <<>> \/ ReadIndex(p)
  PROVE  \A i \in 1 .. Len(snap'[p]) : Usable(snap[p][i].sha1)'
<1> SUFFICES ASSUME NEW i \in 1 .. Len(snap'[p]) PROVE Usable(snap[p][i].sha1)'
  OBVIOUS
<1>0. StoreTypeOK /\ snap \in [Committer -> Contents] /\ Building(p)
  BY DEF Inv, TypeOK
<1>1. ASSUME NEW b \in Blob, Usable(b), b = snap'[p][i].sha1 PROVE Usable(snap[p][i].sha1)'
  <2>1. Usable(b)'
    BY <1>0, <1>1, UsableStays
  <2>2. QED
    BY <1>1, <2>1 DEF Usable
<1>2. CASE snap'[p] = snap[p]
  <2>1. snap[p] \in Contents
    BY <1>0
  <2>2. snap[p][i].sha1 \in Blob /\ Usable(snap[p][i].sha1)
    BY <1>0, <1>2, <2>1, TreeEntries DEF Building
  <2>3. QED
    BY <1>1, <1>2, <2>2
<1>3. CASE snap'[p] = <<>>
  BY <1>3
<1>4. CASE ReadIndex(p)
  <2>1. snap'[p] = index /\ index # NoFile /\ index \in Contents
    BY <1>0, <1>4 DEF ReadIndex, HasEntries, StoreTypeOK
  <2>2. index[i].sha1 \in Blob
    BY <2>1, TreeEntries
  <2>3. Usable(index[i].sha1)
    BY <2>1 DEF Inv
  <2>4. QED
    BY <1>1, <2>1, <2>2, <2>3
<1>5. QED
  BY <1>2, <1>3, <1>4

\* A step of one process leaves the memory of the others alone.
LEMMA OthersUnchanged ==
  ASSUME TypeOK, NEW p \in Committer, Start(p) \/ Step(p) \/ CallFails(p) \/ Crash(p),
         NEW q \in Committer, q # p
  PROVE  UNCHANGED <<pc[q], argv[q], snap[q], name[q], commit[q]>>
<1> USE DEF process, Goto, TypeOK
<1>1. CASE Exit(p)
  BY <1>1 DEF Exit
<1>2. CASE TreeDone(p)
  BY <1>2 DEF TreeDone, CopyName
<1>3. CASE \/ Start(p) \/ ReadIndex(p) \/ CheckEntry(p) \/ EncodeTree(p) \/ CreateTree(p)
           \/ ParseParents(p) \/ CreateCommit(p)
  BY <1>3 DEF Start, ReadIndex, CheckEntry, EncodeTree, CreateTree, ParseParents, CreateCommit
<1>4. CASE \/ NoCache(p) \/ CheckFails(p) \/ BadParent(p) \/ CommitExists(p)
           \/ WriteCommit(p) \/ Crash(p)
  BY <1>1, <1>4 DEF NoCache, CheckFails, BadParent, CommitExists, WriteCommit, Crash, Announce
<1>5. CASE TreeExists(p) \/ WriteTree(p) \/ CallFails(p)
  BY <1>1, <1>2, <1>5 DEF TreeExists, WriteTree, CallFails, Announce
<1>6. QED
  BY <1>3, <1>4, <1>5 DEF Step

\* Building is kept by the process that moves.
LEMMA MoverBuilds ==
  ASSUME Inv, [Next]_vars, NEW p \in Committer, Start(p) \/ Step(p) \/ CallFails(p) \/ Crash(p)
  PROVE  Building(p)'
<1> USE DEF process
<1>0. /\ TypeOK /\ ProcessTypeOK /\ Building(p)
      /\ made \subseteq made' /\ (faulty => faulty')
  BY DatabaseGrows, FaultsStay DEF Inv, TypeOK, ProcessTypeOK
<1>1. ASSUME \/ snap'[p] = snap[p] \/ snap'[p] = <<>> \/ ReadIndex(p),
             pc'[p] \in {"idle", "read", "access", "tree"}
      PROVE  Building(p)'
  BY <1>1, SnapStays DEF Building
<1>2. CASE Exit(p)
  <2>1. snap'[p] = <<>> /\ pc'[p] = "idle"
    BY <1>0, <1>2 DEF Exit, Goto, ProcessTypeOK
  <2>2. QED
    BY <1>1, <2>1
<1>3. ASSUME TreeDone(p), TreeObject(p) \in made' \/ faulty' PROVE Building(p)'
  <2>1. /\ pc'[p] = "args" /\ snap' = snap
        /\ name'[p] = TreeOf(snap[p]) \/ (name'[p] = OtherName /\ TreeOf(snap[p]) \in HasZero)
    BY <1>0, <1>3, CopyType DEF TreeDone, Goto, ProcessTypeOK
  <2>2. TreeOf(snap[p])' = TreeOf(snap[p])
    BY <2>1 DEF TreeOf
  <2>3. /\ TreeOf(snap[p]) \notin HasZero => name'[p] = TreeOf(snap[p])
        /\ name'[p] # OtherName /\ ~faulty' => [type |-> "tree", of |-> name'[p]] \in made'
    BY <1>3, <2>1 DEF TreeObject
  <2>4. \A i \in 1 .. Len(snap'[p]) : Usable(snap[p][i].sha1)'
    BY <2>1, SnapStays
  <2>5. QED
    BY <2>1, <2>2, <2>3, <2>4 DEF Building
<1>4. CASE Start(p) \/ ReadIndex(p) \/ CheckEntry(p) \/ EncodeTree(p)
  <2>1. pc'[p] \in {"read", "access", "tree"}
    BY <1>0, <1>4 DEF Start, ReadIndex, CheckEntry, EncodeTree, Goto, ProcessTypeOK
  <2>2. snap'[p] = snap[p] \/ ReadIndex(p)
    BY <1>4 DEF Start, CheckEntry, EncodeTree
  <2>3. QED
    BY <1>1, <2>1, <2>2
<1>5. CASE \/ NoCache(p) \/ CheckFails(p) \/ BadParent(p) \/ CommitExists(p)
           \/ WriteCommit(p) \/ Crash(p)
  BY <1>2, <1>5 DEF NoCache, CheckFails, BadParent, CommitExists, WriteCommit, Crash, Announce
<1>6. CASE CreateTree(p)
  <2>1. /\ pc'[p] = "write_tree" /\ snap' = snap /\ TreeObject(p) \in made'
    BY <1>0, <1>6 DEF CreateTree, Goto, ProcessTypeOK
  <2>2. TreeObject(p)' = TreeObject(p)
    BY <2>1 DEF TreeObject, TreeOf
  <2>3. \A i \in 1 .. Len(snap'[p]) : Usable(snap[p][i].sha1)'
    BY <2>1, SnapStays
  <2>4. QED
    BY <2>1, <2>2, <2>3 DEF Building
<1>7. CASE TreeExists(p) \/ WriteTree(p)
  <2>1. TreeDone(p) /\ TreeObject(p) \in made'
    BY <1>0, <1>7 DEF TreeExists, WriteTree, Building
  <2>2. QED
    BY <1>3, <2>1
<1>8. CASE ParseParents(p)
  <2>1. PICK x \in Info :
          commit' = [commit EXCEPT ![p] =
                       [tree |-> name[p], parents |-> Visited(argv[p]), info |-> x]]
    BY <1>8 DEF ParseParents
  <2>2. commit'[p].tree = name[p] /\ commit'[p].parents = Visited(argv[p])
    BY <1>0, <2>1 DEF ProcessTypeOK
  <2>3. pc[p] = "args" /\ pc'[p] = "commit" /\ snap' = snap /\ argv' = argv
    BY <1>0, <1>8 DEF ParseParents, Goto, ProcessTypeOK
  <2>4. /\ TreeOf(snap[p])' = TreeOf(snap[p]) /\ Visited(argv[p])' = Visited(argv[p])
    BY <2>3 DEF TreeOf, Visited
  <2>5. /\ TreeOf(snap[p]) \notin HasZero => commit'[p].tree = TreeOf(snap[p])
        /\ commit'[p].tree # OtherName /\ ~faulty' =>
             [type |-> "tree", of |-> commit'[p].tree] \in made'
    BY <1>0, <2>2, <2>3 DEF Building
  <2>6. \A i \in 1 .. Len(snap'[p]) : Usable(snap[p][i].sha1)'
    BY <2>3, SnapStays
  <2>7. QED
    BY <2>2, <2>3, <2>4, <2>5, <2>6 DEF Building
<1>9. CASE CreateCommit(p)
  <2>1. /\ pc[p] = "commit" /\ pc'[p] = "write_commit" /\ NewCommit(p) \in made'
        /\ snap' = snap /\ commit' = commit /\ argv' = argv
    BY <1>0, <1>9 DEF CreateCommit, Goto, ProcessTypeOK
  <2>2. /\ NewCommit(p)' = NewCommit(p) /\ TreeOf(snap[p])' = TreeOf(snap[p])
        /\ Visited(argv[p])' = Visited(argv[p])
    BY <2>1 DEF NewCommit, TreeOf, Visited
  <2>3. \A i \in 1 .. Len(snap'[p]) : Usable(snap[p][i].sha1)'
    BY <2>1, SnapStays
  <2>4. QED
    BY <1>0, <2>1, <2>2, <2>3 DEF Building
<1>10. CASE CallFails(p)
  BY <1>2, <1>3, <1>10 DEF CallFails, Announce
<1>11. QED
  BY <1>4, <1>5, <1>6, <1>7, <1>8, <1>9, <1>10 DEF Step

\* The index names usable objects, old or new.
LEMMA IndexUsable ==
  ASSUME Inv, [Next]_vars, index' # NoFile
  PROVE  \A i \in 1 .. Len(index') : Usable(index[i].sha1)'
<1> SUFFICES ASSUME NEW i \in 1 .. Len(index') PROVE Usable(index[i].sha1)'
  OBVIOUS
<1>0. StoreTypeOK /\ StoreTypeOK'
  BY NextStoreType DEF Inv, TypeOK
<1>1. index' \in Contents
  BY <1>0 DEF StoreTypeOK
<1>2. index'[i].sha1 \in Blob
  BY <1>1, TreeEntries
<1>3. ASSUME Usable(index'[i].sha1) PROVE Usable(index[i].sha1)'
  <2>1. PICK b \in Blob : b = index'[i].sha1 /\ Usable(b)
    BY <1>2, <1>3
  <2>2. Usable(b)'
    BY <1>0, <2>1, UsableStays
  <2>3. QED
    BY <2>1, <2>2 DEF Usable
<1>4. CASE index' = index
  BY <1>3, <1>4 DEF Inv
<1>5. CASE AddStep
  <2>1. CASE Install
    BY <1>3, <2>1 DEF Install
  <2>2. QED
    BY <1>4, <1>5, <2>1 DEF AddStep, StoreNext, CreateBlob, FillBlob, GoWrong
<1>6. QED
  BY <1>4, <1>5, Actors, CommitterStep DEF vars, store

\* A tree is made of a snapshot whose blobs are usable.
LEMMA NextTreeBlobs == ASSUME Inv, [Next]_vars PROVE TreeBlobsUsable'
<1> SUFFICES ASSUME NEW o \in made', o.type = "tree", NEW i \in 1 .. Len(o.of)
             PROVE  Usable(o.of[i].sha1)'
  BY DEF TreeBlobsUsable
<1>0. StoreTypeOK /\ made \subseteq Objects
  BY DEF Inv, TypeOK
<1>1. ASSUME NEW c \in Contents, o.of = TreeOf(c), Usable(o.of[i].sha1)
      PROVE  Usable(o.of[i].sha1)'
  <2>1. o.of[i].sha1 \in Blob
    BY <1>1, TreeEntries
  <2>2. PICK b \in Blob : b = o.of[i].sha1 /\ Usable(b)
    BY <1>1, <2>1
  <2>3. Usable(b)'
    BY <1>0, <2>2, UsableStays
  <2>4. QED
    BY <2>2, <2>3
<1>2. CASE o \in made
  <2>1. o.of \in Trees
    BY <1>0, <1>2 DEF Objects
  <2>2. PICK c \in Contents : o.of = TreeOf(c)
    BY <2>1 DEF Trees
  <2>3. QED
    BY <1>1, <1>2, <2>2 DEF Inv, TreeBlobsUsable
<1>3. ASSUME NEW p \in Committer, o = TreeObject(p) PROVE Usable(o.of[i].sha1)'
  <2>1. snap[p] \in Contents /\ Building(p)
    BY DEF Inv, TypeOK
  <2>2. o.of = TreeOf(snap[p])
    BY <1>3 DEF TreeObject
  <2>3. Usable(o.of[i].sha1)
    BY <2>1, <2>2, TreeEntries DEF Building
  <2>4. QED
    BY <1>1, <2>1, <2>2, <2>3
<1>4. ASSUME NEW p \in Committer PROVE o # NewCommit(p)
  BY DEF NewCommit
<1>5. QED
  BY <1>2, <1>3, <1>4, DatabaseSteps

\* A commit is made when its tree has a file.
LEMMA NextCommitTree == ASSUME Inv, [Next]_vars PROVE CommitTreeExists'
<1> SUFFICES ASSUME NEW o \in made', o.type = "commit", o.of.tree # OtherName, ~faulty'
             PROVE  [type |-> "tree", of |-> o.of.tree] \in made'
  BY DEF CommitTreeExists
<1>0. ~faulty /\ made \subseteq made'
  BY FaultsStay, DatabaseGrows
<1>1. CASE o \in made
  BY <1>0, <1>1 DEF Inv, CommitTreeExists
<1>2. ASSUME NEW p \in Committer, CreateCommit(p), o = NewCommit(p)
      PROVE  [type |-> "tree", of |-> o.of.tree] \in made'
  <2>1. o.of = commit[p] /\ pc[p] = "commit" /\ Building(p)
    BY <1>2 DEF NewCommit, CreateCommit, Inv
  <2>2. QED
    BY <1>0, <2>1 DEF Building
<1>3. ASSUME NEW p \in Committer PROVE o # TreeObject(p)
  BY DEF TreeObject
<1>4. QED
  BY <1>1, <1>2, <1>3, DatabaseSteps

\* From "write_tree" and "write_commit" a process goes on by writing or by a fault.
LEMMA FromWrite ==
  ASSUME NEW p \in Committer, Start(p) \/ Step(p) \/ CallFails(p) \/ Crash(p),
         pc[p] \in {"write_tree", "write_commit"}, ~faulty'
  PROVE  \/ pc[p] = "write_tree" /\ WriteTree(p)
         \/ pc[p] = "write_commit" /\ WriteCommit(p)
BY DEF Step, Start, ReadIndex, NoCache, CheckEntry, CheckFails, EncodeTree, CreateTree,
   TreeExists, WriteTree, ParseParents, BadParent, CreateCommit, CommitExists, WriteCommit,
   CallFails, Crash

\* Without faults a writer leaves a partial object only by filling it.
LEMMA NextPartial == ASSUME Inv, [Next]_vars PROVE PartialHasWriter'
<1> SUFFICES ASSUME NEW o \in made' \ filled', ~faulty'
             PROVE  \E p \in Committer :
                      \/ pc'[p] = "write_tree" /\ o = TreeObject(p)'
                      \/ pc'[p] = "write_commit" /\ o = NewCommit(p)'
  BY DEF PartialHasWriter
<1>0. TypeOK /\ ~faulty /\ filled \subseteq filled'
  BY FaultsStay, DatabaseGrows DEF Inv
<1>1. CASE o \in made
  <2>1. PICK q \in Committer : \/ pc[q] = "write_tree" /\ o = TreeObject(q)
                               \/ pc[q] = "write_commit" /\ o = NewCommit(q)
    BY <1>0, <1>1 DEF Inv, PartialHasWriter
  <2>2. ASSUME UNCHANGED <<pc[q], argv[q], snap[q], name[q], commit[q]>>
        PROVE  \/ pc'[q] = "write_tree" /\ o = TreeObject(q)'
               \/ pc'[q] = "write_commit" /\ o = NewCommit(q)'
    <3>1. TreeObject(q)' = TreeObject(q) /\ NewCommit(q)' = NewCommit(q)
      BY <2>2 DEF TreeObject, NewCommit, TreeOf
    <3>2. QED
      BY <2>1, <2>2, <3>1
  <2>3. ASSUME Start(q) \/ Step(q) \/ CallFails(q) \/ Crash(q) PROVE FALSE
    <3>1. \/ pc[q] = "write_tree" /\ WriteTree(q) /\ o = TreeObject(q)
          \/ pc[q] = "write_commit" /\ WriteCommit(q) /\ o = NewCommit(q)
      BY <2>1, <2>3, FromWrite
    <3>2. QED
      BY <3>1 DEF WriteTree, WriteCommit
  <2>4. CASE AddStep \/ UNCHANGED vars
    BY <2>2, <2>4 DEF AddStep, vars, process
  <2>5. QED
    BY <1>0, <2>2, <2>3, <2>4, Actors, OthersUnchanged
<1>2. ASSUME NEW p \in Committer, CreateTree(p), o = TreeObject(p)
      PROVE  pc'[p] = "write_tree" /\ o = TreeObject(p)'
  BY <1>0, <1>2 DEF CreateTree, Goto, TypeOK, TreeObject, TreeOf, process
<1>3. ASSUME NEW p \in Committer, CreateCommit(p), o = NewCommit(p)
      PROVE  pc'[p] = "write_commit" /\ o = NewCommit(p)'
  BY <1>0, <1>3 DEF CreateCommit, Goto, TypeOK, NewCommit, process
<1>4. QED
  BY <1>1, <1>2, <1>3, DatabaseSteps

\* An announcement is of the commit that was built.
LEMMA NextAnnounced == ASSUME Inv, [Next]_vars PROVE AnnouncedAsRequested'
<1> SUFFICES ASSUME NEW a \in announced'
             PROVE  /\ TreeOf(a.of) \notin HasZero => a.commit.tree = TreeOf(a.of)
                    /\ Len(a.argv) <= 1 => a.commit.parents = a.argv
  BY DEF AnnouncedAsRequested
<1>1. CASE a \in announced
  BY <1>1 DEF Inv, AnnouncedAsRequested
<1>2. ASSUME NEW p \in Committer, pc[p] \in {"commit", "write_commit"},
             a = [commit |-> commit[p], of |-> snap[p], argv |-> argv[p]]
      PROVE  /\ TreeOf(a.of) \notin HasZero => a.commit.tree = TreeOf(a.of)
             /\ Len(a.argv) <= 1 => a.commit.parents = a.argv
  <2>1. a.commit = commit[p] /\ a.of = snap[p] /\ a.argv = argv[p]
    BY <1>2
  <2>2. Building(p) /\ argv[p] \in Argvs \cup {<<>>}
    BY DEF Inv, TypeOK
  <2>3. QED
    BY <1>2, <2>1, <2>2, VisitedArgs DEF Building
<1>3. QED
  BY <1>1, <1>2, AnnouncedSteps

\* Without faults an announcement comes after the file of the commit.
LEMMA NextStored == ASSUME Inv, [Next]_vars PROVE AnnouncedIsStored'
<1> SUFFICES ASSUME NEW a \in announced', ~faulty'
             PROVE  [type |-> "commit", of |-> a.commit] \in made'
  BY DEF AnnouncedIsStored
<1>0. ~faulty /\ made \subseteq made'
  BY FaultsStay, DatabaseGrows
<1>1. CASE a \in announced
  BY <1>0, <1>1 DEF Inv, AnnouncedIsStored
<1>2. ASSUME NEW p \in Committer, CommitExists(p) \/ WriteCommit(p)
      PROVE  NewCommit(p) \in made
  BY <1>2 DEF Inv, Building, CommitExists, WriteCommit
<1>3. ASSUME NEW p \in Committer, CommitExists(p) \/ WriteCommit(p), a \notin announced
      PROVE  [type |-> "commit", of |-> a.commit] \in made'
  <2>1. a = [commit |-> commit[p], of |-> snap[p], argv |-> argv[p]]
    BY <1>3 DEF CommitExists, WriteCommit, Announce
  <2>2. QED
    BY <1>0, <1>2, <1>3, <2>1 DEF NewCommit
<1>4. ASSUME NEW p \in Committer, Start(p) \/ Step(p) \/ CallFails(p) \/ Crash(p)
      PROVE  announced' = announced \/ CommitExists(p) \/ WriteCommit(p)
  BY <1>4 DEF Step, Start, ReadIndex, NoCache, CheckEntry, CheckFails, EncodeTree, CreateTree,
     TreeExists, WriteTree, TreeDone, ParseParents, BadParent, CreateCommit, CallFails, Crash
<1>5. CASE AddStep \/ UNCHANGED vars
  BY <1>1, <1>5 DEF AddStep, vars
<1>6. QED
  BY <1>1, <1>3, <1>4, <1>5, Actors

\* Inv is inductive.
LEMMA NextInv == Inv /\ [Next]_vars => Inv'
<1> SUFFICES ASSUME Inv, [Next]_vars PROVE Inv'
  OBVIOUS
<1>1. ASSUME NEW p \in Committer PROVE Building(p)'
  <2>1. CASE AddStep \/ UNCHANGED vars
    BY <2>1, BystanderBuilds DEF AddStep, vars, process
  <2>2. QED
    BY <2>1, Actors, MoverBuilds, BystanderBuilds, OthersUnchanged DEF Inv
<1>2. QED
  BY <1>1, NextType, IndexUsable, NextTreeBlobs, NextCommitTree, NextPartial, NextAnnounced,
     NextStored DEF Inv

\* Inv holds at the start.
LEMMA InitInv == Init => Inv
<1> SUFFICES ASSUME Init PROVE Inv
  OBVIOUS
<1>1. NoCommit \in CommitObject
  <2>1. (CHOOSE x \in Info : TRUE) \in Info
    BY CommitAssumption
  <2>2. <<>> \in Seq(Hash)
    OBVIOUS
  <2>3. QED
    BY <2>1, <2>2 DEF NoCommit, CommitObject
<1>2. TypeOK
  BY <1>1, CommitAssumption DEF Init, StoreInit, TypeOK, StoreTypeOK, Held, Pc
<1>3. ASSUME NEW p \in Committer PROVE Building(p)
  BY DEF Init, Building
<1>4. /\ TreeBlobsUsable /\ CommitTreeExists /\ PartialHasWriter
      /\ AnnouncedAsRequested /\ AnnouncedIsStored
  BY DEF Init, TreeBlobsUsable, CommitTreeExists, PartialHasWriter, AnnouncedAsRequested,
     AnnouncedIsStored
<1>5. index = NoFile
  BY DEF Init, StoreInit
<1>6. QED
  BY <1>2, <1>3, <1>4, <1>5 DEF Inv

\* Inv holds in every reachable state of git --commit, fair or not.
LEMMA SafetyInvariance == Init /\ [][Next]_vars => []Inv
BY InitInv, NextInv, PTL

THEOREM Invariance == Spec => []Inv
BY SafetyInvariance, PTL DEF Spec

(***************************************************************************)
(* Every variable keeps its type, for any number of processes and indexes. *)
(***************************************************************************)
THEOREM CommitTypes == Spec => []TypeOK
BY Invariance, PTL DEF Inv

(***************************************************************************)
(* A tree has the blobs of its entries, whatever git --add does between    *)
(* read_cache and the rename of the next index.                            *)
(***************************************************************************)
THEOREM TreesHaveBlobs == Spec => []TreeBlobsUsable
BY Invariance, PTL DEF Inv

(***************************************************************************)
(* Without faults no commit comes before the file of its tree, also when   *)
(* commit_tree relies on a tree that another process is creating.          *)
(***************************************************************************)
THEOREM CommitsHaveTrees == Spec => []CommitTreeExists
BY Invariance, PTL DEF Inv

(***************************************************************************)
(* Without faults a file that is not whole has a process that writes it.   *)
(***************************************************************************)
THEOREM PartialIsWritten == Spec => []PartialHasWriter
BY Invariance, PTL DEF Inv

(***************************************************************************)
(* A commit that was announced has the tree of the index it read and the   *)
(* parent given, but for trees with a zero byte in their name.             *)
(***************************************************************************)
THEOREM AnnouncedIsRequested == Spec => []AnnouncedAsRequested
BY Invariance, PTL DEF Inv

(***************************************************************************)
(* Without faults "Completed to commmit!" is printed of a commit that has  *)
(* a file.                                                                 *)
(***************************************************************************)
THEOREM AnnouncedHasFile == Spec => []AnnouncedIsStored
BY Invariance, PTL DEF Inv

-----------------------------------------------------------------------------
\* Progress.

\* The loop over active_cache stays within it.
Counted(p) ==
  /\ checked[p] <= Len(snap[p])
  /\ pc[p] \in {"idle", "read"} => checked[p] = 0

\* An upper bound of the system calls that a process still makes once it has
\* read the index.
StepsLeft(p) ==
  CASE pc[p] = "access" -> Len(snap[p]) - checked[p] + 6
    [] pc[p] = "tree" -> 5
    [] pc[p] = "write_tree" -> 4
    [] pc[p] = "args" -> 3
    [] pc[p] = "commit" -> 2
    [] pc[p] = "write_commit" -> 1
    [] OTHER -> 0

(***************************************************************************)
(* git --commit ends after a bounded number of its own system calls: once  *)
(* it has read the index, at most six more than the index has entries.     *)
(* Each call brings the end nearer, also one that fails, and no other      *)
(* process moves it away: nothing is retried and nothing is waited for.    *)
(***************************************************************************)
CommitEnds ==
  [][\A p \in Committer : pc[p] \notin {"idle", "read"} =>
       /\ StepsLeft(p)' \in 0 .. StepsLeft(p)
       /\ Step(p) \/ CallFails(p) \/ Crash(p) => StepsLeft(p)' < StepsLeft(p)]_vars

\* The length of what a process has read.
LEMMA SnapLength == ASSUME TypeOK, NEW p \in Committer PROVE Len(snap[p]) \in Nat
<1>1. snap[p] \in Seq(Entry)
  BY ContentsAssumption DEF TypeOK
<1>2. QED
  BY <1>1

\* A step of another process leaves a process where it is.
LEMMA Bystander ==
  ASSUME TypeOK, [Next]_vars, NEW p \in Committer,
         ~(Start(p) \/ Step(p) \/ CallFails(p) \/ Crash(p))
  PROVE  UNCHANGED <<pc[p], snap[p], checked[p]>>
<1>1. CASE AddStep \/ UNCHANGED vars
  BY <1>1 DEF AddStep, process, vars
<1>2. ASSUME NEW q \in Committer, q # p, Start(q) \/ Step(q) \/ CallFails(q) \/ Crash(q)
      PROVE  UNCHANGED <<pc[p], snap[p], checked[p]>>
  <2>1. UNCHANGED <<pc[p], snap[p]>>
    BY <1>2, OthersUnchanged
  <2>2. checked'[p] = checked[p]
    <3> USE DEF process, TypeOK
    <3>1. CASE Exit(q)
      BY <1>2, <3>1 DEF Exit
    <3>2. CASE TreeDone(q)
      BY <3>2 DEF TreeDone
    <3>3. CASE \/ Start(q) \/ ReadIndex(q) \/ CheckEntry(q) \/ EncodeTree(q) \/ CreateTree(q)
               \/ ParseParents(q) \/ CreateCommit(q)
      BY <1>2, <3>3 DEF Start, ReadIndex, CheckEntry, EncodeTree, CreateTree, ParseParents,
         CreateCommit
    <3>4. CASE \/ NoCache(q) \/ CheckFails(q) \/ BadParent(q) \/ CommitExists(q)
               \/ WriteCommit(q) \/ Crash(q)
      BY <3>1, <3>4 DEF NoCache, CheckFails, BadParent, CommitExists, WriteCommit, Crash, Announce
    <3>5. CASE TreeExists(q) \/ WriteTree(q)
      BY <3>2, <3>5 DEF TreeExists, WriteTree
    <3>6. CASE CallFails(q)
      BY <3>1, <3>2, <3>6 DEF CallFails, Announce
    <3>7. QED
      BY <1>2, <3>3, <3>4, <3>5, <3>6 DEF Step
  <2>3. QED
    BY <2>1, <2>2
<1>3. QED
  BY <1>1, <1>2, Actors

\* What a process does to its place and its counter.
LEMMA Moves ==
  ASSUME TypeOK, NEW p \in Committer, Step(p) \/ CallFails(p) \/ Crash(p)
  PROVE  \/ pc[p] # "idle" /\ pc'[p] = "idle" /\ snap'[p] = <<>> /\ checked'[p] = 0
         \/ pc[p] = "read" /\ pc'[p] = "access" /\ checked'[p] = checked[p]
         \/ /\ pc[p] = "access" /\ pc'[p] = "access" /\ snap'[p] = snap[p]
            /\ checked[p] < Len(snap[p]) /\ checked'[p] = checked[p] + 1
         \/ /\ <<pc[p], pc'[p]>> \in
                 {<<"access", "tree">>, <<"tree", "write_tree">>, <<"tree", "args">>,
                  <<"write_tree", "args">>, <<"args", "commit">>, <<"commit", "write_commit">>}
            /\ snap'[p] = snap[p] /\ checked'[p] = checked[p]
<1> USE DEF process, Goto, TypeOK
<1>1. CASE Exit(p) /\ pc[p] # "idle"
  BY <1>1 DEF Exit
<1>2. CASE TreeDone(p) /\ pc[p] \in {"tree", "write_tree"}
  BY <1>2 DEF TreeDone
<1>3. CASE ReadIndex(p) \/ CheckEntry(p)
  BY <1>3 DEF ReadIndex, CheckEntry
<1>4. CASE EncodeTree(p) \/ CreateTree(p) \/ ParseParents(p) \/ CreateCommit(p)
  BY <1>4 DEF EncodeTree, CreateTree, ParseParents, CreateCommit
<1>5. CASE \/ NoCache(p) \/ CheckFails(p) \/ BadParent(p) \/ CommitExists(p)
           \/ WriteCommit(p) \/ Crash(p)
  BY <1>1, <1>5 DEF NoCache, CheckFails, BadParent, CommitExists, WriteCommit, Crash, Announce
<1>6. CASE TreeExists(p) \/ WriteTree(p)
  BY <1>2, <1>6 DEF TreeExists, WriteTree
<1>7. CASE CallFails(p)
  BY <1>1, <1>2, <1>7 DEF CallFails, Announce
<1>8. QED
  BY <1>3, <1>4, <1>5, <1>6, <1>7 DEF Step

LEMMA LengthIsNat ==
  ASSUME NEW S, NEW s \in Seq(S)
  PROVE  Len(s) \in Nat
OBVIOUS

LEMMA CountUp ==
  ASSUME NEW n \in Nat
  PROVE  0 <= n /\ \A m \in Nat : m < n => m + 1 <= n
OBVIOUS

\* The counter stays within the entries that were read.
LEMMA NextCounted ==
  ASSUME Inv, [Next]_vars, NEW p \in Committer, Counted(p)
  PROVE  Counted(p)'
<1>0. TypeOK /\ TypeOK' /\ Len(snap[p]) \in Nat /\ Len(snap'[p]) \in Nat /\ checked[p] \in Nat
  <2>1. TypeOK /\ TypeOK'
    BY NextInv DEF Inv
  <2>2. Len(snap[p]) \in Nat /\ Len(snap'[p]) \in Nat
    <3>1. snap[p] \in Seq(Entry) /\ snap'[p] \in Seq(Entry)
      BY <2>1, ContentsAssumption DEF TypeOK
    <3>2. QED
      BY <3>1, LengthIsNat, Zenon
  <2>3. QED
    BY <2>1, <2>2 DEF TypeOK
<1>1. CASE Step(p) \/ CallFails(p) \/ Crash(p)
  <2>1. CASE checked'[p] = 0 /\ pc'[p] \in {"idle", "access"}
    BY <1>0, <2>1, CountUp, Zenon DEF Counted
  <2>2. CASE snap'[p] = snap[p] /\ checked'[p] = checked[p] /\ pc'[p] \notin {"idle", "read"}
    BY <2>2, Zenon DEF Counted
  <2>3. CASE /\ pc'[p] = "access" /\ snap'[p] = snap[p]
             /\ checked[p] < Len(snap[p]) /\ checked'[p] = checked[p] + 1
    <3>1. checked[p] + 1 <= Len(snap[p])
      BY <1>0, <2>3, CountUp, Zenon
    <3>2. QED
      BY <2>3, <3>1, Zenon DEF Counted
  <2>4. QED
    BY <1>0, <1>1, <2>1, <2>2, <2>3, Moves, Zenon DEF Counted
<1>2. CASE Start(p)
  BY <1>0, <1>2 DEF Start, Counted
<1>3. CASE ~(Start(p) \/ Step(p) \/ CallFails(p) \/ Crash(p))
  BY <1>0, <1>3, Bystander DEF Counted
<1>4. QED
  BY <1>1, <1>2, <1>3

\* A step of a process brings its end nearer.
LEMMA StepShrinks ==
  ASSUME TypeOK, NEW p \in Committer, Counted(p), pc[p] \notin {"idle", "read"},
         Step(p) \/ CallFails(p) \/ Crash(p)
  PROVE  StepsLeft(p)' \in 0 .. StepsLeft(p) - 1
<1>0. Len(snap[p]) \in Nat /\ checked[p] \in Nat /\ pc[p] \in Pc
  BY SnapLength DEF TypeOK
<1>1. CASE pc'[p] = "idle"
  BY <1>0, <1>1 DEF Counted, StepsLeft, Pc
<1>2. CASE /\ pc[p] = "access" /\ pc'[p] = "access" /\ snap'[p] = snap[p]
           /\ checked[p] < Len(snap[p]) /\ checked'[p] = checked[p] + 1
  BY <1>0, <1>2 DEF StepsLeft
<1>3. CASE <<pc[p], pc'[p]>> \in
             {<<"access", "tree">>, <<"tree", "write_tree">>, <<"tree", "args">>,
              <<"write_tree", "args">>, <<"args", "commit">>, <<"commit", "write_commit">>}
  BY <1>0, <1>3 DEF Counted, StepsLeft
<1>4. QED
  BY <1>1, <1>2, <1>3, Moves

(***************************************************************************)
(* The bound, for every number of processes and every index.               *)
(***************************************************************************)
THEOREM CommitTakesBoundedSteps == Spec => CommitEnds
<1> DEFINE AllCounted == \A p \in Committer : Counted(p)
<1>1. Init => AllCounted
  BY DEF Init, Counted
<1>2. Inv /\ AllCounted /\ [Next]_vars => AllCounted'
  BY NextCounted
<1>3. ASSUME Inv, AllCounted, [Next]_vars,
             NEW p \in Committer, pc[p] \notin {"idle", "read"}
      PROVE  /\ StepsLeft(p)' \in 0 .. StepsLeft(p)
             /\ Step(p) \/ CallFails(p) \/ Crash(p) => StepsLeft(p)' < StepsLeft(p)
  <2>0. TypeOK /\ Counted(p)
    BY <1>3 DEF Inv
  <2>1. StepsLeft(p) \in Nat
    <3>1. Len(snap[p]) \in Nat /\ checked[p] \in Nat /\ pc[p] \in Pc
      BY <2>0, SnapLength DEF TypeOK
    <3>2. QED
      BY <2>0, <3>1 DEF Counted, StepsLeft, Pc
  <2>2. CASE Step(p) \/ CallFails(p) \/ Crash(p)
    <3>1. StepsLeft(p)' \in 0 .. StepsLeft(p) - 1
      BY <1>3, <2>0, <2>2, StepShrinks
    <3>2. QED
      BY <2>1, <3>1
  <2>3. CASE ~(Step(p) \/ CallFails(p) \/ Crash(p))
    <3>1. ~Start(p)
      BY <1>3 DEF Start
    <3>2. UNCHANGED <<pc[p], snap[p], checked[p]>>
      BY <1>3, <2>0, <2>3, <3>1, Bystander
    <3>3. StepsLeft(p)' = StepsLeft(p)
      BY <3>2 DEF StepsLeft
    <3>4. QED
      BY <2>1, <2>3, <3>3
  <2>4. QED
    BY <2>2, <2>3
<1>4. Inv /\ AllCounted /\ [Next]_vars =>
        [\A p \in Committer : pc[p] \notin {"idle", "read"} =>
           /\ StepsLeft(p)' \in 0 .. StepsLeft(p)
           /\ Step(p) \/ CallFails(p) \/ Crash(p) => StepsLeft(p)' < StepsLeft(p)]_vars
  BY <1>3
<1>5. QED
  BY Invariance, <1>1, <1>2, <1>4, PTL DEF Spec, CommitEnds
=============================================================================
