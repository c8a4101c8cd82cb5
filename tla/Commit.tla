------------------------------- MODULE Commit -------------------------------
(***************************************************************************)
(* "git --commit [parent sha1] < changelog": commit of commit.c with       *)
(* write_tree and commit_tree, run by several processes that take no lock, *)
(* beside the git --add processes that IndexStore stands for.              *)
(*                                                                         *)
(* A tree or a commit object is its contents, and these are its SHA1 name: *)
(* hash collisions are left out.  A parent is whatever hexadecimal string  *)
(* stands on the command line; the code does not look it up.               *)
(***************************************************************************)
EXTENDS IndexStore

CONSTANTS
  Committer,  \* processes that run git --commit
  Mode(_),    \* the st_mode among the stat data of an entry
  HasZero,    \* the trees whose SHA1 has a zero among its first 19 bytes
  OtherName,  \* a wrong tree name
  Word,       \* command line arguments
  Hash,       \* those that are 40-digit hexadecimal strings
  Argvs,      \* the argument vectors argv[2 .. argc-1]
  Info,       \* author, committer, date and comment
  MaxRuns     \* bound: invocations of git --commit

VARIABLES
  made,       \* the tree and commit objects that have a file
  filled,     \* those whose file has been written completely
  runs,       \* the number of invocations so far
  pc,         \* per process: the next system call
  argv,       \*   the arguments behind --commit
  snap,       \*   active_cache
  checked,    \*   i, the entries whose object has been found
  name,       \*   the 20 bytes that write_tree hands to commit_tree
  commit,     \*   the commit object under construction
  announced   \* ghost: what "Completed to commmit!" was printed for

database == <<made, filled>>
process  == <<argv, snap, checked, name, commit>>
vars     == <<store, database, runs, pc, process, announced>>

\* What write_tree puts into a tree: mode, name and SHA1, no other stat data.
TreeOf(entries) ==
  [i \in 1 .. Len(entries) |->
     [mode |-> Mode(entries[i].stat), name |-> entries[i].name, sha1 |-> entries[i].sha1]]

Trees == {TreeOf(c) : c \in Contents}

CommitObject ==
  [tree : Trees \cup {OtherName}, parents : Seq(Hash), info : Info]

TreeObject(p) == [type |-> "tree", of |-> TreeOf(snap[p])]
NewCommit(p)  == [type |-> "commit", of |-> commit[p]]

Objects == [type : {"tree"}, of : Trees] \cup [type : {"commit"}, of : CommitObject]

NoCommit == [tree |-> OtherName, parents |-> <<>>, info |-> CHOOSE x \in Info : TRUE]

ASSUME CommitAssumption ==
  /\ OtherName \notin Trees
  /\ HasZero \subseteq Trees
  /\ <<>> \in Contents
  /\ Info # {}
  /\ Hash \subseteq Word /\ Argvs \subseteq Seq(Word)

Pc == {"idle", "read", "access", "tree", "write_tree", "args", "commit", "write_commit"}

TypeOK ==
  /\ StoreTypeOK
  /\ made \subseteq Objects /\ filled \subseteq made
  /\ runs \in Nat
  /\ pc \in [Committer -> Pc]
  /\ argv \in [Committer -> Argvs \cup {<<>>}]
  /\ snap \in [Committer -> Contents]
  /\ checked \in [Committer -> Nat]
  /\ name \in [Committer -> Trees \cup {OtherName}]
  /\ commit \in [Committer -> CommitObject]
  /\ announced \subseteq
       [commit : CommitObject, of : Contents, argv : Argvs \cup {<<>>}]

Init ==
  /\ StoreInit
  /\ made = {} /\ filled = {} /\ runs = 0
  /\ pc = [p \in Committer |-> "idle"]
  /\ argv = [p \in Committer |-> <<>>]
  /\ snap = [p \in Committer |-> <<>>]
  /\ checked = [p \in Committer |-> 0]
  /\ name = [p \in Committer |-> OtherName]
  /\ commit = [p \in Committer |-> NoCommit]
  /\ announced = {}

-----------------------------------------------------------------------------

Goto(p, l) == pc' = [pc EXCEPT ![p] = l]

\* A process is gone, and its memory with it.
Exit(p) ==
  /\ Goto(p, "idle")
  /\ argv' = [argv EXCEPT ![p] = <<>>]
  /\ snap' = [snap EXCEPT ![p] = <<>>]
  /\ checked' = [checked EXCEPT ![p] = 0]
  /\ name' = [name EXCEPT ![p] = OtherName]
  /\ commit' = [commit EXCEPT ![p] = NoCommit]

Start(p) ==
  /\ pc[p] = "idle" /\ runs < MaxRuns
  /\ runs' = runs + 1
  /\ \E a \in Argvs : argv' = [argv EXCEPT ![p] = a]
  /\ Goto(p, "read")
  /\ UNCHANGED <<store, database, snap, checked, name, commit, announced>>

\* An index with entries; without any there is no file or read_cache dies.
HasEntries == index # NoFile /\ index # <<>>

\* read_cache, without the lock
ReadIndex(p) ==
  /\ pc[p] = "read" /\ HasEntries
  /\ snap' = [snap EXCEPT ![p] = index]
  /\ Goto(p, "access")
  /\ UNCHANGED <<store, database, runs, argv, checked, name, commit, announced>>

\* "No file-cache to create a tree of", or a crash in verify_hdr
NoCache(p) ==
  /\ pc[p] = "read" /\ ~HasEntries
  /\ Exit(p)
  /\ UNCHANGED <<store, database, runs, announced>>

NextBlob(p) == snap[p][checked[p] + 1].sha1

\* check_valid_sha1 of the next entry
CheckEntry(p) ==
  /\ pc[p] = "access" /\ checked[p] < Len(snap[p])
  /\ objects[NextBlob(p)] # "absent"
  /\ checked' = [checked EXCEPT ![p] = @ + 1]
  /\ UNCHANGED <<store, database, runs, pc, argv, snap, name, commit, announced>>

\* access fails: exit(1).  It is a fault if the object has a file.
CheckFails(p) ==
  /\ pc[p] = "access" /\ checked[p] < Len(snap[p])
  /\ faulty' = (faulty \/ objects[NextBlob(p)] # "absent")
  /\ Exit(p)
  /\ UNCHANGED <<index, objects, database, runs, announced>>

\* The loop is over: the tree object is complete in memory.
EncodeTree(p) ==
  /\ pc[p] = "access" /\ checked[p] = Len(snap[p])
  /\ Goto(p, "tree")
  /\ UNCHANGED <<store, database, runs, process, announced>>

(***************************************************************************)
(* strcpy(sha1, _sha1) stops at a zero byte.  The bytes of the malloc'ed   *)
(* target behind it are whatever they were, right or wrong.  Without one   *)
(* it copies on behind the twenty bytes of source and target: what that    *)
(* does to the memory behind them is left out, the name is right.          *)
(***************************************************************************)
CopyName(p) ==
  \E n \in {TreeOf(snap[p])} \cup {m \in {OtherName} : TreeOf(snap[p]) \in HasZero} :
    name' = [name EXCEPT ![p] = n]

\* write_sha1_file is over, whatever it returned: commit_tree follows.
TreeDone(p) ==
  /\ CopyName(p)
  /\ Goto(p, "args")
  /\ UNCHANGED <<runs, argv, snap, checked, commit, announced>>

\* Mutant: the commit is made first, the tree is left out.
CreateTreeNot(p) ==
  /\ pc[p] = "tree" /\ TreeObject(p) \notin made
  /\ TreeDone(p)
  /\ UNCHANGED <<store, database>>

\* open(O_CREAT | O_EXCL) of the tree object
CreateTree(p) ==
  /\ pc[p] = "tree" /\ TreeObject(p) \notin made
  /\ made' = made \cup {TreeObject(p)}
  /\ Goto(p, "write_tree")
  /\ UNCHANGED <<store, filled, runs, process, announced>>

\* the same call fails with EEXIST, which counts as success
TreeExists(p) ==
  /\ pc[p] = "tree" /\ TreeObject(p) \in made
  /\ TreeDone(p)
  /\ UNCHANGED <<store, database>>

\* Mutant: the file is closed without being written.
WriteTreeNothing(p) ==
  /\ pc[p] = "write_tree"
  /\ TreeDone(p)
  /\ UNCHANGED <<store, database>>

WriteTree(p) ==
  /\ pc[p] = "write_tree"
  /\ filled' = filled \cup {TreeObject(p)}
  /\ TreeDone(p)
  /\ UNCHANGED <<store, made>>

\* Mutant: the loop begins at argv[3], as if "-p" stood before the parent.
VisitedBehindP(a) == [i \in 1 .. Len(a) \div 2 |-> a[2 * i]]

\* The arguments that the loop "i = 2; i < argc; i += 2" visits.
Visited(a) == [i \in 1 .. (Len(a) + 1) \div 2 |-> a[2 * i - 1]]

ParentsValid(p) == \A i \in 1 .. Len(Visited(argv[p])) : Visited(argv[p])[i] \in Hash

\* The parents, the person, the date and the comment from standard input.
ParseParents(p) ==
  /\ pc[p] = "args" /\ ParentsValid(p)
  /\ \E x \in Info :
       commit' = [commit EXCEPT ![p] =
                    [tree |-> name[p], parents |-> Visited(argv[p]), info |-> x]]
  /\ Goto(p, "commit")
  /\ UNCHANGED <<store, database, runs, argv, snap, checked, name, announced>>

\* get_sha1_hex rejects an argument: usage() exits, and the tree stays.
BadParent(p) ==
  /\ pc[p] = "args" /\ ~ParentsValid(p)
  /\ Exit(p)
  /\ UNCHANGED <<store, database, runs, announced>>

\* commit returns to main, which prints "Completed to commmit!" and ends.
Announce(p) ==
  /\ announced' = announced \cup {[commit |-> commit[p], of |-> snap[p], argv |-> argv[p]]}
  /\ Exit(p)
  /\ UNCHANGED runs

CreateCommit(p) ==
  /\ pc[p] = "commit" /\ NewCommit(p) \notin made
  /\ made' = made \cup {NewCommit(p)}
  /\ Goto(p, "write_commit")
  /\ UNCHANGED <<store, filled, runs, process, announced>>

\* Mutant: every result of write_sha1_file is taken for EEXIST.
CommitExistsAny(p) ==
  /\ pc[p] = "commit"
  /\ Announce(p)
  /\ UNCHANGED <<store, database>>

CommitExists(p) ==
  /\ pc[p] = "commit" /\ NewCommit(p) \in made
  /\ Announce(p)
  /\ UNCHANGED <<store, database>>

WriteCommit(p) ==
  /\ pc[p] = "write_commit"
  /\ filled' = filled \cup {NewCommit(p)}
  /\ Announce(p)
  /\ UNCHANGED <<store, made>>

-----------------------------------------------------------------------------

(***************************************************************************)
(* A failing system call.  read_cache and getpwuid end the process.  The   *)
(* result of write() is ignored by write_sha1_buffer, and the result of    *)
(* write_sha1_file by its two callers.                                     *)
(***************************************************************************)
CallFails(p) ==
  /\ faulty' = TRUE
  /\ \/ pc[p] \in {"read", "args"} /\ Exit(p) /\ UNCHANGED <<runs, announced>>
     \/ pc[p] \in {"tree", "write_tree"} /\ TreeDone(p)
     \/ pc[p] \in {"commit", "write_commit"} /\ Announce(p)
  /\ UNCHANGED <<index, objects, database>>

Crash(p) ==
  /\ pc[p] # "idle"
  /\ faulty' = TRUE
  /\ Exit(p)
  /\ UNCHANGED <<index, objects, database, runs, announced>>

Step(p) ==
  \/ ReadIndex(p) \/ NoCache(p) \/ CheckEntry(p) \/ CheckFails(p) \/ EncodeTree(p)
  \/ CreateTree(p) \/ TreeExists(p) \/ WriteTree(p) \/ ParseParents(p) \/ BadParent(p)
  \/ CreateCommit(p) \/ CommitExists(p) \/ WriteCommit(p)

\* A step of the git --add processes.
AddStep == StoreNext /\ UNCHANGED <<database, runs, pc, process, announced>>

Next ==
  \/ AddStep
  \/ \E p \in Committer : Start(p) \/ Step(p) \/ CallFails(p) \/ Crash(p)

\* The operating system keeps scheduling a process that can run.
Spec == Init /\ [][Next]_vars /\ \A p \in Committer : WF_vars(Step(p))

-----------------------------------------------------------------------------
\* Safety.

(***************************************************************************)
(* The entries of a tree have their blobs, filled ones as long as nothing  *)
(* has failed, although write_tree takes no lock, reads an index that      *)
(* git --add may replace at any moment, and only calls access().  A filled *)
(* blob is whole but where index_fd has cut its contents.                  *)
(***************************************************************************)
TreeBlobsUsable ==
  \A o \in made : o.type = "tree" => \A i \in 1 .. Len(o.of) : Usable(o.of[i].sha1)

(***************************************************************************)
(* Without faults a commit that names a tree comes after the file of that  *)
(* tree, also when another process is the one that creates it.             *)
(***************************************************************************)
CommitTreeExists ==
  \A o \in made : o.type = "commit" /\ o.of.tree # OtherName /\ ~faulty =>
    [type |-> "tree", of |-> o.of.tree] \in made

(***************************************************************************)
(* Without faults an object that is not whole is being written right now:  *)
(* a process that takes EEXIST for success relies on one that will write.  *)
(***************************************************************************)
PartialHasWriter ==
  \A o \in made \ filled : ~faulty =>
    \E p \in Committer :
      \/ pc[p] = "write_tree" /\ o = TreeObject(p)
      \/ pc[p] = "write_commit" /\ o = NewCommit(p)

(***************************************************************************)
(* What was announced is a commit of the index that was read, with the     *)
(* parent of the documented command line.  A tree name with a zero byte is *)
(* excepted, see CommitNamesItsTree.                                       *)
(***************************************************************************)
AnnouncedAsRequested ==
  \A a \in announced :
    /\ TreeOf(a.of) \notin HasZero => a.commit.tree = TreeOf(a.of)
    /\ Len(a.argv) <= 1 => a.commit.parents = a.argv

(***************************************************************************)
(* Without faults a commit that was announced has a file, whichever of two *)
(* processes with the same commit created it.                              *)
(***************************************************************************)
AnnouncedIsStored ==
  ~faulty => \A a \in announced : [type |-> "commit", of |-> a.commit] \in made

(***************************************************************************)
(* The inductive invariant behind these: what a process has read is        *)
(* usable, what it is writing exists, and what it has passed on is there.  *)
(***************************************************************************)
Building(p) ==
  /\ \A i \in 1 .. Len(snap[p]) : Usable(snap[p][i].sha1)
  /\ pc[p] = "write_tree" => TreeObject(p) \in made
  /\ pc[p] = "write_commit" => NewCommit(p) \in made
  /\ pc[p] = "args" =>
       /\ TreeOf(snap[p]) \notin HasZero => name[p] = TreeOf(snap[p])
       /\ name[p] # OtherName /\ ~faulty => [type |-> "tree", of |-> name[p]] \in made
  /\ pc[p] \in {"commit", "write_commit"} =>
       /\ TreeOf(snap[p]) \notin HasZero => commit[p].tree = TreeOf(snap[p])
       /\ commit[p].tree # OtherName /\ ~faulty =>
            [type |-> "tree", of |-> commit[p].tree] \in made
       /\ commit[p].parents = Visited(argv[p])

Inv ==
  /\ TypeOK
  /\ index # NoFile => \A i \in 1 .. Len(index) : Usable(index[i].sha1)
  /\ \A p \in Committer : Building(p)
  /\ TreeBlobsUsable /\ CommitTreeExists /\ PartialHasWriter
  /\ AnnouncedAsRequested /\ AnnouncedIsStored

-----------------------------------------------------------------------------
\* Liveness.

(***************************************************************************)
(* Without faults the tree of a commit becomes whole, whoever writes it.   *)
(***************************************************************************)
TreeBecomesWhole ==
  \A t \in Trees :
    (\E o \in made : o.type = "commit" /\ o.of.tree = t)
      ~> ([type |-> "tree", of |-> t] \in filled \/ faulty)

-----------------------------------------------------------------------------
\* What the documentation says, where the code differs.

(***************************************************************************)
(* notebook.md: a commit object holds a pointer to the tree object.        *)
(***************************************************************************)
CommitNamesItsTree ==
  ~faulty => \A a \in announced : a.commit.tree = TreeOf(a.of)
=============================================================================
