----------------------------- MODULE UpdateCache -----------------------------
(***************************************************************************)
(* "git --add path ...": update_cache of update-cache.c with everything it *)
(* calls (read_cache, add_file_to_cache, index_fd, write_sha1_buffer,      *)
(* add_cache_entry, remove_file_from_cache, write_cache), run by several   *)
(* processes at once over one .dircache and one work tree, while a user    *)
(* edits the files.                                                        *)
(*                                                                         *)
(* One action is one system call, together with the computation up to the  *)
(* next one.  A system call may fail and a process may be killed between   *)
(* any two of them; the sum of these faults is bounded by MaxFaults.       *)
(***************************************************************************)
EXTENDS DirCache

CONSTANTS
  Proc,         \* processes that run git --add
  AddOpt,       \* the string "--add": argv[1], which the loop also treats as a path
  Rejected,     \* the paths verify_path turns down
  Argvs,        \* the argument vectors argv[1 .. argc-1] of the invocations
  Unmappable,   \* what mmap refuses: a directory, an empty file
  Torn,         \* bytes read while the file was being rewritten
  Stream(_),    \* what deflate leaves of the contents in the buffer of index_fd
  NoFile,       \* a file that does not exist
  Editable,     \* the paths the user writes
  Deletable,    \* the paths the user deletes
  InitialWork,  \* the work tree at the start
  MaxEdits,     \* bound: changes the user makes
  MaxRuns,      \* bound: invocations of git --add
  MaxFaults     \* bound: failed system calls and killed processes

\* What a directory entry of the work tree can hold, and its stat stamp.
WorkFile == [data : Blob \cup Unmappable, stat : Nat]

\* struct cache_header, of which the entry count matters, and the entries.
IndexFile == [entries : Nat, body : Seq(Entry)]

\* The lock file; -1 until the header is written.  owner is the process that
\* created it and is not part of the file.
LockFile == [owner : Proc, entries : Nat \cup {-1}, body : Seq(Entry)]

ASSUME NamesAssumption ==
  /\ AddOpt \in Path
  /\ Rejected \subseteq Path
  /\ Editable \subseteq Path
  /\ Deletable \subseteq Path
  /\ Torn \in Blob
  /\ Argvs \subseteq Seq(Path)

\* A stream that fits the buffer determines the contents, and stands for them.
ASSUME StreamAssumption ==
  \A b \in Blob : Stream(b) \in Blob /\ (Stream(b) = b \/ Stream(b) \in Cut)

ASSUME WorkAssumption ==
  /\ Unmappable \cap Blob = {}
  /\ NoFile \notin WorkFile
  /\ NoFile \notin IndexFile
  /\ NoFile \notin LockFile
  /\ InitialWork \in [Path -> {NoFile} \cup WorkFile]
  /\ \A q \in Path : InitialWork[q] # NoFile => InitialWork[q].stat = 0

VARIABLES
  index,    \* .dircache/index
  lock,     \* .dircache/index.lock
  objects,  \* .dircache/objects: what each blob's file holds
  work,     \* the work tree
  clock,    \* the number of edits so far; stamps a file's stat data
  runs,     \* the number of invocations so far
  faults,   \* the number of faults so far
  pc,       \* per process: the next system call
  argv,     \*   the arguments
  argi,     \*   i, the loop variable of update_cache
  cache,    \*   active_cache and active_nr
  alloc,    \*   active_alloc
  fd,       \*   the contents behind the descriptor of the file being added
  ce,       \*   the entry under construction in add_file_to_cache
  base      \*   ghost: the index that read_cache saw

disk   == <<index, lock, objects>>
world  == <<work, clock>>
memory == <<argv, argi, cache, alloc, fd, ce, base>>
vars   == <<disk, world, runs, faults, pc, memory>>

\* The program counters at which index.lock is held, and all of them.
Holding ==
  {"args", "mmap", "creat", "write", "entries", "unlink"}

Pc == Holding \cup {"idle", "read", "lock"}

NoEntry == [name |-> AddOpt, stat |-> 0, sha1 |-> Torn]

TypeOK ==
  /\ index \in {NoFile} \cup IndexFile
  /\ lock \in {NoFile} \cup LockFile
  /\ objects \in [Blob -> Held]
  /\ work \in [Path -> {NoFile} \cup WorkFile]
  /\ clock \in Nat /\ runs \in Nat /\ faults \in Nat
  /\ pc \in [Proc -> Pc]
  /\ argv \in [Proc -> Seq(Path)]
  /\ argi \in [Proc -> Nat \ {0}]
  /\ cache \in [Proc -> Seq(Entry)]
  /\ alloc \in [Proc -> Nat]
  /\ fd \in [Proc -> Blob \cup Unmappable]
  /\ ce \in [Proc -> Entry]
  /\ base \in [Proc -> {NoFile} \cup IndexFile]

Init ==
  /\ index = NoFile
  /\ lock = NoFile
  /\ objects = [b \in Blob |-> "absent"]
  /\ work = InitialWork
  /\ clock = 0 /\ runs = 0 /\ faults = 0
  /\ pc = [p \in Proc |-> "idle"]
  /\ argv = [p \in Proc |-> <<>>]
  /\ argi = [p \in Proc |-> 1]
  /\ cache = [p \in Proc |-> <<>>]
  /\ alloc = [p \in Proc |-> 0]
  /\ fd = [p \in Proc |-> Torn]
  /\ ce = [p \in Proc |-> NoEntry]
  /\ base = [p \in Proc |-> NoFile]

-----------------------------------------------------------------------------

\* A process goes on to the next system call l.
Goto(p, l) == pc' = [pc EXCEPT ![p] = l]

\* A process is gone, and its memory with it.
Exit(p) ==
  /\ Goto(p, "idle")
  /\ argv' = [argv EXCEPT ![p] = <<>>]
  /\ argi' = [argi EXCEPT ![p] = 1]
  /\ cache' = [cache EXCEPT ![p] = <<>>]
  /\ alloc' = [alloc EXCEPT ![p] = 0]
  /\ fd' = [fd EXCEPT ![p] = Torn]
  /\ ce' = [ce EXCEPT ![p] = NoEntry]
  /\ base' = [base EXCEPT ![p] = NoFile]

\* "git --add path ..." is started by the shell.
Start(p) ==
  /\ pc[p] = "idle" /\ runs < MaxRuns
  /\ runs' = runs + 1
  /\ \E a \in Argvs : argv' = [argv EXCEPT ![p] = a]
  /\ Goto(p, "read")
  /\ UNCHANGED <<disk, world, faults, argi, cache, alloc, fd, ce, base>>

(***************************************************************************)
(* What read_cache accepts: no file, or a file larger than the header      *)
(* whose hash matches.  A file of exactly the header's size is not mapped, *)
(* and verify_hdr then reads through a null pointer.  The hash covers the  *)
(* count and the entries, so it fails when entries are missing.            *)
(***************************************************************************)
Readable(file) ==
  file # NoFile => file.body # <<>> /\ file.entries = Len(file.body)

\* read_cache, before the lock is taken
ReadCache(p) ==
  /\ pc[p] = "read"
  /\ Readable(index)
  /\ IF index = NoFile
     THEN UNCHANGED <<cache, alloc>>
     ELSE /\ cache' = [cache EXCEPT ![p] = index.body]
          /\ alloc' = [alloc EXCEPT ![p] = AllocNr(index.entries)]
  /\ base' = [base EXCEPT ![p] = index]
  /\ Goto(p, "lock")
  /\ UNCHANGED <<disk, world, runs, faults, argv, argi, fd, ce>>

\* read_cache returns an error, or the process dies in verify_hdr
ReadCacheFails(p) ==
  /\ pc[p] = "read"
  /\ ~Readable(index)
  /\ Exit(p)
  /\ UNCHANGED <<disk, world, runs, faults>>

\* Mutant: the lock file is opened without O_EXCL.
OpenLockShared(p) ==
  /\ pc[p] = "lock"
  /\ lock' = [owner |-> p, entries |-> -1, body |-> <<>>]
  /\ Goto(p, "args")
  /\ UNCHANGED <<index, objects, world, runs, faults, memory>>

\* open(".dircache/index.lock", O_RDWR | O_CREAT | O_EXCL, 0600)
OpenLock(p) ==
  /\ pc[p] = "lock"
  /\ lock = NoFile
  /\ lock' = [owner |-> p, entries |-> -1, body |-> <<>>]
  /\ Goto(p, "args")
  /\ UNCHANGED <<index, objects, world, runs, faults, memory>>

\* the same call when the file exists: "unable to create new cachefile"
LockTaken(p) ==
  /\ pc[p] = "lock"
  /\ lock # NoFile
  /\ Exit(p)
  /\ UNCHANGED <<disk, world, runs, faults>>

-----------------------------------------------------------------------------
\* The loop over the arguments.

\* The path of this iteration, when there is one.
InLoop(p) == pc[p] = "args" /\ argi[p] <= Len(argv[p])
Arg(p) == argv[p][argi[p]]

\* i++ and back to the head of the loop
NextArg(p) ==
  /\ argi' = [argi EXCEPT ![p] = @ + 1]
  /\ Goto(p, "args")

\* "Ignoring path"
IgnorePath(p) ==
  /\ InLoop(p) /\ Arg(p) \in Rejected
  /\ NextArg(p)
  /\ UNCHANGED <<disk, world, runs, faults, argv, cache, alloc, fd, ce, base>>

(***************************************************************************)
(* open(path) fails with ENOENT: the path leaves the cache.                *)
(* remove_file_from_cache has no return statement, so its caller takes any *)
(* value for success (0) or failure.                                       *)
(***************************************************************************)
RemoveDeleted(p) ==
  /\ InLoop(p) /\ Arg(p) \notin Rejected
  /\ work[Arg(p)] = NoFile
  /\ \E pos \in NamePositions(cache[p], Arg(p)) :
       cache' = [cache EXCEPT ![p] = RemoveFileFromCache(cache[p], pos)]
  /\ \/ NextArg(p)
     \/ Goto(p, "unlink") /\ UNCHANGED argi
  /\ UNCHANGED <<disk, world, runs, faults, argv, alloc, fd, ce, base>>

\* open(path) and fstat: the stat data is taken before the contents are read
OpenFile(p) ==
  /\ InLoop(p) /\ Arg(p) \notin Rejected
  /\ work[Arg(p)] # NoFile
  /\ fd' = [fd EXCEPT ![p] = work[Arg(p)].data]
  /\ ce' = [ce EXCEPT ![p].name = Arg(p), ![p].stat = work[Arg(p)].stat]
  /\ Goto(p, "mmap")
  /\ UNCHANGED <<disk, world, runs, faults, argv, argi, cache, alloc, base>>

\* The file was written or deleted after the fstat.
Changed(p) ==
  LET now == work[ce[p].name]
  IN  now = NoFile \/ now.stat # ce[p].stat

(***************************************************************************)
(* The contents index_fd may compress: those of the opened file,           *)
(* and, if it was rewritten in the meantime, the new ones or a mixture.    *)
(***************************************************************************)
Seen(p) ==
  LET now == work[ce[p].name]
  IN  IF Changed(p)
      THEN {fd[p], Torn} \cup {b \in Blob : now # NoFile /\ now.data = b}
      ELSE {fd[p]}

\* Mutant: fstat comes after the contents are read.
HashThenStat(p) ==
  /\ pc[p] = "mmap"
  /\ fd[p] \notin Unmappable
  /\ work[ce[p].name] # NoFile
  /\ \E b \in Seen(p) :
       ce' = [ce EXCEPT ![p].sha1 = Stream(b), ![p].stat = work[ce[p].name].stat]
  /\ Goto(p, "creat")
  /\ UNCHANGED <<disk, world, runs, faults, argv, argi, cache, alloc, fd, base>>

(***************************************************************************)
(* mmap, deflate and SHA1 of the file.  The buffer is longer than the file *)
(* by 200 bytes and the path.  A large file that does not compress needs   *)
(* more, and the loop over deflate ends without an error when the buffer   *)
(* is full: hashed, and later written, is what is in the buffer.           *)
(***************************************************************************)
HashFile(p) ==
  /\ pc[p] = "mmap"
  /\ fd[p] \notin Unmappable
  /\ \E b \in Seen(p) : ce' = [ce EXCEPT ![p].sha1 = Stream(b)]
  /\ Goto(p, "creat")
  /\ UNCHANGED <<disk, world, runs, faults, argv, argi, cache, alloc, fd, base>>

\* mmap fails for a directory (ENODEV) and for length 0 (EINVAL)
MmapRefused(p) ==
  /\ pc[p] = "mmap"
  /\ fd[p] \in Unmappable
  /\ Goto(p, "unlink")
  /\ UNCHANGED <<disk, world, runs, faults, memory>>

\* The file was truncated under the mapping: SIGBUS.
TruncatedWhileRead(p) ==
  /\ pc[p] = "mmap"
  /\ fd[p] \notin Unmappable
  /\ work[ce[p].name] # NoFile /\ work[ce[p].name].data \in Unmappable
  /\ Exit(p)
  /\ UNCHANGED <<disk, world, runs, faults>>

\* add_cache_entry of the finished entry, and the next argument
Stage(p) ==
  /\ \E pos \in NamePositions(cache[p], ce[p].name) :
       /\ cache' = [cache EXCEPT ![p] = AddCacheEntry(cache[p], pos, ce[p])]
       /\ alloc' = [alloc EXCEPT ![p] = AllocAfterAdd(cache[p], pos, alloc[p])]
  /\ NextArg(p)
  /\ UNCHANGED <<argv, fd, ce, base>>

\* write_sha1_buffer: open(O_WRONLY | O_CREAT | O_EXCL) of a new object
CreateObject(p) ==
  /\ pc[p] = "creat"
  /\ objects[ce[p].sha1] = "absent"
  /\ objects' = [objects EXCEPT ![ce[p].sha1] = "partial"]
  /\ Goto(p, "write")
  /\ UNCHANGED <<index, lock, world, runs, faults, memory>>

\* Mutant: every failure to create the object counts as success.
ObjectNotCreated(p) ==
  /\ pc[p] = "creat"
  /\ Stage(p)
  /\ UNCHANGED <<disk, world, runs, faults>>

\* the same call fails with EEXIST, which counts as success
ObjectExists(p) ==
  /\ pc[p] = "creat"
  /\ objects[ce[p].sha1] # "absent"
  /\ Stage(p)
  /\ UNCHANGED <<disk, world, runs, faults>>

\* Mutant: the object file is closed without being written.
WriteObjectNothing(p) ==
  /\ pc[p] = "write"
  /\ Stage(p)
  /\ UNCHANGED <<disk, world, runs, faults>>

\* write() of the compressed object
WriteObject(p) ==
  /\ pc[p] = "write"
  /\ objects' = [objects EXCEPT ![ce[p].sha1] = Filled(ce[p].sha1)]
  /\ Stage(p)
  /\ UNCHANGED <<index, lock, world, runs, faults>>

-----------------------------------------------------------------------------
\* write_cache and the rename.

\* The loop is over and write_cache writes the header.
WriteHeader(p) ==
  /\ pc[p] = "args" /\ argi[p] > Len(argv[p])
  /\ lock' = [lock EXCEPT !.entries = Len(cache[p])]
  /\ Goto(p, "entries")
  /\ UNCHANGED <<index, objects, world, runs, faults, memory>>

WriteEntry(p) ==
  /\ pc[p] = "entries" /\ Len(lock.body) < Len(cache[p])
  /\ lock' = [lock EXCEPT !.body = Append(@, cache[p][Len(@) + 1])]
  /\ UNCHANGED <<index, objects, world, runs, faults, pc, memory>>

\* Mutant: a failed write of an entry does not stop the rename.
RenameShort(p) ==
  /\ pc[p] = "entries"
  /\ index' = [entries |-> lock.entries, body |-> lock.body]
  /\ lock' = NoFile
  /\ Exit(p)
  /\ UNCHANGED <<objects, world, runs, faults>>

\* rename(".dircache/index.lock", ".dircache/index")
Rename(p) ==
  /\ pc[p] = "entries" /\ Len(lock.body) = Len(cache[p])
  /\ index' = [entries |-> lock.entries, body |-> lock.body]
  /\ lock' = NoFile
  /\ Exit(p)
  /\ UNCHANGED <<objects, world, runs, faults>>

\* Mutant: the error path forgets the lock file.
UnlinkNot(p) ==
  /\ pc[p] = "unlink"
  /\ Exit(p)
  /\ UNCHANGED <<disk, world, runs, faults>>

\* out: unlink(".dircache/index.lock")
Unlink(p) ==
  /\ pc[p] = "unlink"
  /\ lock' = NoFile
  /\ Exit(p)
  /\ UNCHANGED <<index, objects, world, runs, faults>>

-----------------------------------------------------------------------------
\* Faults and the user.

Fault == faults < MaxFaults /\ faults' = faults + 1

(***************************************************************************)
(* A failing system call.  Before the lock and at the final unlink the     *)
(* process just ends; every other failure goes to "out".  The result of    *)
(* the write() in write_sha1_buffer is ignored: a short write goes on as   *)
(* if the object were whole.                                               *)
(***************************************************************************)
CallFails(p) ==
  /\ Fault
  /\ \/ /\ pc[p] \in {"read", "lock", "unlink"}
        /\ Exit(p)
     \/ /\ pc[p] \in {"args", "mmap", "creat", "entries"}
        /\ InLoop(p) => Arg(p) \notin Rejected
        /\ Goto(p, "unlink")
        /\ UNCHANGED memory
     \/ /\ pc[p] = "write"
        /\ Stage(p)
  /\ UNCHANGED <<disk, world, runs>>

\* The process is killed, or the machine goes down.
Crash(p) ==
  /\ Fault
  /\ pc[p] # "idle"
  /\ Exit(p)
  /\ UNCHANGED <<disk, world, runs>>

\* The user writes a file, or puts a directory in its place.
Edit(q) ==
  /\ clock < MaxEdits
  /\ clock' = clock + 1
  /\ \E d \in (Blob \ ({Torn} \cup Cut)) \cup Unmappable :
       work' = [work EXCEPT ![q] = [data |-> d, stat |-> clock + 1]]
  /\ UNCHANGED <<disk, runs, faults, pc, memory>>

Delete(q) ==
  /\ clock < MaxEdits /\ work[q] # NoFile
  /\ clock' = clock + 1
  /\ work' = [work EXCEPT ![q] = NoFile]
  /\ UNCHANGED <<disk, runs, faults, pc, memory>>

\* The process that created the lock file has died.
Orphaned == lock # NoFile /\ pc[lock.owner] \notin Holding

\* No program removes a stale lock; the user does, by hand.
ClearLock ==
  /\ Orphaned
  /\ lock' = NoFile
  /\ UNCHANGED <<index, objects, world, runs, faults, pc, memory>>

-----------------------------------------------------------------------------

\* A step of a running process.
Step(p) ==
  \/ ReadCache(p) \/ ReadCacheFails(p) \/ OpenLock(p) \/ LockTaken(p)
  \/ IgnorePath(p) \/ RemoveDeleted(p) \/ OpenFile(p)
  \/ HashFile(p) \/ MmapRefused(p) \/ TruncatedWhileRead(p)
  \/ CreateObject(p) \/ ObjectExists(p) \/ WriteObject(p)
  \/ WriteHeader(p) \/ WriteEntry(p) \/ Rename(p) \/ Unlink(p)

Next ==
  \/ \E p \in Proc : Start(p) \/ Step(p) \/ CallFails(p) \/ Crash(p)
  \/ \E q \in Editable : Edit(q)
  \/ \E q \in Deletable : Delete(q)
  \/ ClearLock

\* The operating system keeps scheduling a process that can run.
Spec == Init /\ [][Next]_vars /\ \A p \in Proc : WF_vars(Step(p))

-----------------------------------------------------------------------------
\* Safety.

(***************************************************************************)
(* index.lock belongs to the process that is in its locked section: no     *)
(* error path, crash or late unlink takes the lock file away from the      *)
(* process that created it, and so no two processes edit the index at the  *)
(* same time.                                                              *)
(***************************************************************************)
LockOwned ==
  \A p \in Proc : pc[p] \in Holding => lock # NoFile /\ lock.owner = p

(***************************************************************************)
(* The index that replaces the old one is complete: the count in its       *)
(* header, which read_cache trusts, is the number of entries that follow,  *)
(* whatever call failed and wherever a process was killed.                 *)
(***************************************************************************)
IndexComplete == index # NoFile => index.entries = Len(index.body)

(***************************************************************************)
(* The index is in name order, which the next cache_name_pos needs.        *)
(***************************************************************************)
IndexSorted == index # NoFile => Sorted(index.body)

(***************************************************************************)
(* Every entry of the index has an object file under its SHA1: the index   *)
(* never gets ahead of the object database.                                *)
(***************************************************************************)
IndexObjectsExist ==
  index # NoFile =>
    \A i \in 1 .. Len(index.body) : objects[index.body[i].sha1] # "absent"

(***************************************************************************)
(* Without faults an object file that is not whole is being written right  *)
(* now: no error path of update_cache leaves one behind.                   *)
(***************************************************************************)
PartialHasWriter ==
  \A b \in Blob :
    objects[b] = "partial" /\ faults = 0 =>
      \E p \in Proc : pc[p] = "write" /\ ce[p].sha1 = b

\* The object of entry e is written to its end, unless something failed.
Whole(e) == objects[e.sha1] = Filled(e.sha1) \/ faults > 0

(***************************************************************************)
(* Without faults every entry of the index has its object whole, although  *)
(* write_sha1_buffer takes any file under the name for the object: the     *)
(* process that is still writing it holds the lock.  Excepted are contents *)
(* that outgrow the buffer of index_fd: their object holds all that was    *)
(* hashed, but is cut (Filled), with no failing call.                      *)
(***************************************************************************)
IndexObjectsWhole ==
  index # NoFile => \A i \in 1 .. Len(index.body) : Whole(index.body[i])

(***************************************************************************)
(* An entry whose stat data equals that of the file names the file's       *)
(* contents, or as much of them as index_fd keeps, which is what show_diff *)
(* concludes from match_stat.  It rests on add_file_to_cache calling fstat *)
(* before it reads the file.                                               *)
(***************************************************************************)
StatMatchMeansSame ==
  index # NoFile =>
    \A i \in 1 .. Len(index.body) :
      LET e == index.body[i]
      IN  (work[e.name] # NoFile /\ work[e.name].stat = e.stat)
            => Stream(work[e.name].data) = e.sha1

(***************************************************************************)
(* active_nr never exceeds active_alloc: the memmove and the store of      *)
(* add_cache_entry stay inside the array.                                  *)
(***************************************************************************)
NrWithinAlloc == \A p \in Proc : Len(cache[p]) <= alloc[p]

(***************************************************************************)
(* As long as no path is deleted, or only the last one, for which the      *)
(* memmove of remove_file_from_cache has nothing to move, names are unique *)
(* in the index.                                                           *)
(***************************************************************************)
IndexUnique == index # NoFile => Unique(index.body)

Entries(file) ==
  IF file = NoFile THEN {} ELSE {file.body[i] : i \in 1 .. Len(file.body)}

Args(p) == {argv[p][i] : i \in 1 .. Len(argv[p])}

\* Process p's rename changes nothing but the paths on its command line.
TouchesOnlyArgs(p) ==
  /\ \A e \in Entries(index) : e.name \notin Args(p) => e \in Entries(index')
  /\ \A e \in Entries(index') : e.name \notin Args(p) => e \in Entries(index)

(***************************************************************************)
(* A process whose snapshot is still current when it renames the lock file *)
(* changes only the entries of the paths on its command line, under the    *)
(* same restriction on deletions.                                          *)
(***************************************************************************)
CurrentInstallIsLocal ==
  [][\A p \in Proc : Rename(p) /\ base[p] = index => TouchesOnlyArgs(p)]_vars

-----------------------------------------------------------------------------
\* The inductive invariant behind the safety properties.

(***************************************************************************)
(* What a process has written to the lock file so far is a prefix of its   *)
(* cache, behind a header with the final count.                            *)
(***************************************************************************)
LockFilePrefix ==
  \A p \in Proc :
    /\ pc[p] \in {"args", "mmap", "creat", "write"} => lock.body = <<>>
    /\ pc[p] = "entries" =>
         /\ lock.entries = Len(cache[p])
         /\ Len(lock.body) <= Len(cache[p])
         /\ \A i \in 1 .. Len(lock.body) : lock.body[i] = cache[p][i]

CachesSorted == \A p \in Proc : Sorted(cache[p])

\* The stream b is that of the file q whenever its stamp is s, and the stamp is
\* not one that a future edit will use.
Describes(q, s, b) ==
  /\ s <= clock
  /\ (work[q] # NoFile /\ work[q].stat = s) => Stream(work[q].data) = b

\* An entry that is safe to install.
Sound(e) ==
  /\ objects[e.sha1] # "absent"
  /\ Describes(e.name, e.stat, e.sha1)

\* The entries in a process's memory are sound, and the one under
\* construction becomes so step by step.
MemorySound(p) ==
  /\ \A i \in 1 .. Len(cache[p]) : Sound(cache[p][i])
  /\ pc[p] = "mmap" => Describes(ce[p].name, ce[p].stat, Stream(fd[p]))
  /\ pc[p] \in {"creat", "write"} => Describes(ce[p].name, ce[p].stat, ce[p].sha1)
  /\ pc[p] = "write" => objects[ce[p].sha1] # "absent"

(***************************************************************************)
(* Every entry on disk or in memory is sound.                              *)
(***************************************************************************)
EntriesSound ==
  /\ \A q \in Path : work[q] # NoFile => work[q].stat <= clock
  /\ index # NoFile => \A i \in 1 .. Len(index.body) : Sound(index.body[i])
  /\ \A p \in Proc : MemorySound(p)

Inv ==
  /\ TypeOK /\ LockOwned /\ LockFilePrefix /\ IndexComplete
  /\ IndexSorted /\ CachesSorted /\ EntriesSound /\ NrWithinAlloc

\* Why the objects of the index are written: those of every cache are, and an
\* object file is partial exactly while its creator is about to write it.
ObjectsSettled ==
  /\ \A b \in Blob : objects[b] \in {"absent", "partial", Filled(b)}
  /\ PartialHasWriter /\ IndexObjectsWhole
  /\ \A p \in Proc : \A i \in 1 .. Len(cache[p]) : Whole(cache[p][i])
  /\ \A p \in Proc : pc[p] = "write" => objects[ce[p].sha1] = "partial"

\* No path that the index can hold comes behind one that is deleted.
OnlyLastDeleted == \A d \in Deletable : \A q \in Path \ Rejected : q <= d

\* A path that was once found in the work tree, and may be gone only if it is
\* one the user deletes.
Kept(q) == q \notin Rejected /\ (work[q] # NoFile \/ q \in Deletable)

UniqueAndKept(entries) ==
  Unique(entries) /\ \A i \in 1 .. Len(entries) : Kept(entries[i].name)

\* Why names stay unique when only the last path is deleted: every other cached
\* path exists, so that remove_file_from_cache has only the last entry to remove.
OnlyLastGoes ==
  /\ index # NoFile => UniqueAndKept(index.body)
  /\ \A p \in Proc :
       /\ UniqueAndKept(cache[p])
       /\ pc[p] \in {"mmap", "creat", "write"} => Kept(ce[p].name)

\* Outside its arguments a process's cache is the index it has read.
OnlyArgsDiffer(p) ==
  \A e \in Entry : e.name \notin Args(p) =>
    (e \in Entries(base[p]) <=> \E i \in 1 .. Len(cache[p]) : cache[p][i] = e)

CacheIsLocal ==
  \A p \in Proc :
    /\ pc[p] \in {"idle", "read"} => cache[p] = <<>>
    /\ pc[p] \in {"mmap", "creat", "write"} => ce[p].name \in Args(p)
    /\ pc[p] \notin {"idle", "read"} => OnlyArgsDiffer(p)

-----------------------------------------------------------------------------
\* The abstract specification.

\* The index as its readers see it.
IndexContents == IF index = NoFile THEN NoFile ELSE index.body

Store == INSTANCE IndexStore
           WITH index <- IndexContents, faulty <- faults > 0, Contents <- Seq(Entry)

(***************************************************************************)
(* git --add implements IndexStore: between two states of any process the  *)
(* other commands see the old index or the new one, sorted and with its    *)
(* objects in place.                                                       *)
(***************************************************************************)
ImplementsStore == Store!StoreSpec

-----------------------------------------------------------------------------
\* Liveness.

(***************************************************************************)
(* Every invocation ends: nothing in update_cache waits.                   *)
(***************************************************************************)
AddTerminates == \A p \in Proc : pc[p] # "idle" ~> pc[p] = "idle"

(***************************************************************************)
(* Without faults the lock is released, by rename or by unlink, also when  *)
(* a path cannot be added.  It is about users who do not truncate a file   *)
(* while it is read: TruncatedWhileRead kills the process that holds the   *)
(* lock.                                                                   *)
(***************************************************************************)
LockReleased == lock # NoFile ~> (lock = NoFile \/ faults > 0)

-----------------------------------------------------------------------------
\* What the documentation says of the index, where the code differs.

(***************************************************************************)
(* README: the cache can re-generate the full state it caches.  Its data   *)
(* needs every object of an entry to be whole once nobody is writing it,   *)
(* and no contents to be cut.                                              *)
(***************************************************************************)
Regenerable ==
  \A e \in Entries(index) :
    \/ objects[e.sha1] = "whole"
    \/ \E p \in Proc : pc[p] = "write" /\ ce[p].sha1 = e.sha1

(***************************************************************************)
(* README: the cache can re-generate the full state it caches.  That needs *)
(* an index that read_cache accepts.                                       *)
(***************************************************************************)
IndexReadable == Readable(index)

(***************************************************************************)
(* README: names are unique at any point in time.                          *)
(***************************************************************************)
NamesUnique == \A p \in Proc : Unique(cache[p])

(***************************************************************************)
(* notebook.md: update-cache adds the files' information to the index.     *)
(* Installing a new index then changes only the paths that were named.     *)
(***************************************************************************)
InstallIsLocal == [][\A p \in Proc : Rename(p) => TouchesOnlyArgs(p)]_vars
=============================================================================
