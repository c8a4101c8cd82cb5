# Verification of self_git

self_git is a small C reimplementation of the first version of git: one program,
`git`, whose options create a repository, stage files, commit and inspect. This
directory holds TLA+ models of it, the TLC runs that check them on small
instances, and TLAPS proofs that hold for every value of the constants.

## The system

| Part | Source | State it changes |
|---|---|---|
| command line | `command.c` | handles its options one after the other in one process |
| `--init` | `init-db.c` | creates `.dircache`, `objects` and 256 directories |
| `--add` | `update-cache.c` | `index.lock`, `index`, blob objects |
| index file | `read-cache.c` (`read_cache`, `verify_hdr`), `update-cache.c` (`write_cache`) | the array `active_cache` |
| object database | `read-cache.c` (`write_sha1_buffer`, `write_sha1_file`, `read_sha1_file`) | files under `objects` |
| `--commit` | `commit.c`, `write-tree.c`, `commit-tree.c` | tree and commit objects |
| `--rm` | `remove.c` | `active_cache` in memory only |
| `--status`, `--diff` | `status.c`, `show-diff.c` | none |
| `--cat-file`, `--read-tree` | `cat-file.c`, `read-tree.c` | a temporary file, standard output |

All processes share the directory `.dircache`. Only `--add` takes the lock
`index.lock`; it writes the new index into the lock file and renames it over the
old one. Objects are created with `O_EXCL` under the SHA1 of their contents.

## Modules

| Module | Models |
|---|---|
| `DirCache` | `struct cache_entry`, `alloc_nr`, `add_cache_entry`, `remove_file_from_cache` on a sequence of entries |
| `UpdateCache` | `git --add`: `update_cache` and all it calls, by several processes, with faults and a user |
| `IndexStore` | what `git --add` promises the others: an index that changes in one step, objects created empty and filled once |
| `ShowDiff` | `git --diff` beside the processes and the user of `UpdateCache` |
| `Commit` | `git --commit` (`commit`, `write_tree`, `commit_tree`), by several processes beside `IndexStore` |
| `Repository` | the commands over one repository: `Commit` beside the real `git --add`, the user and `git --diff` |
| `InitDb` | `git --init`, by several processes, with faults |
| `Command` | one process: `main` with several options, `--status`, `--rm`, and what the others do to the shared array |
| `CacheNamePos` | the binary search `cache_name_pos`, one action per branch |
| `VerifyPath` | the loop of `verify_path`, one action per branch |
| `NameOrder` | `cache_name_compare` on byte strings |
| `HexName` | `hexval`, `get_sha1_hex`, `sha1_to_hex`, `sha1_file_name` |
| `RemoveSpecial` | `remove_special`, in place and twice |
| `IndexLayout` | the index as bytes: `write_cache`, `verify_hdr`, the walk of `read_cache` |
| `ObjectFile` | an object as bytes: the buffers of `write_tree` and `commit_tree`, the header, `read_sha1_file`, `unpack` |
| `MCUpdateCache`, `MCShowDiff`, `MCCommit`, `MCInitDb`, `MCCommand`, `MCAlgorithms` | the instances for TLC |
| `DirCacheProofs` | theorems about the array operations, and the lemmas for induction over numbers |
| `NameProofs` | theorems about `CacheNamePos`, `VerifyPath`, `NameOrder`, `HexName` and `RemoveSpecial` |
| `LayoutProofs` | theorems about what is under `.dircache`: `IndexLayout`, `ObjectFile` and `InitDb` |
| `CommandProofs`, `CommitProofs`, `UpdateCacheProofs` | theorems about the module of that name |
| `StoreProofs` | that `UpdateCache` implements `IndexStore`, and what an install changes |
| `RepositoryProofs` | theorems about `ShowDiff` and `Repository`, and how many steps `git --add` takes |

How they fit together: `UpdateCache` is shown to implement `IndexStore`, and
`Commit` extends `IndexStore`. `ShowDiff` extends `UpdateCache` itself, because it
also looks at the work tree. `Repository` puts the three commands together, and
is proved to implement `Commit`, so what holds of a commit beside the abstract
index holds beside `git --add`. `NameOrder`, `IndexLayout` and `CacheNamePos`
justify the abstractions of the concurrent modules.

Abstractions:

- A path is a number; `<` on numbers stands for `cache_name_compare`, which
  `NameOrder` shows to be a total order. The set `Rejected` stands for the
  verdict of `verify_path`, and `NamePositions` for the result of
  `cache_name_pos`.
- The stat fields of an entry are one stamp, and every edit gives a new one. Two
  edits of equal size within the resolution of the file times, and stat fields
  that agree only in their low 32 bits, are therefore outside the model.
- A blob stands for its own SHA1, and so do trees and commits: hash collisions are
  left out. `Torn` is the blob of bytes read while the file was being rewritten.
- `Stream` gives what deflate leaves of the contents in the buffer of `index_fd`.
  Contents that do not fit, such as a large file that cannot be compressed, give a
  stream in `Cut`, which ends unfinished and is hashed and stored like any other.
- In the concurrent modules an object file is absent, partial, cut or whole
  (`Held`). `Filled` is what it holds once `write` has written all it was given: cut
  for a stream in `Cut`, whole for the others.
- An index passes `verify_hdr` exactly when no entry is missing; `IndexLayout`
  shows this for files that have lost their end.
- In `ObjectFile` bytes are lengths, with the sizes of the code (40, 16384,
  32768, 8192); compression keeps lengths, and a torn file inflates to a prefix.
- The number of bytes of a SHA1 is a constant of `HexName`, two in the run instead of
  twenty. Characters are ASCII codes.

In `UpdateCache` an action is one system call with the computation up to the
next one. `pc` names the call that comes next: `read` (read_cache), `lock` (open
of index.lock), `args` (head of the argument loop), `mmap`, `creat`, `write`
(the object), `entries` (write_cache and rename), `unlink` (label `out`).
`fd` is what the opened descriptor showed, `ce` the entry under construction,
`base` a ghost that remembers the index read. `argv[1]`, the string `--add`
itself, is part of the loop as it is in the code. `remove_file_from_cache` has
no return statement, so `RemoveDeleted` lets its caller see success or failure.
`CallFails` is any failing system call, `Crash` a kill at any point, `Edit` and
`Delete` the user, and `ClearLock` the user removing a stale lock by hand, which
no program does.

In `ShowDiff` the variables with a `d` belong to `show_diff`, and `said` is its
last report together with the file and the object as they were at that moment.

In `Commit` `made` are the trees and commits that have a file and `filled` those
that have been written; `announced` is a ghost of the "Completed to commmit!"
messages. `HasZero` are the trees whose SHA1 has a zero byte, which the `strcpy`
of `write_tree` cuts. `IndexStore!StoreNext` moves the index at any time. In
`Repository` it is the steps of `ShowDiff` that move the index, and `faulty` is
shared: a fault of `git --add` is one for the commit that reads after it.

In `InitDb` an action is one `mkdir` or the `stat` of `SHA1_FILE_DIRECTORY`. A
`mkdir` that tolerates `EEXIST` is a union with what exists. `exit` remembers how
the last invocation of a process ended. `RemoveRepository` is the user's
`rm -r .dircache`, taken only while no process is past its first `mkdir`.

In `Command` an action is one option, and for `--add` one argument of its loop.
`argv` are the words behind `argv[0]`, and `cmdline` is a ghost that remembers which
of them belong to which option; an argument may also be joined to its option
(`--rm=path`). `cache` and `nr` are kept apart because `--rm` decrements `active_nr` without
looking; `UIntMod` is the 2^32 at which it wraps. `read_cache` returns an error
when an earlier option has loaded the array.

## Runs

| Run | Instance | Checks |
|---|---|---|
| `add_safety` | 2 `--add` processes, 3 invocations, 2 edits or deletions, 1 fault | lock ownership, a complete index, objects that hold all that was made of the contents, reliable stat data, array bounds, and that `UpdateCache` implements `IndexStore` (a sorted index and existing objects included) |
| `show_diff` | `--diff` beside 2 `--add` processes, 2 invocations, 2 edits or deletions of the last path, 1 fault | "ok" is true, old contents come from objects that hold all that was made of them; unique names, and an install from a current snapshot changes only its own paths |
| `liveness` | `--diff` beside 2 `--add` processes, 3 invocations, 1 deletion, no fault, an empty file that cannot be added | every command ends, the lock is released |
| `init_db` | 2 processes, 3 invocations, 1 fault, fan-out 3, every environment | one builder at a time, success means a full private database, or that the environment names a directory |
| `commit` | 2 committers, 2 invocations, 3 indexes, any number of faults and kills | trees have their blobs, commits their trees, what is announced is stored and as requested, trees become whole |
| `command` | all command lines of up to 3 options, with and without repository, index and lock | what `--status` says is true, `--add` stages what it was asked for and loses nothing, an `--rm` that is the first option takes out exactly its path |
| `algorithms` | all inputs below the bounds | the sequential algorithms, each against a definition of its result |
| `add_lost_update`, `add_duplicate`, `add_torn_object`, `add_header_only`, `commit_tree_name` | as small as shows the case | expected violations, see below |

Bounds. Two processes and three invocations let one invocation overlap another
and a third start from the index they left. `AllocSlack`, the 16 of `alloc_nr`,
is smaller in the concurrent runs so that the array does get full. In
`algorithms` length 5 gives the binary search three probes and both kinds of
midpoint, and gives a path two components with every kind of beginning; three
names are what transitivity is about; nine name lengths in a row meet every
padding of an index entry; trees of up to 3 entries with names of up to 4095
bytes and commits of up to 33500 bytes cross every size of the buffers; the
characters of `HexName` are those at the edges of the ranges of `hexval`. In
`command` three options let one load the array, a second edit it and a third
look at it; `UIntMod` is 2^16 there, since only the wrap at zero matters.
Processes are symmetric in `add_safety` and `show_diff`. Deadlock is not checked:
the algorithms end, and the number of invocations is bounded.

Fairness. Weak fairness of each process's own step: no call waits for another
process, so the operating system's scheduling suffices. Starting a command,
faults, edits and clearing a lock are never forced. The algorithms are
sequential code that keeps running.

`LockReleased` and `TreeBecomesWhole` say nothing of executions with a fault, and
the run `liveness` has no file that is truncated while it is read (`Editable` is
empty there): a process that dies of SIGBUS with the lock held leaves it behind, and
only the user (`ClearLock`) removes it. `CommandsEnd` supposes that `open` does not
wait, as it does for a FIFO. `CommitTreeExists` and `AnnouncedIsStored` hold up to the
first fault: a failing write is not noticed by the code. `IndexUnique` and `CurrentInstallIsLocal` are checked where only the
last path is deleted, for which the short `memmove` below does no harm.

## Where code and documentation differ

Shown by a run:

- `add_lost_update`: the index is read before the lock is taken, so one of two
  overlapping invocations can drop what the other added.
- `add_duplicate`: `remove_file_from_cache` moves one entry too few, so a name
  occurs twice and the last entry is lost.
- `add_torn_object`: `write_sha1_buffer` ignores the result of `write` and takes
  an existing file for the object, so the index can name a partial object. The
  README says that the cache can re-generate the data.
- `add_header_only`: an index without entries is exactly as long as its header;
  `read_cache` does not map it and `verify_hdr` reads through a null pointer.
- `commit_tree_name`: `strcpy` stops at a zero byte of the tree's SHA1, so the
  commit names another tree.

Part of the models, as the code has it, and excepted from the properties:

- `index_fd` gives deflate a buffer of the size of the file, its name and 200 bytes,
  and ignores its result (`update-cache.c:96`, `:128-138`). Contents that do not fit
  are stored cut, with no failing call, and the index names them. The README says
  that the cache can re-generate the data; here it cannot, without any fault. So
  `IndexObjectsWhole`, `OldIsWhole` and `Usable` of `IndexStore` say that an object
  holds all that was hashed (`Filled`), which is the whole only if the contents fit.
- `init` fails on an existing `.dircache`, also on a half built one, while `main`
  speaks of reinitialising. `!stat(...) < 0` is never true, so the shared database
  that the comment (`init-db.c:13-18`) and `notebook.md:22` describe is never accepted:
  `init` builds the private one. `write_sha1_buffer` nevertheless creates its objects
  in the directory that `SHA1_FILE_DIRECTORY` names (`read-cache.c:70`), whose fan-out
  directories `init` never makes (`InitDb`, the exception in `SuccessIsComplete`).
- `--commit` never looks at `index.lock`, while `notebook.md:29` says that no commit
  can run as long as it exists (`Commit`).
- The parents of a commit are visited in steps of two; and when a write of the
  tree or the commit fails it is announced all the same (`Commit`).
- `--rm` never writes the index. The path it takes out is `argv[2]`, not the argument
  of the option (`remove.c:75`): `--reset --rm 1` looks for a file `--rm`, and
  `--rm=1` alone reads a null pointer. When `read_cache` fails it takes out the first
  entry instead of the named one; and with an empty array `active_nr` wraps and
  the listing dies. `RmIsExact` is about `git --rm path` as the documents give it,
  with `--rm` first.
- The loop of `--add` runs over every word of the command line. `--add 1 --rm 2`
  stages 2, where `--rm` is documented to delete (`src/README.md:16`), and
  `--status 2 --add 1` stages 2 as well. `AddIsExact` says nothing of the paths named
  to `--rm` and allows any word that is a file.
- `--add` of a directory fails in `index_fd`, where `src/README.md:14` offers it. In the
  models a directory is a path that cannot be mapped. `--add` reports success whatever `update_cache` returned. The
  case of `--read-tree` runs on into the usage message (`Command`).
- A torn object is read as if it were whole; and `add_buffer` believes the first
  buffer to be 32768 bytes long where it has 16384, so a commit with a length in
  between does not fit (`ObjectFile`, the exception in `BuffersFit`).

## Proofs

All hold for any number of processes, paths, blobs, edits and faults, within the
assumptions below. Those about names hold for strings of any length and SHA1s of
any number of bytes, those about object files up to the bounds given there.

Names (`NameProofs`):

- `SearchCorrect`, from `Window`: slots left of `first` hold smaller names, slots
  from `last` on larger ones. Needs only that the cache is sorted.
- `VerdictIsCorrect` and `StaysInString`, from `Scanned`: every component begun
  so far begins well, and `c` is the character before the pointer.
- `CompareIsTotalOrder` and `OrderIsTotal`: the sign of `cache_name_compare` is
  the order `Less` by the first byte that differs or by the length. `OrderInv` says
  that every call that has returned has this result.
- `ParseIsCorrect` and `FileNameIsRight`, from `HexInv`: for each byte a loop has
  passed, the value is that of its two digits, the text has them in lower case, and
  the path has them in their place. The buffer of `sha1_file_name`, fresh or left by
  an earlier call, has its slash.
- `SpecialIsRemoved`, from `CopyInv`: in the first call the memory begins with what
  is kept of the characters read, and the rest is untouched; the second call copies
  the result onto itself.

Files as bytes (`LayoutProofs`):

- `WalkFindsEverything` and `WalkReadsTheFileOnly`, from `LayoutInv`: the writer puts
  entry k behind the padded sizes of those before it (`Total`), the reader stands
  where its next entry begins, and only walks a file of the full length. A file with
  no more than its header left is not mapped, and kills the reader (`NotMapped`). `Total`
  grows strictly, so no two entries begin at the same place.
- `BuffersAreLongEnough`, from `BufferInv`: the buffer of a tree is at least as long
  as what is used of it; that of a commit is the one of `init_buffer`, or the size
  in use rounded up. The exception in `BuffersFit` for the first buffer of a commit
  is part of the theorem.
- `HeaderIsExact`, from `HeaderInv`: the digits printed, read behind what is left to
  print, are the length. A step keeps this because reading a digit put in front is
  reading the rest behind ten times as much (`ValuePrepended`). What is left also
  shrinks below a power of ten (`Left`), so there are at most ten digits.
- `WholeObjectIsRead`, from `ReadInv`: after the first inflate the reader has what
  fits its buffer of the file, less the header.
- `WholeTreeIsNotCorrupt`, from `ListInv`: what `unpack` has left is the length of
  the entries it has not listed, so on a whole tree it finds nothing corrupt and
  has listed every entry when it ends. This is the safety half of `ListsWholeTree`;
  that it ends is left to the run.
- `ObjectLoopsShrink`: each round of the loop over digits leaves a smaller positive
  value or is the last, and each round of `unpack` takes at least a SHA1 off the
  size, which never wraps around.

One process (`CommandProofs`):

- `CommandTypes` and `StatusIsTrue`, from `Inv`: before anything is loaded the array
  is empty (`Fresh`), `argv` are the words of a command line (`Line`), and
  in the loop of `--add` the array is sorted and `active_nr` has room for all
  arguments (`Adding`).
- `AddInstallsExactly`, with `Exact`: in the loop the array has the names of the
  index and of the files passed so far. That every file asked for is among the words
  of `argv` is the lemma `ToStageInArgv`. The theorem supposes that every entry of an
  index has its file, since `--add` of a path without one takes its entry out.
- `RmRemovesExactly` is about an `--rm` that is the first option, whose argument is then
  `argv[2]` (`Starts`). It supposes that no index names a path twice, since `--rm` takes
  out one entry. The indexes of the run `command` satisfy both hypotheses.

The array, and several processes:

- `AddKeepsSorted`, `AddKeepsUnique` and `RemoveKeepsSorted`: the array operations
  keep the order and invent no entry. The short `memmove` duplicates but does not
  reorder.
- `PositionExists`: in a sorted cache every name has a position in `NamePositions`, and
  just one when the names are unique. `RemoveLastIsExact`: the short `memmove` does no
  harm when the entry taken out is the last one.
- `LockIsExclusive`, `IndexIsComplete`, `IndexIsSorted`, `ArrayBounds`,
  `ObjectsExist` and `StatIsReliable`, from the inductive invariant `Inv` of
  `UpdateCache`. A complete and sorted index depends on what the lock file holds
  before the rename, so `LockFilePrefix` says it is a prefix of the owner's cache
  behind the final count, and `CachesSorted` that this cache is sorted. The lock
  file can only be its owner's because of `LockOwned`. Existing objects and
  reliable stat data are carried from `fstat` to the rename by `EntriesSound`.
- `PartialIsWritten` and `ObjectsWhole`, from `ObjectsSettled`: without faults a
  partial object has a writer, which holds the lock, so nobody else can meet the
  object before it is filled. A filled object is whole unless its stream was cut.
- `AddImplementsStore`: every step of `git --add` is a step of `IndexStore` or
  leaves its variables alone. The rename needs `LockFilePrefix`, `CachesSorted`
  and `ObjectsSettled`.
- `NamesStayUnique` and `CurrentInstallStaysLocal`, under `OnlyLastDeleted`: a path
  the user may delete is behind all others that the index can hold, as in the run
  `show_diff`. `OnlyLastGoes` says that then only a last entry is ever taken out,
  `CacheIsLocal` that a cache differs from the index it was read from in the paths
  visited so far.
- `OkNeverLies` and `OldContentsAreWhole`, from `DiffInv`: what `show_diff` has
  read stays sound, whatever is installed, edited or deleted afterwards.
- `TreesHaveBlobs`, `CommitsHaveTrees`, `PartialIsWritten`, `AnnouncedIsRequested`
  and `AnnouncedHasFile`, from `Inv` of `Commit`: `Building` says for each value of
  `pc` what the process has read, created and passed on.
- `BuildsAlone` and `SuccessLeavesAll`, from `IInv`: a process past its first
  `mkdir` is alone, `.dircache` exists, and in the loop the directories below `dir`
  exist. Outside the loop `dir`, the `i` of the code, is 0, without which entering it
  would not preserve this.

The commands together (`RepositoryProofs`):

- `CommitBesideAdd`: every step of `Repository` is a step of `Commit` or leaves its
  variables alone, with the index and the objects of `UpdateCache` in the place of
  those of `IndexStore`. It needs the whole invariant of `git --add`, and that its
  faults are counted as faults (`FaultsCounted`). The invariants in `CommitProofs` are
  proved from `Init /\ [][Next]_vars` (`SafetyInvariance`), which is what this theorem
  provides, so they hold of commits beside `git --add`.
- `OthersBesideCommit`: conversely the invariants of `git --add` and what `git --diff`
  reports are not disturbed by commits.

`Repository` has no run of its own: its parts have, and the proof covers every
instance of the composition.

Bounded steps. That a command ends needs fairness, which the prover does not have;
that it cannot run on forever does not. For each command a number of steps left is
defined, which bounds its calls from the moment it has read the index (for `--init`,
from its start). Each of its own steps makes it smaller, also one that fails, while no
step of anybody else makes it larger:

- `InitTakesBoundedSteps` (`InitEnds`) counts the directories still to be made.
- `CommitTakesBoundedSteps` (`CommitEnds`) counts the entries still to be looked up,
  though the index may change under it: only the snapshot counts.
- `AddTakesBoundedSteps` (`AddEnds`) counts the arguments left, each with its steps,
  and the entries still to be written, of which an argument adds at most one.
- `DiffTakesBoundedSteps` (`DiffEnds`) counts the entries left of the index it has read.
- `SearchIsLogarithmic` (`WindowHalves`): each probe of `cache_name_pos` leaves at most
  half of the window. `ScanIsLinear` (`ScanShrinks`): `verify_path` reads each character
  once.

With weak fairness of a process's own step this gives `CommandsEnd` and the part of
`LoopsEnd` about those loops, once each unfinished process is known to be able to
step; that part is `ENABLED` and is left to the runs.

The type invariants of these modules are proved as well.

Induction: what the recursive functions `Total`, `Value`, `Kept` and `Words` give
for every input is shown without a predicate as parameter. `LeastNumber` says that
a set of numbers has a least element, from the library's well-founded order on the
naturals; `InductionUpTo` is induction for a set, and `IteratesExist` gives the
function that a recursive definition chooses. The last two take the first as a
hypothesis (`LeastNumbers`): only the three modules that use induction extend
`WellFoundedInduction`, and each proves `LeastNumber` there.

Assumptions, all evaluated by the runs:

- `Cut` are streams, and `Stream` gives a stream that is the contents or is in `Cut`.
- Paths are numbers, `AllocSlack` is positive, `FanOut` is a number, the special
  values are distinct, the initial files have stamp 0, and the indexes of
  `IndexStore` are lists of entries.
- In `Command` indexes are sorted lists of entries, an option `--rm` has its
  argument, and the entries of an index with the words of a line are fewer than
  `UIntMod`, so that `active_nr` does not wrap.
- Caches searched are sorted; names are byte strings; texts have one NUL, at the
  end; the memory at the argument of `get_sha1_hex` holds `2 * Bytes + 1` bytes;
  names in an index have a positive length.
- In `ObjectFile` a mode has at most 11 octal digits and a name at most 4095 bytes, a
  line of a commit is shorter than the 2048 bytes of `one_line` (`commit-tree.c:26`),
  a tree has at most 500,000 entries, and a commit at most 2,100,000,000 bytes: the
  length of an object fits the parameter of `prepend_integer`.

Only model-checked: all liveness (`CommandsEnd`, `LockReleased`, `TreeBecomesWhole`,
`LoopsEnd`, `ListsWholeTree`), since fairness is beyond the prover, and the
conjunction `TypeOK` of `MCAlgorithms`, whose conjuncts are proved one by one.

## Not modelled

- The sixteen elements of `parent_sha1`: `Commit` keeps any number of parents.
- A line of a commit that is longer than `one_line`, of which `add_buffer` copies
  bytes from behind the array, and what the `strcpy` of `write_tree` does when no byte of
  the SHA1 is zero: it copies on behind the twenty bytes (`write-tree.c:36`, `:72`).
- Files on which `open` waits, such as a FIFO.
- Operands between options, which `getopt_long` moves to the end of `argv` while
  it runs. `Command` takes lines with the operands at the end.
- Several processes in `Command`, and objects there: they are the subject of the
  other modules. Short options are the same cases of `main`, but that `-c` takes an
  argument.
- Formatting, messages, dates, the password file, the text on standard input, and
  the program that `--diff` pipes into.
- The temporary file of `cat-file`, and `unpack` on a torn tree, whose entries are
  whatever the buffer held.
- `test.c`, an experiment that is not built.
- `git-0.99.1` and `git-master`, copies of upstream git that are not compiled. They
  are nearly all of the lines under the source directory, so the share of those
  lines that the modules stand for is small, while the program's own files are
  covered.
