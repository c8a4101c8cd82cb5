------------------------------ MODULE Command -------------------------------
(***************************************************************************)
(* One git process: main of command.c, which handles every option of its   *)
(* command line in turn, with status.c, remove.c and the parts of the      *)
(* other commands that touch what the options share: the array             *)
(* active_cache, the index on disk and the lock.                           *)
(*                                                                         *)
(* read_cache refuses to run a second time once active_cache is set, so an *)
(* option can find the array as an earlier one left it.                    *)
(*                                                                         *)
(* The index is complete and readable except without entries (module       *)
(* UpdateCache), the objects are left to UpdateCache and Commit, and only  *)
(* this process runs.                                                      *)
(***************************************************************************)
EXTENDS DirCache

CONSTANTS
  NoFile,       \* an index that does not exist
  Files,        \* the paths of the files in the work tree
  Rejected,     \* the words verify_path rejects
  OptionWord,   \* an option as a word of argv: a path without a file
  Lines,        \* the command lines: [options, operands]
  Indexes,      \* the indexes a process may find
  UIntMod       \* the 2^32 of unsigned int

NoArg == -1

\* An option, its argument, and whether that is part of its word (--rm=path).
OptionRecord == [opt : STRING, arg : Path \cup {NoArg}, joined : BOOLEAN]

ASSUME CommandAssumption ==
  /\ OptionWord \in Path \ Files
  /\ Files \subseteq Path /\ Rejected \subseteq Path
  /\ Blob # {}
  /\ NoFile \notin Seq(Entry)
  /\ \A c \in Indexes : c \in Seq(Entry) /\ Sorted(c)
  /\ UIntMod \in Nat \ {0}

Names(cache) == {cache[i].name : i \in 1 .. Len(cache)}

\* The entry add_file_to_cache makes for a path; its contents do not matter here.
EntryOf(p) == [name |-> p, stat |-> 0, sha1 |-> CHOOSE b \in Blob : TRUE]

\* An option in argv: its argument is a word of its own unless it is joined.
OptionWords(option) ==
  IF option.arg = NoArg \/ option.joined
  THEN <<OptionWord>> ELSE <<OptionWord, option.arg>>

\* The words of argv behind argv[0].
Words(line) ==
  LET before[k \in 0 .. Len(line.options)] ==
        IF k = 0 THEN <<>> ELSE before[k - 1] \o OptionWords(line.options[k])
  IN  before[Len(line.options)] \o line.operands

\* The table opts of main gives --rm an argument; active_nr counts all that
\* a command line can add to an index.
ASSUME LinesAssumption ==
  /\ Lines \subseteq [options : Seq(OptionRecord), operands : Seq(Path)]
  /\ \A line \in Lines : \A k \in 1 .. Len(line.options) :
       line.options[k].opt = "rm" => line.options[k].arg # NoArg
  /\ \A line \in Lines, c \in Indexes \cup {<<>>} : Len(c) + Len(Words(line)) < UIntMod

VARIABLES
  repo,     \* .dircache and its object directories exist
  index,    \* .dircache/index
  locked,   \* somebody's index.lock exists
  cmdline,  \* ghost: the command line
  argv,     \* the words behind argv[0]
  todo,     \* the options getopt_long has not returned yet
  pc,       \* where main is: getopt, in the loop of update_cache, or how it ended
  argi,     \* the loop variable i of update_cache
  loaded,   \* active_cache is not null
  cache,    \* the slots of active_cache that have been filled
  nr,       \* active_nr
  said      \* ghost: what --status said in the last step

disk == <<repo, index, locked>>
memory == <<loaded, cache, nr>>
vars == <<disk, memory, cmdline, argv, todo, pc, argi, said>>

Message == [what : {"staged", "unstaged"}, path : Path]

TypeOK ==
  /\ repo \in BOOLEAN /\ locked \in BOOLEAN /\ loaded \in BOOLEAN
  /\ index \in {NoFile} \cup Seq(Entry)
  /\ cmdline \in [options : Seq(OptionRecord), operands : Seq(Path)]
  /\ argv \in Seq(Path)
  /\ pc \in {"getopt", "add", "return 0", "return 1", "died"}
  /\ argi \in 1 .. Len(argv) + 1
  /\ cache \in Seq(Entry)
  /\ nr \in 0 .. UIntMod - 1
  /\ pc # "died" => nr <= Len(cache)
  /\ said \subseteq Message

Init ==
  /\ repo \in BOOLEAN
  /\ index \in {NoFile} \cup (IF repo THEN Indexes ELSE {})
  /\ locked \in (IF repo THEN BOOLEAN ELSE {FALSE})
  /\ cmdline \in Lines /\ argv = Words(cmdline) /\ todo = cmdline.options
  /\ pc = "getopt" /\ argi = 1
  /\ loaded = FALSE /\ cache = <<>> /\ nr = 0
  /\ said = {}

\* getopt_long returns the next option.
Option(name) ==
  /\ pc = "getopt" /\ todo # <<>> /\ Head(todo).opt = name
  /\ todo' = Tail(todo)
  /\ UNCHANGED <<cmdline, argv, argi>>

Goto(l) == pc' = l

Say(messages) == said' = messages

-----------------------------------------------------------------------------
\* read_cache

\* Mutant: a second call returns the array of the first.
ReadResultAgain ==
  [fails   |-> ~repo,
   entries |-> IF loaded THEN SubSeq(cache, 1, nr) ELSE IF index = NoFile THEN <<>> ELSE index]

(***************************************************************************)
(* It fails when called again and without access to the object directory.  *)
(* Without an index it finds no entry.                                     *)
(***************************************************************************)
ReadResult ==
  [fails   |-> loaded \/ ~repo,
   entries |-> IF index = NoFile THEN <<>> ELSE index]

\* An index that is all header is read through a null pointer.
ReadDies == ~ReadResult.fails /\ index = <<>>

\* active_cache stays null when there is no index.
ReadCache ==
  /\ ~ReadResult.fails /\ ~ReadDies
  /\ loaded' = (loaded \/ index # NoFile)
  /\ cache' = ReadResult.entries
  /\ nr' = Len(ReadResult.entries)

ReadFails == ReadResult.fails /\ UNCHANGED memory

\* The process dies in read_cache, whatever the option.
Dies ==
  /\ \E o \in {"status", "diff", "add", "commit", "rm"} : Option(o)
  /\ ReadDies
  /\ Goto("died") /\ Say({})
  /\ UNCHANGED <<disk, memory>>

-----------------------------------------------------------------------------
\* The options

\* init: an existing .dircache ends the program.
InitOption ==
  /\ Option("init") /\ Say({})
  /\ repo' = TRUE
  /\ Goto(IF repo THEN "return 1" ELSE "getopt")
  /\ UNCHANGED <<index, locked, memory>>

\* The words status reports on.
Asked == {argv[i] : i \in 2 .. Len(argv)} \ Rejected

Status ==
  /\ Option("status")
  /\ Goto("getopt")
  /\ \/ ReadFails /\ Say({})
     \/ /\ ReadCache
        /\ Say({[what |-> IF p \in Names(cache') THEN "staged" ELSE "unstaged",
                 path |-> p] : p \in Asked})
  /\ UNCHANGED disk

Diff ==
  /\ Option("diff") /\ Say({})
  /\ \/ ReadFails /\ Goto("return 1")
     \/ ReadCache /\ Goto("getopt")
  /\ UNCHANGED disk

(***************************************************************************)
(* commit: write_tree ends the program when there is nothing to write, and *)
(* commit_tree when a word it takes for a parent is not a name in hex.  No *)
(* option is one, another word may be.                                     *)
(***************************************************************************)
Commit ==
  /\ Option("commit") /\ Say({})
  /\ \/ ReadFails /\ Goto("return 1")
     \/ ReadCache /\ (nr' = 0 \/ Len(argv) >= 2) /\ Goto("return 1")
     \/ /\ ReadCache /\ nr' > 0
        /\ \A i \in 2 .. Len(argv) : i % 2 = 0 => argv[i] # OptionWord
        /\ Goto("getopt")
  /\ UNCHANGED disk

Reset ==
  /\ Option("reset") /\ Say({}) /\ Goto("getopt")
  /\ UNCHANGED <<disk, memory>>

\* cat_file: usage() unless argc is 3; else it depends on the object.
CatFile ==
  /\ Option("cat-file") /\ Say({})
  /\ \/ Goto("return 1")
     \/ Len(argv) = 2 /\ Goto("getopt")
  /\ UNCHANGED <<disk, memory>>

\* read_tree, whose case runs on into that of an unknown option
Usage ==
  /\ Option("read-tree") \/ Option("?")
  /\ Say({}) /\ Goto("return 1")
  /\ UNCHANGED <<disk, memory>>

\* Mutant: active_nr is signed.
DecrementSigned(n) == n - 1

\* active_nr--
Decrement(n) == (n + UIntMod - 1) % UIntMod

\* Mutant: the last entry is not moved, as in update-cache.c.
DropShort(entries, n, slot) ==
  [i \in 1 .. Len(entries) |-> entries[IF i \in slot .. n - 2 THEN i + 1 ELSE i]]

\* The loop of remove.c that overwrites slot (from 1) of n entries.
Drop(entries, n, slot) ==
  [i \in 1 .. Len(entries) |-> entries[IF i \in slot .. n - 1 THEN i + 1 ELSE i]]

(***************************************************************************)
(* remove.c with the result pos of its cache_name_pos, and the listing,    *)
(* which kills the process when active_nr exceeds the filled slots.        *)
(***************************************************************************)
RemoveAndList(entries, n, pos) ==
  /\ nr' = IF pos < 0 THEN Decrement(n) ELSE n
  /\ cache' = IF pos < 0 THEN Drop(entries, n, -pos) ELSE entries
  /\ Goto(IF nr' > Len(entries) THEN "died" ELSE "getopt")
  /\ Say({})

(***************************************************************************)
(* remove_function: the path is argv[2], whatever optarg is, and the -1    *)
(* that cache_name_pos returns when read_cache fails is also its result    *)
(* for a match in slot 0.  Without an argv[2] its length is that of a null *)
(* pointer.  The index is not written.                                     *)
(***************************************************************************)
Rm ==
  /\ Option("rm") /\ Len(argv) >= 2
  /\ \/ ReadResult.fails /\ RemoveAndList(cache, nr, -1) /\ UNCHANGED loaded
     \/ /\ ~ReadResult.fails /\ ~ReadDies
        /\ loaded' = (loaded \/ index # NoFile)
        /\ \E pos \in NamePositions(ReadResult.entries, argv[2]) :
             RemoveAndList(ReadResult.entries, Len(ReadResult.entries), pos)
  /\ UNCHANGED disk

RmDies ==
  /\ Option("rm") /\ Len(argv) < 2
  /\ Goto("died") /\ Say({})
  /\ UNCHANGED <<disk, memory>>

-----------------------------------------------------------------------------
\* update_cache

\* It returns before the loop: read_cache failed, or the lock is taken.
AddRefused ==
  /\ Option("add")
  /\ ReadFails \/ (ReadCache /\ locked)
  /\ Goto("getopt") /\ Say({})
  /\ UNCHANGED disk

AddStart ==
  /\ Option("add")
  /\ ReadCache /\ ~locked
  /\ locked' = TRUE
  /\ Goto("add") /\ Say({})
  /\ UNCHANGED <<repo, index>>

InLoop == pc = "add" /\ argi <= Len(argv)

Edited(entries) == cache' = entries /\ nr' = Len(entries)

NextArg ==
  /\ argi' = argi + 1
  /\ Say({})
  /\ UNCHANGED <<disk, cmdline, argv, todo, pc>>

AddIgnored ==
  /\ InLoop /\ argv[argi] \in Rejected
  /\ NextArg
  /\ UNCHANGED memory

AddFile ==
  /\ InLoop /\ argv[argi] \in Files \ Rejected
  /\ \E pos \in NamePositions(SubSeq(cache, 1, nr), argv[argi]) :
       Edited(AddCacheEntry(SubSeq(cache, 1, nr), pos, EntryOf(argv[argi])))
  /\ loaded' = TRUE
  /\ NextArg

RemoveMissing ==
  /\ InLoop /\ argv[argi] \notin Files \cup Rejected
  /\ \E pos \in NamePositions(SubSeq(cache, 1, nr), argv[argi]) :
       Edited(RemoveFileFromCache(SubSeq(cache, 1, nr), pos))
  /\ UNCHANGED loaded

\* remove_file_from_cache returns no value; here the caller finds 0.
AddMissing == RemoveMissing /\ NextArg

\* The end of update_cache and of its case in main.
AddEnds ==
  /\ locked' = FALSE /\ argi' = 1
  /\ Goto("getopt")
  /\ UNCHANGED <<repo, cmdline, argv, todo>>
  /\ Say({})

\* Mutant: the new index is installed also when a path could not be added.
AddFailsInstalls ==
  /\ pc = "add" /\ AddEnds
  /\ UNCHANGED memory \/ RemoveMissing
  /\ index' = SubSeq(cache', 1, nr')

\* out: a path could not be added, or the new index not be written.
AddFails ==
  /\ pc = "add" /\ AddEnds
  /\ UNCHANGED memory \/ RemoveMissing
  /\ UNCHANGED index

AddDone ==
  /\ pc = "add" /\ argi > Len(argv)
  /\ index' = SubSeq(cache, 1, nr)
  /\ AddEnds
  /\ UNCHANGED memory

\* getopt_long returns -1
Return ==
  /\ pc = "getopt" /\ todo = <<>>
  /\ Goto("return 0") /\ Say({})
  /\ UNCHANGED <<disk, memory, cmdline, argv, todo, argi>>

Next ==
  \/ Dies \/ InitOption \/ Status \/ Diff \/ Commit \/ Reset \/ CatFile \/ Usage
  \/ Rm \/ RmDies
  \/ AddRefused \/ AddStart \/ AddIgnored \/ AddFile \/ AddMissing \/ AddFails \/ AddDone
  \/ Return

Spec == Init /\ [][Next]_vars

-----------------------------------------------------------------------------

Staged(p) == index # NoFile /\ p \in Names(index)

(***************************************************************************)
(* What --status says of a path is true of the index on disk, whichever    *)
(* options came before it in the process: after --rm has edited the array  *)
(* in memory, or --add has read it, read_cache refuses to go on.           *)
(***************************************************************************)
StatusTrue ==
  \A m \in said : /\ m.what = "staged" => Staged(m.path)
                  /\ m.what = "unstaged" => ~Staged(m.path)

StagedNames == IF index = NoFile THEN {} ELSE Names(index)

\* The arguments of the options of a name, and those that are words.
Arguments(name) ==
  {cmdline.options[k].arg : k \in {k \in 1 .. Len(cmdline.options) :
                                     cmdline.options[k].opt = name}}

SeparateArguments(name) ==
  {cmdline.options[k].arg : k \in {k \in 1 .. Len(cmdline.options) :
                                     /\ cmdline.options[k].opt = name
                                     /\ ~cmdline.options[k].joined}}

\* The files that a command line with --add asks for.
ToStage ==
  (SeparateArguments("add") \cup
   {cmdline.operands[i] : i \in 1 .. Len(cmdline.operands)}) \cap (Files \ Rejected)

(***************************************************************************)
(* When every entry of the index has its file, an --add that installs an   *)
(* index stages every file it was asked for and loses no entry, except     *)
(* that nothing is said of the paths the same command line names to --rm.  *)
(* What it stages are files that the command line names: what earlier      *)
(* options did to the array does not reach the disk.                       *)
(***************************************************************************)
AddIsExact ==
  [][index' # index =>
       /\ (StagedNames \cup ToStage) \ Arguments("rm") \subseteq StagedNames'
       /\ StagedNames' \subseteq
            StagedNames \cup ({argv[i] : i \in 1 .. Len(argv)} \cap (Files \ Rejected))]_vars

(***************************************************************************)
(* git --rm path, with --rm the first option and the path its own word,    *)
(* takes this path and nothing else out of the array: unlike its copy in   *)
(* update-cache.c this remove_file_from_cache moves every later entry.     *)
(***************************************************************************)
RmIsExact ==
  [][/\ todo = cmdline.options /\ todo' # todo /\ pc' = "getopt"
     /\ Head(todo).opt = "rm" /\ ~Head(todo).joined
     => Names(SubSeq(cache', 1, nr')) = StagedNames \ {Head(todo).arg}]_vars
=============================================================================
