------------------------------ MODULE DirCache ------------------------------
(***************************************************************************)
(* The directory cache as a data structure: struct cache_entry, the array  *)
(* active_cache[0 .. active_nr-1] that read_cache loads and update_cache   *)
(* edits, and the operations of update-cache.c on that array.              *)
(*                                                                         *)
(* active_cache is modelled by a sequence, so the C index pos is the TLA+  *)
(* index pos + 1 and active_nr is the length of the sequence.  Path names  *)
(* are abstracted to numbers in the order of cache_name_compare (bytewise  *)
(* on the common prefix, the shorter name first), so that "less than" on   *)
(* names is <.                                                             *)
(***************************************************************************)
EXTENDS Integers, Sequences

CONSTANTS
  Path,       \* the path names, numbered in cache_name_compare order
  Blob,       \* the non-empty file contents; a blob's SHA1 name is the blob
  Cut,        \* streams that end, unfinished, where the buffer of index_fd ends
  AllocSlack  \* the 16 of the macro alloc_nr(x) = ((x)+16)*3/2

ASSUME PathAssumption == Path \subseteq Nat

ASSUME AllocSlackAssumption == AllocSlack \in Nat \ {0}

ASSUME CutAssumption == Cut \subseteq Blob

(***************************************************************************)
(* struct cache_entry.  The ten stat fields (times, inode, mode, owner,    *)
(* size) are one stamp, because the code only ever compares all of them.   *)
(***************************************************************************)
Entry == [name : Path, stat : Nat, sha1 : Blob]

\* What an object file may hold of its object.
Held == {"absent", "partial", "cut", "whole"}

\* What it holds when write() has written all it was given.
Filled(b) == IF b \in Cut THEN "cut" ELSE "whole"

(***************************************************************************)
(* Every name is at least as large as the ones before it.  Equal           *)
(* neighbours are allowed: remove_file_from_cache can produce them.        *)
(***************************************************************************)
Sorted(cache) ==
  \A i, j \in 1 .. Len(cache) : i < j => cache[i].name <= cache[j].name

Unique(cache) ==
  \A i, j \in 1 .. Len(cache) : i # j => cache[i].name # cache[j].name

(***************************************************************************)
(* What cache_name_pos promises its callers about a sorted cache: a        *)
(* negative result -i-1 names a slot i that holds the name, any other      *)
(* result is the slot where the name has to be inserted.  Module           *)
(* CacheNamePos shows that the binary search keeps this promise.           *)
(***************************************************************************)
IsNamePos(cache, name, pos) ==
  \/ \E i \in 1 .. Len(cache) : pos = -i /\ cache[i].name = name
  \/ /\ pos \in 0 .. Len(cache)
     /\ \A i \in 1 .. pos : cache[i].name < name
     /\ \A i \in pos + 1 .. Len(cache) : name < cache[i].name

NamePositions(cache, name) ==
  {pos \in -Len(cache) .. Len(cache) : IsNamePos(cache, name, pos)}

-----------------------------------------------------------------------------

\* memmove of n array elements from slot src to slot dst (1-based slots)
MemMove(array, dst, src, n) ==
  [i \in 1 .. Len(array) |->
     IF i \in dst .. dst + n - 1 THEN array[i - dst + src] ELSE array[i]]

AllocNr(x) == ((x + AllocSlack) * 3) \div 2

\* Mutant: no memmove, the entry overwrites the one at its slot.
AddCacheEntryNoGap(cache, pos, ce) ==
  IF pos < 0
  THEN [cache EXCEPT ![-pos] = ce]
  ELSE [i \in 1 .. (IF pos = Len(cache) THEN pos + 1 ELSE Len(cache)) |->
          IF i = pos + 1 THEN ce ELSE cache[i]]

\* Mutant: an existing entry of the name is not replaced.
AddCacheEntryTwice(cache, pos, ce) ==
  LET slot == IF pos < 0 THEN -pos - 1 ELSE pos
  IN  SubSeq(cache, 1, slot) \o <<ce>> \o SubSeq(cache, slot + 1, Len(cache))

(***************************************************************************)
(* add_cache_entry: replace the entry of that name, or open a gap at pos   *)
(* (0-based) and put the new entry there.                                  *)
(***************************************************************************)
AddCacheEntry(cache, pos, ce) ==
  IF pos < 0
  THEN [cache EXCEPT ![-pos] = ce]
  ELSE LET longer == Append(cache, ce)
       IN  [MemMove(longer, pos + 2, pos + 1, Len(cache) - pos)
              EXCEPT ![pos + 1] = ce]

\* Mutant: the array does not grow.
AllocAfterAddNever(cache, pos, alloc) == alloc

\* The allocation after add_cache_entry: it grows when the array is full.
AllocAfterAdd(cache, pos, alloc) ==
  IF pos >= 0 /\ Len(cache) = alloc THEN AllocNr(alloc) ELSE alloc

(***************************************************************************)
(* remove_file_from_cache of update-cache.c.  active_nr is decremented     *)
(* first and the count of the memmove then subtracts one more, so the last *)
(* of the following entries is not moved.                                  *)
(***************************************************************************)
RemoveFileFromCache(cache, pos) ==
  IF pos >= 0
  THEN cache
  ELSE LET nr == Len(cache) - 1
       IN  SubSeq(MemMove(cache, -pos, -pos + 1, nr - (-pos - 1) - 1), 1, nr)
=============================================================================
