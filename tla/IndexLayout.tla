---------------------------- MODULE IndexLayout -----------------------------
(***************************************************************************)
(* The index as bytes: write_cache writes a header and the entries, each   *)
(* padded by cache_entry_size; read_cache checks the hash with verify_hdr  *)
(* and then walks from entry to entry.  Entries have no other separator,   *)
(* and the names are used as C strings inside the mapped file.             *)
(*                                                                         *)
(* An entry is the length of its name.  The hash stands for the count and  *)
(* the bytes it was computed over.                                         *)
(***************************************************************************)
EXTENDS Integers, Sequences

CONSTANTS
  NameLens,    \* the lengths of names
  MaxIndexed,  \* bound: entries of an index
  Cuts         \* how many bytes a torn file may lack

ASSUME LayoutAssumption ==
  NameLens \subseteq Nat \ {0} /\ MaxIndexed \in Nat /\ Cuts \subseteq Nat

HeaderSize == 32   \* sizeof(struct cache_header)
NameOffset == 62   \* offsetof(struct cache_entry, name)

VARIABLES
  lens,    \* active_cache of the writer
  phase,
  slot,    \* the loop variable of the writer, then of the reader
  starts,  \* ghost: where the writer put each entry
  size,    \* the bytes of the file
  hash,    \* hdr.sha1: the count and the bytes it covers
  offset,  \* the variable of read_cache
  found    \* active_cache of the reader

layout == <<lens, phase, slot, starts, size, hash, offset, found>>

LayoutTypeOK ==
  /\ lens \in Seq(Nat) /\ starts \in Seq(Nat) /\ found \in Seq(Nat)
  /\ phase \in {"header", "entries", "verify", "walk", "loaded", "refused", "died"}
  /\ slot \in 0 .. Len(lens)
  /\ size \in Nat /\ offset \in Nat
  /\ hash \in [entries : Nat, bytes : Nat]

LayoutInit ==
  /\ lens \in UNION {[1 .. n -> NameLens] : n \in 1 .. MaxIndexed}
  /\ phase = "header" /\ slot = 0
  /\ starts = <<>> /\ found = <<>>
  /\ size = 0 /\ offset = 0
  /\ hash = [entries |-> 0, bytes |-> 0]

\* Mutant: the padding may be empty.
CeSizeTight(len) == ((NameOffset + len + 7) \div 8) * 8

\* ce_size: (62 + len + 8) & ~7
CeSize(len) == ((NameOffset + len + 8) \div 8) * 8

\* Total[k]: the bytes of the first k entries.
Total ==
  LET sum[k \in 0 .. Len(lens)] == IF k = 0 THEN 0 ELSE sum[k - 1] + CeSize(lens[k])
  IN  sum

\* The hash is computed in a loop of its own, before anything is written.
WriteHeader ==
  /\ phase = "header"
  /\ hash' = [entries |-> Len(lens), bytes |-> Total[Len(lens)]]
  /\ size' = HeaderSize
  /\ phase' = "entries"
  /\ UNCHANGED <<lens, slot, starts, offset, found>>

WriteEntry ==
  /\ phase = "entries" /\ slot < Len(lens)
  /\ starts' = Append(starts, size)
  /\ size' = size + CeSize(lens[slot + 1])
  /\ slot' = slot + 1
  /\ UNCHANGED <<lens, phase, hash, offset, found>>

\* The file is complete, or its end is lost later, up to all of it.
Written ==
  /\ phase = "entries" /\ slot = Len(lens)
  /\ \E cut \in {0} \cup Cuts : cut <= size /\ size' = size - cut
  /\ phase' = "verify"
  /\ UNCHANGED <<lens, slot, starts, hash, offset, found>>

\* Mutant: the hash of the header alone is compared.
HashMatchesHeader == hash.entries = Len(lens)

\* verify_hdr hashes everything behind the header, by the size of the file.
HashMatches == hash = [entries |-> Len(lens), bytes |-> size - HeaderSize]

\* read_cache maps only a file longer than the header, and verify_hdr reads
\* the signature of one that was not mapped through a null pointer.
NotMapped ==
  /\ phase = "verify" /\ size <= HeaderSize
  /\ phase' = "died"
  /\ UNCHANGED <<lens, slot, starts, size, hash, offset, found>>

Verify ==
  /\ phase = "verify" /\ size > HeaderSize
  /\ phase' = IF HashMatches THEN "walk" ELSE "refused"
  /\ offset' = HeaderSize
  /\ slot' = 0
  /\ UNCHANGED <<lens, starts, size, hash, found>>

\* The member namelen of what stands at an offset; 0 when no entry begins there.
NameLenAt(o) ==
  IF \E k \in 1 .. Len(starts) : starts[k] = o
  THEN lens[CHOOSE k \in 1 .. Len(starts) : starts[k] = o]
  ELSE 0

Walk ==
  /\ phase = "walk" /\ slot < hash.entries
  /\ found' = Append(found, NameLenAt(offset))
  /\ offset' = offset + CeSize(NameLenAt(offset))
  /\ slot' = slot + 1
  /\ UNCHANGED <<lens, phase, starts, size, hash>>

WalkDone ==
  /\ phase = "walk" /\ slot = hash.entries
  /\ phase' = "loaded"
  /\ UNCHANGED <<lens, slot, starts, size, hash, offset, found>>

LayoutNext ==
  WriteHeader \/ WriteEntry \/ Written \/ NotMapped \/ Verify \/ Walk \/ WalkDone

LayoutSpec == LayoutInit /\ [][LayoutNext]_layout

-----------------------------------------------------------------------------

(***************************************************************************)
(* read_cache finds the entries that write_cache wrote, its last offset is *)
(* the end of the file, and every name ends inside its entry, at the byte  *)
(* of padding that cache_entry_size leaves for strcmp and printf.          *)
(***************************************************************************)
WalkFindsAll ==
  phase = "loaded" =>
    /\ found = lens /\ offset = size
    /\ \A k \in 1 .. Len(starts) :
         starts[k] + NameOffset + lens[k] <
           (IF k < Len(starts) THEN starts[k + 1] ELSE size)

(***************************************************************************)
(* The walk, which believes the count and the name lengths it finds and    *)
(* never looks at the size of the file, reads no byte behind the end of    *)
(* the mapping, wherever the file was cut before it was opened.            *)
(***************************************************************************)
WalkStaysInside ==
  phase = "walk" /\ slot < hash.entries => offset + CeSize(NameLenAt(offset)) <= size
=============================================================================
