----------------------------- MODULE ObjectFile -----------------------------
(***************************************************************************)
(* The life of one tree or commit object as bytes: write_tree and          *)
(* commit_tree collect its body in a buffer, put the header in front of    *)
(* it, and write_sha1_file stores it; read_sha1_file inflates it through   *)
(* a buffer of fixed size, and unpack of read-tree.c lists a tree.         *)
(*                                                                         *)
(* Of the bytes only the lengths are kept, and the digits of the header.   *)
(* Compression is a length too: a file that was torn inflates to a prefix  *)
(* of the object.                                                          *)
(***************************************************************************)
EXTENDS Integers, Sequences

CONSTANTS
  MaxEntries,   \* bound: entries of a tree
  MaxText,      \* bound: length of a commit
  EntryTexts,   \* [mode, name]: the lengths of a mode in octal and of a name
  LineLengths,  \* the lengths of the lines of a commit
  Torn(_)       \* the prefixes of an object that a torn file may hold

NameMax == 4095  \* PATH_MAX, without the NUL
OneLine == 2048  \* the size of one_line in add_buffer

\* An unsigned mode has at most eleven octal digits, and vsnprintf has room for
\* a line: only one with a very long name, address or date would not fit.
ASSUME TextLengthsAssumption ==
  /\ \A e \in EntryTexts : e.mode \in 1 .. 11 /\ e.name \in 1 .. NameMax
  /\ \A len \in LineLengths : len \in 1 .. OneLine - 1

\* The length of an object fits the parameter of prepend_integer.
ASSUME ObjectFileAssumption ==
  /\ MaxEntries \in Nat /\ MaxEntries <= 500 * 1000
  /\ MaxText \in Nat /\ MaxText <= 2100 * 1000 * 1000

OrigOffset  == 40         \* ORIG_OFFSET
Blocking    == 16 * 1024  \* BLOCKING, the size of init_buffer
Round       == 32 * 1024  \* of add_buffer
InflateSize == 8 * 1024   \* the size of buffer in read_sha1_file
HashLen     == 20

VARIABLES
  kind,     \* "tree" or "commit"
  step,       \* what comes next
  count,    \* the variable entries of write_tree
  entries,  \* ghost: the lengths of the texts of a tree's entries so far
  used,   \* bytes of the buffer in use, the space of the header included
  alloc,    \* bytes of the buffer
  val,      \* what prepend_integer has still to print
  head,     \* the first byte of the header
  digits,   \* the digits of the header
  file,     \* how many bytes of the object the file inflates to
  bytes,    \* how many bytes of the body the reader has
  got,      \* what read_sha1_file returned
  rest,     \* the variable size of unpack
  listed    \* the lengths of the entries unpack has printed

object == <<kind, step, count, entries, used, alloc, val, head, digits, file, bytes,
            got, rest, listed>>
building == <<kind, count, entries, used, alloc>>
header == <<val, head, digits>>
reading == <<file, bytes, got, rest, listed>>

ObjectTypeOK ==
  /\ kind \in {"tree", "commit"}
  /\ step \in {"body", "digits", "tag", "write", "open", "inflate", "unpack", "end"}
  /\ count \in 0 .. MaxEntries
  /\ entries \in Seq(Nat) /\ listed \in Seq(Nat)
  /\ used \in Nat /\ alloc \in Nat /\ val \in Nat
  /\ head \in 0 .. OrigOffset
  /\ digits \in Seq(0 .. 9)
  /\ file \in Nat /\ bytes \in Nat /\ rest \in Nat
  /\ got \in {"none", "null", "garbage", "buf"}

\* write_tree has read the index, or commit_tree has called init_buffer.
ObjectInit ==
  /\ \/ kind = "tree" /\ count \in 1 .. MaxEntries /\ alloc = count * 40 + 400
     \/ kind = "commit" /\ count = 0 /\ alloc = Blocking
  /\ step = "body"
  /\ entries = <<>> /\ listed = <<>>
  /\ used = OrigOffset
  /\ val = 0 /\ head = OrigOffset /\ digits = <<>>
  /\ file = 0 /\ bytes = 0 /\ got = "none" /\ rest = 0

Body == used - OrigOffset

-----------------------------------------------------------------------------
\* Writing

\* The text "mode name" and its NUL.
TextLen(e) == e.mode + 1 + e.name + 1

\* Mutant: the name is not counted.
TreeAllocShort(name) == IF used + 60 > alloc THEN ((used + 60 + 16) * 3) \div 2 ELSE alloc

\* The allocation for the next entry, enlarged with alloc_nr when it is short.
TreeAlloc(name) ==
  IF used + name + 60 > alloc THEN ((used + name + 60 + 16) * 3) \div 2 ELSE alloc

WriteTreeEntry ==
  /\ step = "body" /\ kind = "tree" /\ Len(entries) < count
  /\ \E e \in EntryTexts :
       /\ alloc' = TreeAlloc(e.name)
       /\ used' = used + TextLen(e) + HashLen
       /\ entries' = Append(entries, TextLen(e))
  /\ UNCHANGED <<kind, step, count, header, reading>>

RoundUp(n) == ((n + Round - 1) \div Round) * Round

\* add_buffer computes the allocation from the size in use.
CommitAlloc(len) ==
  IF used + len > RoundUp(used) THEN RoundUp(used + len) ELSE alloc

AddBuffer ==
  /\ step = "body" /\ kind = "commit"
  /\ \E len \in LineLengths :
       /\ used + len <= MaxText
       /\ alloc' = CommitAlloc(len)
       /\ used' = used + len
  /\ UNCHANGED <<kind, step, count, entries, header, reading>>

\* prepend_integer begins with the NUL; no object is without a line or an entry.
BeginHeader ==
  /\ step = "body" /\ (kind = "tree" => Len(entries) = count)
  /\ used > OrigOffset
  /\ val' = Body /\ head' = OrigOffset - 1
  /\ step' = "digits"
  /\ UNCHANGED <<building, digits, reading>>

\* Mutant: the loop tests the remaining value before it is divided.
PrependDigitShort ==
  /\ step = "digits"
  /\ digits' = <<val % 10>> \o digits
  /\ head' = head - 1
  /\ val' = val \div 10
  /\ step' = IF val < 100 THEN "tag" ELSE "digits"
  /\ UNCHANGED <<building, reading>>

\* Mutant: the loop runs while val >= 0, which an unsigned always is.
PrependDigitAlways ==
  /\ step = "digits"
  /\ digits' = <<val % 10>> \o digits
  /\ head' = head - 1
  /\ val' = val \div 10
  /\ UNCHANGED <<step, building, reading>>

\* One round of the do loop.
PrependDigit ==
  /\ step = "digits"
  /\ digits' = <<val % 10>> \o digits
  /\ head' = head - 1
  /\ val' = val \div 10
  /\ step' = IF val' = 0 THEN "tag" ELSE "digits"
  /\ UNCHANGED <<building, reading>>

\* The length of "tree " and "commit ".
TagLen == IF kind = "tree" THEN 5 ELSE 7

PutTag ==
  /\ step = "tag"
  /\ head' = head - TagLen
  /\ step' = "write"
  /\ UNCHANGED <<building, val, digits, reading>>

\* The object runs from byte head to used.
ObjectLen == used - head

\* write_sha1_file; a write that is cut short goes unnoticed.
WriteFile ==
  /\ step = "write"
  /\ file' \in {ObjectLen} \cup (Torn(ObjectLen) \cap 0 .. ObjectLen - 1)
  /\ step' = "open"
  /\ UNCHANGED <<building, header, bytes, got, rest, listed>>

-----------------------------------------------------------------------------
\* Reading

HeaderLen == TagLen + Len(digits) + 1

\* The value of the digits s behind a number of value v.
Value(v, s) ==
  LET upTo[k \in 0 .. Len(s)] == IF k = 0 THEN v ELSE 10 * upTo[k - 1] + s[k]
  IN  upTo[Len(s)]

\* What sscanf reads from the digits.
Size == Value(0, digits)

Min2(a, b) == IF a < b THEN a ELSE b

Return(r) == got' = r /\ step' = "end" /\ UNCHANGED <<building, header, file, rest, listed>>

\* mmap of an empty file fails.
ReadEmpty == step = "open" /\ file = 0 /\ Return("null") /\ UNCHANGED bytes

\* sscanf looks at bytes of buffer that nothing has written.
ReadGarbage ==
  /\ step = "open" /\ file \in 1 .. HeaderLen - 1
  /\ Return("null") \/ Return("garbage")
  /\ UNCHANGED bytes

\* The first inflate fills buffer, and memcpy moves the body in it.
InflateFirst ==
  /\ step = "open" /\ file >= HeaderLen
  /\ bytes' = Min2(file, InflateSize) - HeaderLen
  /\ step' = "inflate"
  /\ UNCHANGED <<building, header, file, got, rest, listed>>

\* Mutant: what did not fit into the buffer is left out.
MoreBytesNot == bytes

\* The second inflate, if there is more to come; not an error when it is cut short.
MoreBytes == IF bytes < Size THEN Min2(Size, file - HeaderLen) ELSE bytes

InflateRest ==
  /\ step = "inflate"
  /\ bytes' = MoreBytes
  /\ got' = "buf"
  /\ step' = IF kind = "tree" /\ file = ObjectLen THEN "unpack" ELSE "end"
  /\ rest' = Size
  /\ UNCHANGED <<building, header, file, listed>>

\* Mutant: the SHA1 is not skipped.
UnpackEntryNoHash ==
  /\ step = "unpack" /\ rest # 0 /\ Len(listed) < count
  /\ LET len == entries[Len(listed) + 1]
     IN  /\ rest' = rest - len
         /\ listed' = Append(listed, len)
  /\ UNCHANGED <<building, header, file, bytes, got, step>>

(***************************************************************************)
(* One entry of unpack: strlen finds the NUL behind "mode name".  When     *)
(* less is left than the entry needs, unpack calls the tree corrupt and    *)
(* lists nothing more.                                                     *)
(***************************************************************************)
UnpackEntry ==
  /\ step = "unpack" /\ rest # 0
  /\ LET len == entries[Len(listed) + 1]
     IN  /\ rest >= len + HashLen
         /\ rest' = rest - (len + HashLen)
         /\ listed' = Append(listed, len)
  /\ UNCHANGED <<building, header, file, bytes, got, step>>

UnpackDone ==
  /\ step = "unpack" /\ rest = 0
  /\ step' = "end"
  /\ UNCHANGED <<building, header, reading>>

ObjectNext ==
  \/ WriteTreeEntry \/ AddBuffer \/ BeginHeader \/ PrependDigit \/ PutTag \/ WriteFile
  \/ ReadEmpty \/ ReadGarbage \/ InflateFirst \/ InflateRest \/ UnpackEntry \/ UnpackDone

ObjectSpec == ObjectInit /\ [][ObjectNext]_object /\ WF_object(ObjectNext)

-----------------------------------------------------------------------------

(***************************************************************************)
(* write_tree never writes behind its buffer, whose first size is a guess. *)
(* add_buffer takes the buffer of init_buffer for twice as long as it is:  *)
(* a commit stays inside its buffer unless its length falls between the    *)
(* two, and again once it has outgrown both.                               *)
(***************************************************************************)
BuffersFit == used > alloc => kind = "commit" /\ used \in Blocking + 1 .. Round

(***************************************************************************)
(* The header read_sha1_file parses tells the size of the body, which      *)
(* begins right behind it, and has no leading zero: equal contents give    *)
(* equal objects.                                                          *)
(***************************************************************************)
HeaderExact ==
  step = "write" =>
    /\ Size = Body /\ ObjectLen - HeaderLen = Body
    /\ digits[1] # 0

(***************************************************************************)
(* A file that holds the whole object is read whole, also when it does not *)
(* fit into the buffer of the first inflate.                               *)
(***************************************************************************)
WholeIsReadWhole == got # "none" /\ file = ObjectLen => got = "buf" /\ bytes = Body

(***************************************************************************)
(* unpack lists every entry of a whole tree and ends at its end, instead   *)
(* of calling it corrupt.                                                  *)
(***************************************************************************)
ListsWholeTree ==
  (step = "write" /\ kind = "tree") ~>
    (step = "end" /\ (file = ObjectLen => listed = entries))
=============================================================================
