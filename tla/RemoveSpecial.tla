--------------------------- MODULE RemoveSpecial ----------------------------
(***************************************************************************)
(* remove_special of commit-tree.c, which deletes newlines and angle       *)
(* brackets from a string in place.  commit_tree calls it for gecos and    *)
(* for realgecos, which are the same string unless COMMITTER_NAME is set,  *)
(* so it runs again over its own result.                                   *)
(***************************************************************************)
EXTENDS Integers, Sequences

CONSTANTS
  Character,  \* what strings are made of
  Texts,      \* strings, each with its terminating NUL
  Special,    \* newline, < and >
  TextEnd     \* the NUL

ASSUME TextsAssumption ==
  /\ Texts \subseteq Seq(Character) /\ TextEnd \in Character \ Special
  /\ \A s \in Texts : s # <<>> /\ s[Len(s)] = TextEnd /\ \A k \in 1 .. Len(s) - 1 : s[k] # TextEnd

VARIABLES
  original,  \* ghost: the string before the first call
  mem,       \* the memory of the string
  p, dst,    \* the two pointers, from 1
  calls      \* calls that have returned

copy == <<original, mem, p, dst, calls>>

MaxCalls == 2

CopyTypeOK ==
  /\ mem \in Seq(Character) /\ Len(mem) = Len(original)
  /\ p \in 1 .. Len(mem) /\ dst \in 1 .. p
  /\ calls \in 0 .. MaxCalls

CopyInit ==
  /\ original \in Texts /\ mem = original
  /\ p = 1 /\ dst = 1 /\ calls = 0

SkipSpecial ==
  /\ calls < MaxCalls /\ mem[p] \in Special
  /\ p' = p + 1
  /\ UNCHANGED <<original, mem, dst, calls>>

CopyChar ==
  /\ calls < MaxCalls /\ mem[p] \notin Special \cup {TextEnd}
  /\ mem' = [mem EXCEPT ![dst] = mem[p]]
  /\ p' = p + 1 /\ dst' = dst + 1
  /\ UNCHANGED <<original, calls>>

\* Mutant: the NUL is not copied.
CopyNulNot ==
  /\ calls < MaxCalls /\ mem[p] = TextEnd
  /\ calls' = calls + 1
  /\ p' = 1 /\ dst' = 1
  /\ UNCHANGED <<original, mem>>

\* The NUL is copied and ends the loop; the next call begins at the front.
CopyNul ==
  /\ calls < MaxCalls /\ mem[p] = TextEnd
  /\ mem' = [mem EXCEPT ![dst] = TextEnd]
  /\ calls' = calls + 1
  /\ p' = 1 /\ dst' = 1
  /\ UNCHANGED original

CopyNext == SkipSpecial \/ CopyChar \/ CopyNul

CopySpec == CopyInit /\ [][CopyNext]_copy

-----------------------------------------------------------------------------

\* The string at the beginning of the memory, up to its NUL.
StringAt(m) ==
  SubSeq(m, 1, CHOOSE k \in 1 .. Len(m) : m[k] = TextEnd /\ \A j \in 1 .. k - 1 : m[j] # TextEnd)

\* What is left of the first k characters without the special ones.
Kept(s) ==
  LET kept[k \in 0 .. Len(s)] ==
        IF k = 0 THEN <<>>
        ELSE IF s[k] \in Special THEN kept[k - 1] ELSE Append(kept[k - 1], s[k])
  IN  kept

(***************************************************************************)
(* After each call the string is the original without the special          *)
(* characters, so the names in a commit's "author" and "committer" lines   *)
(* cannot end the line or the name early.  The second call changes         *)
(* nothing, although what the first one moved is still behind the NUL.     *)
(***************************************************************************)
SpecialRemoved ==
  calls > 0 /\ p = 1 => StringAt(mem) = Kept(original)[Len(original)]
=============================================================================
