------------------------------ MODULE HexName -------------------------------
(***************************************************************************)
(* Names of objects: get_sha1_hex parses one, sha1_to_hex prints it and    *)
(* sha1_file_name turns it into the path of the object file, in a static   *)
(* buffer that keeps what an earlier call wrote.  Characters are their     *)
(* ASCII codes.                                                            *)
(***************************************************************************)
EXTENDS Integers, Sequences

CONSTANTS
  Bytes,       \* the 20 bytes of a SHA1
  HexStrings,  \* the memory at hex: Bytes * 2 + 1 codes
  Earlier      \* a SHA1 of an earlier call of sha1_file_name

HexNul == 0
HexSlash == 47

ASSUME HexAssumption ==
  /\ Bytes \in Nat \ {0}
  /\ HexStrings \subseteq [1 .. 2 * Bytes + 1 -> 0 .. 255]
  /\ Earlier \in [1 .. Bytes -> 0 .. 255]

VARIABLES
  hex,      \* the characters at the argument of get_sha1_hex, from 1
  loop,     \* the loop that runs, or "end"
  ix,       \* its loop variable
  sha1,     \* the bytes parsed so far
  verdict,  \* the result of get_sha1_hex, 1 before it returns
  text,     \* what sha1_to_hex has written
  base      \* the buffer of sha1_file_name behind the directory

conversion == <<hex, loop, ix, sha1, verdict, text, base>>

HexTypeOK ==
  /\ hex \in [1 .. 2 * Bytes + 1 -> 0 .. 255]
  /\ loop \in {"parse", "print", "file", "end"}
  /\ ix \in 0 .. Bytes
  /\ sha1 \in Seq(0 .. 255) /\ Len(sha1) <= Bytes
  /\ verdict \in {-1, 0, 1}
  /\ text \in Seq(0 .. 255)
  /\ base \in [0 .. 2 * Bytes -> 0 .. 255]

\* The ~0 of hexval: all its bits are set, as an unsigned and shifted by 4.
NotHex == -1

\* Mutant: capital letters are no digits.
HexvalLower(c) ==
  CASE c \in 48 .. 57  -> c - 48
    [] c \in 97 .. 102 -> c - 97 + 10
    [] OTHER           -> NotHex

hexval(c) ==
  CASE c \in 48 .. 57  -> c - 48
    [] c \in 97 .. 102 -> c - 97 + 10
    [] c \in 65 .. 70  -> c - 65 + 10
    [] OTHER           -> NotHex

\* The string "0123456789abcdef".
HexChar(n) == IF n < 10 THEN 48 + n ELSE 97 + n - 10

\* Mutant: the slash is forgotten.
NamePosFlat(k) == 2 * k

\* Where sha1_file_name puts byte k: behind the slash, but for the first.
NamePos(k) == 2 * k + (IF k > 0 THEN 1 ELSE 0)

\* Byte k of a SHA1 in that buffer.
PutByte(buffer, k, byte) ==
  [buffer EXCEPT ![NamePos(k)] = HexChar(byte \div 16), ![NamePos(k) + 1] = HexChar(byte % 16)]

\* The buffer after memset, with its slash.
FreshName == [k \in 0 .. 2 * Bytes |-> IF k = 2 THEN HexSlash ELSE HexNul]

\* The buffer an earlier call has left.
EarlierName ==
  LET f[k \in 0 .. Bytes] == IF k = 0 THEN FreshName ELSE PutByte(f[k - 1], k - 1, Earlier[k])
  IN  f[Bytes]

HexInit ==
  /\ hex \in HexStrings
  /\ loop = "parse" /\ ix = 0 /\ verdict = 1
  /\ sha1 = <<>> /\ text = <<>>
  /\ base \in {FreshName, EarlierName}

\* (hexval(hex[0]) << 4) | hexval(hex[1])
Val ==
  LET high == hexval(hex[2 * ix + 1])
      low == hexval(hex[2 * ix + 2])
  IN  IF high = NotHex \/ low = NotHex THEN NotHex ELSE 16 * high + low

\* !(val & ~0xff)
IsByte == Val # NotHex

ParseByte ==
  /\ loop = "parse" /\ ix < Bytes /\ IsByte
  /\ sha1' = Append(sha1, Val)
  /\ ix' = ix + 1
  /\ UNCHANGED <<hex, loop, verdict, text, base>>

ParseFails ==
  /\ loop = "parse" /\ ix < Bytes /\ ~IsByte
  /\ verdict' = -1 /\ loop' = "end"
  /\ UNCHANGED <<hex, ix, sha1, text, base>>

ParseDone ==
  /\ loop = "parse" /\ ix = Bytes
  /\ verdict' = 0 /\ loop' = "print" /\ ix' = 0
  /\ UNCHANGED <<hex, sha1, text, base>>

\* One round of sha1_to_hex.
PrintByte ==
  /\ loop = "print" /\ ix < Bytes
  /\ text' = text \o <<HexChar(sha1[ix + 1] \div 16), HexChar(sha1[ix + 1] % 16)>>
  /\ ix' = ix + 1
  /\ UNCHANGED <<hex, loop, sha1, verdict, base>>

PrintDone ==
  /\ loop = "print" /\ ix = Bytes
  /\ loop' = "file" /\ ix' = 0
  /\ UNCHANGED <<hex, sha1, verdict, text, base>>

\* One round of sha1_file_name.
NameByte ==
  /\ loop = "file" /\ ix < Bytes
  /\ base' = PutByte(base, ix, sha1[ix + 1])
  /\ ix' = ix + 1
  /\ UNCHANGED <<hex, loop, sha1, verdict, text>>

NameDone ==
  /\ loop = "file" /\ ix = Bytes
  /\ loop' = "end"
  /\ UNCHANGED <<hex, ix, sha1, verdict, text, base>>

HexNext ==
  \/ ParseByte \/ ParseFails \/ ParseDone \/ PrintByte \/ PrintDone \/ NameByte \/ NameDone

HexSpec == HexInit /\ [][HexNext]_conversion

-----------------------------------------------------------------------------

HexDigits == 48 .. 57 \cup 65 .. 70 \cup 97 .. 102

Lower(c) == IF c \in 65 .. 70 THEN c + 32 ELSE c

(***************************************************************************)
(* get_sha1_hex accepts exactly the strings that begin with 2 * Bytes hex  *)
(* digits, and sha1_to_hex prints what was parsed in lower case.  It reads *)
(* two characters at a time, so one behind the NUL of a short string,      *)
(* whatever is there, and that does not change the verdict.                *)
(***************************************************************************)
ParseCorrect ==
  /\ verdict # 1 => (verdict = 0 <=> \A k \in 1 .. 2 * Bytes : hex[k] \in HexDigits)
  /\ loop = "file" => text = [k \in 1 .. 2 * Bytes |-> Lower(hex[k])]

(***************************************************************************)
(* The path is the printed name with a slash behind its second digit: no   *)
(* character of an earlier name is left in the static buffer, and the      *)
(* slash is not overwritten.                                               *)
(***************************************************************************)
FileNameRight ==
  loop = "end" /\ verdict = 0 =>
    /\ base[2] = HexSlash
    /\ \A k \in 1 .. 2 : base[k - 1] = text[k]
    /\ \A k \in 3 .. 2 * Bytes : base[k] = text[k]
=============================================================================
