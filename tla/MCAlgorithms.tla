---------------------------- MODULE MCAlgorithms ----------------------------
(***************************************************************************)
(* The sequential algorithms, side by side for TLC: a behaviour follows    *)
(* one of them from one of its inputs, and the others stay at the          *)
(* beginning of their smallest input.                                      *)
(***************************************************************************)
EXTENDS CacheNamePos, VerifyPath, NameOrder, HexName, RemoveSpecial, IndexLayout, ObjectFile

LOCAL INSTANCE SequencesExt

CONSTANTS b, letter

-----------------------------------------------------------------------------
\* The inputs.

MCPath == 0 .. 4

\* All sorted caches of at most five entries, equal names included.
MCCaches ==
  {s \in UNION {[1 .. n -> [name : MCPath, stat : {0}, sha1 : {b}]] : n \in 0 .. 5} :
     Sorted(s)}

\* All strings of at most five of '/', '.' and a letter.
MCLetter == {Slash, Dot, letter}

MCStrings == BoundedSeq(MCLetter, 5)

\* Names from bytes on both sides of the slash and above 127.
MCNames == UNION {[1 .. n -> {46, 97}] : n \in 1 .. 3} \cup {<<200>>, <<97, 47, 97>>}

\* Two bytes in hexadecimal, the first from the characters at the edges of the
\* ranges that hexval tests: NUL / 0 9 : @ A F G ` a f g
Codes == {0, 47, 48, 57, 58, 64, 65, 70, 71, 96, 97, 102, 103}

MCHexStrings ==
  {<<s[1], s[2], t[1], t[2], 0>> : s \in Codes \X Codes, t \in {0, 48, 70, 103} \X {0, 48, 70, 103}}

MCEarlier == <<238, 238>>

\* All strings of at most five characters, two ordinary and two special ones.
MCSpecial == {"<", "newline"}

MCCharacter == {"a", "b", TextEnd} \cup MCSpecial

MCTexts == {Append(s, TextEnd) : s \in BoundedSeq(MCCharacter \ {TextEnd}, 5)}

\* Nine lengths in a row meet every padding.
MCNameLens == 1 .. 9 \cup {4095}

\* Modes of one digit and more, names from one byte to PATH_MAX.
MCEntryTexts == [mode : {1, 6, 11}, name : {1, 40, 255, 4095}]

\* Cut before, in and behind the header, at the inflate buffer and at the end.
MCTorn(len) == {0, 1, 12, 100, 8192, len - 1}

-----------------------------------------------------------------------------

VARIABLE part  \* the algorithm that runs

everything == <<part, search, scan, comparison, conversion, copy, layout, object>>

Init ==
  /\ part \in {"search", "scan", "compare", "convert", "copy", "layout", "object"}
  /\ (part # "search" => cache = <<>> /\ name = 0) /\ SearchInit
  /\ (part # "scan" => path = <<>>) /\ ScanInit
  /\ (part # "compare" => names = [k \in 1 .. 3 |-> <<200>>]) /\ OrderInit
  /\ (part # "convert" => hex = [k \in 1 .. 5 |-> 0] /\ base = FreshName) /\ HexInit
  /\ (part # "copy" => original = <<TextEnd>>) /\ CopyInit
  /\ (part # "layout" => lens = <<1>>) /\ LayoutInit
  /\ (part # "object" => kind = "commit") /\ ObjectInit

Next ==
  \/ /\ part = "search" /\ SearchNext
     /\ UNCHANGED <<part, scan, comparison, conversion, copy, layout, object>>
  \/ /\ part = "scan" /\ ScanNext
     /\ UNCHANGED <<part, search, comparison, conversion, copy, layout, object>>
  \/ /\ part = "compare" /\ OrderNext
     /\ UNCHANGED <<part, search, scan, conversion, copy, layout, object>>
  \/ /\ part = "convert" /\ HexNext
     /\ UNCHANGED <<part, search, scan, comparison, copy, layout, object>>
  \/ /\ part = "copy" /\ CopyNext
     /\ UNCHANGED <<part, search, scan, comparison, conversion, layout, object>>
  \/ /\ part = "layout" /\ LayoutNext
     /\ UNCHANGED <<part, search, scan, comparison, conversion, copy, object>>
  \/ /\ part = "object" /\ ObjectNext
     /\ UNCHANGED <<part, search, scan, comparison, conversion, copy, layout>>

\* Sequential code keeps running.
Spec == Init /\ [][Next]_everything /\ WF_everything(Next)

(***************************************************************************)
(* Types of the algorithms.                                                *)
(***************************************************************************)
TypeOK == SearchTypeOK /\ ScanTypeOK /\ HexTypeOK /\ CopyTypeOK /\ LayoutTypeOK /\ ObjectTypeOK

(***************************************************************************)
(* The binary search of cache_name_pos and the scan of verify_path end.    *)
(***************************************************************************)
LoopsEnd == /\ part = "search" => SearchEnds
            /\ part = "scan" => ScanEnds
=============================================================================
