------------------------------ MODULE MCCommit ------------------------------
(***************************************************************************)
(* Small instances of Commit for TLC.  The index is empty, has one file,   *)
(* or that file with other contents and another one.                       *)
(***************************************************************************)
EXTENDS Commit

CONSTANTS b1, b2, c1, c2, h1, h2, notHex

MCMode(stat) == 0

File(n, s, b) == [name |-> n, stat |-> s, sha1 |-> b]

MCContents ==
  {<<>>, <<File(1, 0, b1)>>, <<File(1, 1, b2), File(2, 0, b1)>>}

\* The tree of one file.
MCHasZero == {<<[mode |-> 0, name |-> 1, sha1 |-> b1]>>}

\* The documented parent, and a string that is not hexadecimal.
MCArgvs == {<<h1>>, <<notHex>>}

\* git --commit alone.
NoArgvs == {<<>>}
=============================================================================
