----------------------------- MODULE MCCommand ------------------------------
(***************************************************************************)
(* Small instances of Command for TLC.                                     *)
(***************************************************************************)
EXTENDS Command

CONSTANTS b, MaxOptions

\* 0 is an option, 1 and 2 have files, 3 is hidden, 4 is missing
MCPath == 0 .. 4

MCOption ==
  [opt : {"status", "add", "rm"}, arg : 1 .. 4, joined : {FALSE}] \cup
  [opt : {"status", "add", "rm"}, arg : {2}, joined : {TRUE}] \cup
  [opt : {"cat-file", "read-tree"}, arg : {1}, joined : {FALSE}] \cup
  [opt : {"init", "diff", "commit", "reset", "?"}, arg : {NoArg}, joined : {FALSE}]

MCLines ==
  [options : UNION {[1 .. n -> MCOption] : n \in 1 .. MaxOptions}, operands : {<<>>, <<2>>}]

MCIndexes == {<<>>, <<EntryOf(1)>>, <<EntryOf(1), EntryOf(2)>>}
=============================================================================
