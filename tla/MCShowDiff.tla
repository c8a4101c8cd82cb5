----------------------------- MODULE MCShowDiff -----------------------------
(***************************************************************************)
(* Small instances of ShowDiff for TLC: git --diff beside two git --add.   *)
(* Path 0 is the string "--add", 1 to 3 are files and 4 is a name like     *)
(* ".x" that verify_path rejects.                                          *)
(***************************************************************************)
EXTENDS ShowDiff, TLC

CONSTANTS p1, p2, b1, b2, big, cut, empty

Symmetry == Permutations(Proc)

\* The contents big outgrow the buffer of index_fd, the others fit.
MCStream(contents) == IF contents = big THEN cut ELSE contents

MCPath == 0 .. 4

\* All files exist and have the same contents, so that they share an object.
MCFiles ==
  [q \in MCPath |-> IF q = 0 THEN NoFile ELSE [data |-> b1, stat |-> 0]]

\* An insertion before, between or behind what is there, and a replacement.
InsertArgvs == {<<0, 2>>, <<0, 3, 1>>}

\* File 2 is empty, so that adding it fails.
EmptyFiles ==
  [MCFiles EXCEPT ![2] = [data |-> empty, stat |-> 0], ![3].data = b2]

\* An addition that can succeed, one that cannot, and an empty one.
LivenessArgvs == {<<0, 1, 3>>, <<0, 3, 2>>, <<0, 4>>}
=============================================================================
