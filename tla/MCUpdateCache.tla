---------------------------- MODULE MCUpdateCache ----------------------------
(***************************************************************************)
(* Small instances of UpdateCache for TLC.  Path 0 is the string "--add",  *)
(* 1 to 3 are files and 4 is a name like ".x" that verify_path rejects.    *)
(***************************************************************************)
EXTENDS UpdateCache, TLC

CONSTANTS p1, p2, b1, b2, big, cut, empty

Symmetry == Permutations(Proc)

\* The contents big outgrow the buffer of index_fd, the others fit.
MCStream(contents) == IF contents = big THEN cut ELSE contents

MCPath == 0 .. 4

\* All files exist and have the same contents, so that they share an object.
MCFiles ==
  [q \in MCPath |->
     IF q = 0 THEN NoFile ELSE [data |-> b1, stat |-> 0]]

\* Two overlapping invocations and one whose only path is rejected.
MCArgvs == {<<0, 1>>, <<0, 2, 1>>, <<0, 4>>}

\* Two invocations with one path each.
SmallArgvs == {<<0, 1>>, <<0, 2>>}

\* Three entries at once, and the first path again.
RemovalArgvs == {<<0, 1, 2, 3>>, <<0, 1>>}
=============================================================================
