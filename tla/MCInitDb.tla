------------------------------ MODULE MCInitDb ------------------------------
(***************************************************************************)
(* Two processes that run git --init with a fan-out of 3.                  *)
(***************************************************************************)
EXTENDS InitDb, TLC

CONSTANTS p1, p2
=============================================================================
