---------------------------- MODULE MCFileWorkers ----------------------------
(***************************************************************************)
(* Instance for TLC: two recorders with up to two chunks each.             *)
(***************************************************************************)
EXTENDS FileWorkers

CONSTANTS r1, r2
=============================================================================
