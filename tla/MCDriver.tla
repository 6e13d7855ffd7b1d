------------------------------ MODULE MCDriver ------------------------------
(***************************************************************************)
(* The driver with few files; files are interchangeable.                   *)
(***************************************************************************)
EXTENDS InfnoiseDriver, TLC

Files == Permutations(Readers)
=============================================================================
