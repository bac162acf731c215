------------------------------ MODULE MCServer ------------------------------
(***************************************************************************)
(* Server for TLC: the slices are interchangeable.                         *)
(***************************************************************************)
EXTENDS Server, TLC

Interchangeable == Permutations(Slice)
=============================================================================
