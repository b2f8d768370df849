----------------------------- MODULE MCRcuLock -----------------------------
(***************************************************************************)
(* Small instances of RcuLock.                                             *)
(***************************************************************************)
EXTENDS RcuLock, TLC

Symmetry == Permutations(Objects) \cup Permutations(Readers)
=============================================================================
