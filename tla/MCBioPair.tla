------------------------------ MODULE MCBioPair ------------------------------
(***************************************************************************)
(* An instance of BioPair for TLC.                                         *)
(***************************************************************************)
EXTENDS BioPair
=============================================================================
