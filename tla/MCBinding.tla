------------------------------ MODULE MCBinding -----------------------------
(***************************************************************************)
(* An instance of Binding for TLC.                                         *)
(***************************************************************************)
EXTENDS Binding, TLC

Symmetric == Permutations(Session) \cup Permutations(Name)
=============================================================================
