----------------------------- MODULE MCFragments -----------------------------
(***************************************************************************)
(* TLC instances of Fragments.  Object IDs are ordered, so that there is no *)
(* symmetry to use.                                                         *)
(***************************************************************************)
EXTENDS Fragments

=============================================================================
