------------------------------ MODULE MCHolder ------------------------------
(***************************************************************************)
(* Names and symmetry for the checked instances of Holder.                 *)
(***************************************************************************)
EXTENDS Holder

CONSTANTS
  a, b   \* two connections

Symmetry == Permutations(Client)
=============================================================================
