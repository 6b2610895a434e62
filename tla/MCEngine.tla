------------------------------ MODULE MCEngine ------------------------------
(***************************************************************************)
(* Names for the sessions and reconcile callers of the checked instances.  *)
(***************************************************************************)
EXTENDS Engine

CONSTANTS
  e,   \* a session on an exe.dev VM
  h,   \* a session on a local holder
  t,   \* a session on local tmux
  r1, r2   \* callers of reconcile
=============================================================================
