------------------------------- MODULE MCAttach -------------------------------
(***************************************************************************)
(* An instance of Attach: one human and one verb, a child that fails or is *)
(* killed.  A cut before or inside the next frame is every cut: a client   *)
(* may have read any number of frames by then.                             *)
(***************************************************************************)
EXTENDS Attach

CONSTANTS h, v

SomeExits == {Code(3)}
=============================================================================
