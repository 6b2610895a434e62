------------------------------ MODULE MCWatching ------------------------------
(***************************************************************************)
(* A terminal of three rows, two lines that differ in their indentation    *)
(* only, and the screens a spinner or a full-screen program leaves.        *)
(***************************************************************************)
EXTENDS Watching

CONSTANTS x, indented, blank

RedrawnFrames == {<< >>, <<blank, x>>, <<blank, indented>>}
Unindented    == [line \in {x, indented} |-> x]
=============================================================================
