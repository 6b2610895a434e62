------------------------------- MODULE MCStreams -------------------------------
(***************************************************************************)
(* Instances of Streams: one stream of all kinds with one thread, one of   *)
(* two kinds with two threads.                                             *)
(***************************************************************************)
EXTENDS Streams

CONSTANTS a, b, all, some, p, q, r

AllOrSome == [e \in {all, some} |-> IF e = all THEN Kinds ELSE {"state", "log"}]

OneAndTwo == [x \in {p, q, r} |-> IF x = p THEN all ELSE some]
=============================================================================
