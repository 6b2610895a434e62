------------------------------ MODULE MCMessaging ------------------------------
(***************************************************************************)
(* Instances of Messaging: a supervisor m, and a worker-role server w bound *)
(* to the session s.                                                       *)
(***************************************************************************)
EXTENDS Telemetry

CONSTANTS m, w, s, t, ghost, none, modal

BoundTo == [p \in Proc |-> IF p = w THEN s ELSE none]

From(stamp, records) == [stamp |-> stamp, records |-> records]

\* One batch: a foreign resource, a worker nobody knows, an agent with a record
\* that nothing maps and one without a name, and a second agent.
Batches == {<<From(none, <<"api_request">>), From(ghost, <<"api_request">>),
              From(s, <<"hook", "">>), From(t, <<"tool_result">>)>>}
=============================================================================
