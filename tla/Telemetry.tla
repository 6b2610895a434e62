------------------------------- MODULE Telemetry -------------------------------
(***************************************************************************)
(* The telemetry receiver of an engine process: one thread that takes the  *)
(* exports of the workers' agents one at a time, folds each record into    *)
(* its session's timeline under the ledger mutex and, after the last one,  *)
(* answers.  Anything of module Messaging may happen between two records,  *)
(* the process's death included; an exporter that got no answer sends its  *)
(* export again, as it may send any.                                       *)
(***************************************************************************)
EXTENDS Messaging

\* What may arrive: sequences of resources, each with the session its worker was
\* stamped with, or NoSession, and the names of its records ("": none).
CONSTANT Exports

ASSUME TelemetryAssumption ==
  \A export \in Exports :
    /\ export \in Seq(ToSet(export))
    /\ \A resource \in ToSet(export) : resource.records \in Seq(STRING)

VARIABLES
  serving,   \* per process: the export being taken and the records that are left
  owed       \* per session and kind: the named records of exports answered with ok

telemetryVars == <<vars, serving, owed>>

NoRequest == [busy |-> FALSE, left |-> << >>, body |-> << >>]

(***************************************************************************)
(* Reading an export.                                                      *)
(***************************************************************************)
\* map_event: what is not mapped survives as raw.
MapEvent(name) ==
  CASE name \in {"user_prompt", "assistant_response"} -> "message"
    [] name = "tool_result"   -> "tool_result"
    [] name = "tool_decision" -> "tool_call"
    [] name = "api_request"   -> "usage"
    [] OTHER                  -> "raw"

\* A record without a name is skipped.
Records(resource) ==
  LET named == Keep(resource.records, {name \in ToSet(resource.records) : name # ""})
  IN [i \in DOMAIN named |-> [session |-> resource.stamp, kind |-> MapEvent(named[i])]]

MutParseLogsExport(export) ==
  LET stamped == Keep(export, {resource \in ToSet(export) : resource.stamp # NoSession})
  IN IF Len(stamped) < Len(export) THEN << >>
     ELSE FlattenSeq([i \in DOMAIN stamped |-> Records(stamped[i])])

\* parse_logs_export: a resource without a stamp is no worker of ours.
ParseLogsExport(export) ==
  LET stamped == Keep(export, {resource \in ToSet(export) : resource.stamp # NoSession})
  IN FlattenSeq([i \in DOMAIN stamped |-> Records(stamped[i])])

(***************************************************************************)
(* serve.                                                                  *)
(***************************************************************************)
\* Workers are wired to the process that dispatched them, or to its successor
\* on the same port; so a session that is stamped has been dispatched.
Request(p, export) ==
  /\ Supervisor(p) /\ ~serving[p].busy
  /\ \A i \in DOMAIN export : export[i].stamp \in Session => disk.rows[export[i].stamp] # "none"
  /\ serving' = [serving EXCEPT ![p] = [busy |-> TRUE, left |-> ParseLogsExport(export), body |-> export]]
  /\ UNCHANGED <<vars, owed>>

\* The sink of start_otel: only a session this ledger knows gets the record; a
\* failed write to the mirror is ignored.
Ingest(p) ==
  /\ p \in up /\ serving[p].left # << >>
  /\ LET record == Head(serving[p].left)
         new    == NewEvents(p, <<record.session>>, record.kind)
     IN IF record.session \in Known(p) THEN Push(p, new) /\ Mirror(p, {}, new, << >>)
        ELSE UNCHANGED <<events, disk, born, sinkFails>>
  /\ serving' = [serving EXCEPT ![p].left = Tail(@)]
  /\ UNCHANGED <<up, probed, rows, messages, sending, owed>>

\* What an export holds for a session, of a kind, counted in the export itself:
\* of the records that have a name.
Exported(resource, s, kind) ==
  IF resource.stamp # s THEN << >>
  ELSE Keep(resource.records, {name \in ToSet(resource.records) : name # "" /\ MapEvent(name) = kind})

Delivered(export, s, kind) ==
  Len(FlattenSeq([i \in DOMAIN export |-> Exported(export[i], s, kind)]))

Respond(p) ==
  /\ p \in up /\ serving[p].busy /\ serving[p].left = << >>
  /\ owed' = [s \in Session |-> [kind \in EventKind |->
                 owed[s][kind] + Delivered(serving[p].body, s, kind)]]
  /\ serving' = [serving EXCEPT ![p] = NoRequest]
  /\ UNCHANGED vars

-----------------------------------------------------------------------------
TelemetryInit ==
  /\ Init
  /\ serving = [p \in Proc |-> NoRequest]
  /\ owed = [s \in Session |-> [kind \in EventKind |-> 0]]

\* The receiver dies with its process.
TelemetryNext ==
  \/ /\ Next
     /\ serving' = [p \in Proc |-> IF p \in up' THEN serving[p] ELSE NoRequest]
     /\ UNCHANGED owed
  \/ \E p \in Proc :
       (\E export \in Exports : Request(p, export)) \/ Ingest(p) \/ Respond(p)

TelemetrySpec == TelemetryInit /\ [][TelemetryNext]_telemetryVars

-----------------------------------------------------------------------------
Stored(s, kind) ==
  Cardinality({i \in DOMAIN disk.events : disk.events[i].session = s /\ disk.events[i].kind = kind})

\* While the mirror takes writes, every record with a name, of a dispatched session,
\* in an export that was answered with ok is on its stored timeline, under its kind,
\* across restarts and retries.  Records without a name are dropped (otel.rs:158-160):
\* this says nothing of them, NothingDropped does.
AcceptedIsStored ==
  sinkFails = 0 =>
    \A s \in Session, kind \in EventKind : owed[s][kind] <= Stored(s, kind)

\* Claimed of the receiver ("Anything unmapped survives as a `raw` event -- nothing
\* observed is dropped"): when an export is answered with ok, at least as many events
\* are on a session's timeline as the export has records of it, named or not.
NothingDropped ==
  [][\A p \in Proc, s \in Session :
       LET export == serving[p].body
           ofS == [i \in DOMAIN export |-> IF export[i].stamp = s THEN export[i].records ELSE << >>]
       IN serving[p].busy /\ ~serving'[p].busy /\ p \in up' /\ sinkFails = 0
            => Len(FlattenSeq(ofS)) <= Len(Keep(disk.events, {e \in ToSet(disk.events) :
                   e.session = s /\ e.kind \notin {"mail", "log", "state", "terminal"}}))]_telemetryVars
=============================================================================
