SPECIFICATION TelemetrySpec

CONSTANTS
  m = m
  w = w
  s = s
  t = t
  ghost = ghost
  none = none
  modal = modal
  Environment = {modal}
  Proc = {m, w}
  Session = {s, t}
  Unknown = {}
  Tagged = {s, t}
  Bound <- BoundTo
  NoSession = none
  MaxOpen = 2
  MaxBorn = 4
  Exports <- Batches
  MaxSinkFails = 0

PROPERTY
  AppendOnly
