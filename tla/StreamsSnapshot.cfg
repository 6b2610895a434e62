SPECIFICATION Spec

CONSTANTS
  a = a
  b = b
  all = all
  some = some
  p = p
  q = q
  r = r
  Session = {a, b}
  Stream = {all, some}
  OnlyKinds <- AllOrSome
  Poller = {p, q, r}
  Polls <- OneAndTwo
  EventPage = 2
  PlanPage = 4
  MaxEvents = 3

CHECK_DEADLOCK FALSE

INVARIANTS
  SnapshotEitherWay
