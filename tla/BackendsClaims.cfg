SPECIFICATION Spec

CONSTANTS
  a = a
  b = b
  topic = topic
  none = none
  main = main
  upstream = upstream
  Session = {a, b}
  Ref = {topic}
  NoRef = none
  Main = main
  Upstream = upstream
  OnOrigin = {topic}
  Workloads <- AllPairs
  Repo <- OneRepo
  LongNames = {"repository"}
  Flags <- SameFlags
  Faults = {"teardown", "vanish"}
  MaxSlips = 1
  MaxMishaps = 1

CHECK_DEADLOCK FALSE

\* Each is refuted; check them one at a time.
INVARIANTS
  CancelledIsStopped
  ReapDeregisters

PROPERTIES
  CommittedIsDelivered
  RemovedWorkCredited
  KeepsContract
