SPECIFICATION Spec

CONSTANTS
  a = a
  b = b
  topic = topic
  none = none
  main = main
  upstream = upstream
  Session = {a, b}
  Ref = {topic}
  NoRef = none
  Main = main
  Upstream = upstream
  OnOrigin = {topic}
  Workloads <- AllPairs
  Repo <- OneRepo
  LongNames = {}
  Flags <- SameFlags
  Faults = {"command", "tag", "setup", "teardown", "vanish", "listing"}
  MaxSlips = 1
  MaxMishaps = 1

SYMMETRY Symmetric
CHECK_DEADLOCK FALSE

INVARIANTS
  AgentOnPreparedPlace
  LocalAlwaysReachable
  NoDanglingWorktree

PROPERTIES
  CommitsSurvive
  UnsharedWorkCredited
  KeepsContract
