SPECIFICATION Spec

CONSTANTS
  e = e
  h = h
  t = t
  r1 = r1
  r2 = r2
  Session = {e, h}
  Foreign = {h}
  Exe = {e}
  Holder = {h}
  Reconciler = {r1}
  Faults = {"provision", "stop", "teardown", "stream", "survey", "remove"}
  MaxCrash = 2
  MaxSinkFails = 1

INVARIANTS
  TypeOK
  ReapedEnvDestroyed
  Durable
  ExitIsReal

PROPERTIES
  LifecycleBetweenRestarts
