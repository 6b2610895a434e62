SPECIFICATION Spec

CONSTANTS
  e = e
  h = h
  t = t
  r1 = r1
  r2 = r2
  Session = {e, t}
  Foreign = {}
  Exe = {e}
  Holder = {}
  Reconciler = {r1}
  Faults = {"remove"}
  MaxCrash = 0
  MaxSinkFails = 0

PROPERTIES
  ReapedDirGone
